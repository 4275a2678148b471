------------------------ MODULE Orchestrator_proofs ------------------------
(***************************************************************************)
(* Proofs about Orchestrator, for any workers, threads, addresses, numbers *)
(* of facts and of attempts, and with any verdicts, rewrites and overlap   *)
(* of the runs.                                                            *)
(***************************************************************************)
EXTENDS Orchestrator, FiniteSetTheorems, TLAPS

Drafting(t) == t.pc \in {"generate", "vector", "compose"}
Verifying(t) == t.pc \in {"critique", "search"}

\* What is said, with the verification that vouches for it, in words that are
\* allowed, and about the property that was asked about unless the LLM worded it.
Vouched(t) ==
  /\ (t.pc = "sent" /\ t.reworded) \/ t.final.about = t.address
  /\ t.final.kinds = t.claims /\ t.claims = t.supported
  /\ t.claims # {} /\ t.citations # {}
  /\ AllAllowed(t.final) /\ ~t.hard

\* A draft may still be made; if an earlier one is reused, it is this run's.
DraftInv(t) ==
  Drafting(t) => /\ t.attempts < MaxAttempts /\ ~t.rewriting /\ t.label = Unread
                 /\ t.attempts >= 1 => t.prior.about = t.address

\* The run's own wording speaks about the property, and what was entailed so far
\* is cited.
WordingInv(t) ==
  /\ Verifying(t) => t.rewriting \/ t.text.about = t.address
  /\ Verifying(t) => (Supported(t) # {} => t.sources # {})
  /\ Verifying(t) /\ t.rewriting => t.text.kinds # {}

\* From the first send to the answer, an answer is ready.
AnswerInv(t) ==
  /\ t.pc \in {"naturalize", "sent"} \/ (Verifying(t) /\ t.rewriting) => Vouched(t)
  /\ t.pc = "naturalize" => t.label = Unread

TurnInv(t) == t \in Turn /\ DraftInv(t) /\ WordingInv(t) /\ AnswerInv(t)

\* A fact without its vector is one that some worker is about to embed.
Embedding ==
  \A i \in Keys : i \in vectors \/
    \E v \in Workers : turn[v].pc = "vector" /\ i = FactId(turn[v].address, turn[v].fact)

\* A search no ingest has overlapped walks the store as it is, every fact of
\* which has its vector; and a run that failed was overlapped.
StoreInv ==
  /\ Embedding
  /\ \A w \in Workers : turn[w].pc = "search" /\ w \notin crowded =>
       turn[w].keys = Keys /\ ~turn[w].bare /\ Keys \subseteq vectors
  /\ FailsOnlyWhenCrowded

\* A fact is filed under the slug of the property it is about ...
Filed == \A i \in Ids : facts[i] # NoAddress => Slug[facts[i]] = i[1]

\* ... and what a run cites stays in the store, under the slug of its property.
Cites(t) == t.sources \cup t.citations
CitedInv ==
  \A w \in Workers : \A c \in Cites(turn[w]) :
    facts[c] # NoAddress /\ c[1] = Slug[turn[w].address]

OrchestratorInv ==
  /\ TypeOK
  /\ \A w \in Workers : TurnInv(turn[w])
  /\ StoreInv
  /\ Filed /\ CitedInv
-----------------------------------------------------------------------------
LEMMA NumbersType ==
  /\ NumFacts \in Nat /\ MaxAttempts \in Nat /\ 1 \in Facts /\ 0 \in 0 .. MaxAttempts
  /\ NoData \in Kinds /\ MadeUp \in Kinds /\ Facts \subseteq Kinds
  /\ \A s \in Scores : s \in Nat
BY NumbersAssumption DEF Facts, NoData, MadeUp, Kinds

LEMMA NothingType == Nothing \in Message /\ Nothing.kinds = {} /\ AnAddress \in Addresses
BY SetsAssumption DEF Nothing, Message, AnAddress

LEMMA IdType == \A a \in Addresses, k \in Facts : FactId(a, k) \in Ids
BY SetsAssumption DEF FactId, Ids

LEMMA FreshType ==
  /\ Fresh \in Turn /\ Fresh.pc = "idle" /\ Fresh.attempts = 0 /\ Fresh.label = Unread
  /\ ~Fresh.rewriting /\ Fresh.sources = {} /\ Fresh.citations = {}
<1>1. Unread \in [Kinds -> Label]
  BY DEF Unread, Label
<1>2. (CHOOSE th \in Threads : TRUE) \in Threads
  BY SetsAssumption
<1> QED BY <1>1, <1>2, NumbersType, NothingType DEF Fresh, Turn, Steps

LEMMA SurvivorsType ==
  ASSUME NEW t \in Turn
  PROVE  /\ Survivors(t) \in Message
         /\ Survivors(t).kinds = Supported(t)
         /\ Supported(t) # {} => Survivors(t).about = t.text.about
         /\ Supported(t) \subseteq t.text.kinds
         /\ t.text.about \in Addresses /\ t.text.kinds \subseteq Kinds
BY NothingType DEF Survivors, Supported, Labelled, Message, Turn

\* Nothing is entailed before it is read.
LEMMA UnreadSupported ==
  ASSUME NEW t, t.label = Unread, t.text.kinds \subseteq Kinds
  PROVE  Supported(t) = {}
BY DEF Supported, Labelled, Unread

\* Where no answer is in hand and nothing is verified, there is nothing to show.
LEMMA QuietTurn ==
  ASSUME NEW t \in Turn, t.pc \in {"idle", "handed", "failed"}
  PROVE  TurnInv(t)
BY DEF TurnInv, DraftInv, WordingInv, AnswerInv, Drafting, Verifying

LEMMA DraftTurn ==
  ASSUME NEW t \in Turn, Drafting(t), t.attempts < MaxAttempts, ~t.rewriting, t.label = Unread,
         t.attempts >= 1 => t.prior.about = t.address
  PROVE  TurnInv(t)
BY DEF TurnInv, DraftInv, WordingInv, AnswerInv, Drafting, Verifying

LEMMA WordingTurn ==
  ASSUME NEW t \in Turn, Verifying(t), t.rewriting \/ t.text.about = t.address,
         Supported(t) # {} => t.sources # {},
         t.rewriting => t.text.kinds # {} /\ Vouched(t)
  PROVE  TurnInv(t)
BY DEF TurnInv, DraftInv, WordingInv, AnswerInv, Drafting, Verifying

LEMMA InitInv == Init => OrchestratorInv
<1> SUFFICES ASSUME Init PROVE OrchestratorInv
  OBVIOUS
<1>1. \A w \in Workers : turn[w] = Fresh
  BY DEF Init
<1>2. TypeOK
  BY FreshType, NothingType DEF Init, TypeOK
<1>3. \A w \in Workers : TurnInv(turn[w])
  BY <1>1, FreshType, QuietTurn
<1>4. StoreInv
  BY <1>1, FreshType DEF Init, StoreInv, Embedding, Keys, FailsOnlyWhenCrowded
<1>5. Filed /\ CitedInv
  BY <1>1, FreshType DEF Init, Filed, CitedInv, Cites
<1> QED BY <1>2, <1>3, <1>4, <1>5 DEF OrchestratorInv
-----------------------------------------------------------------------------
(* What each step leaves of the turn it is taken in.                       *)

LEMMA BeginTurn ==
  ASSUME TypeOK, NEW w \in Workers, NEW a \in Addresses, NEW th \in Threads,
         NEW hard \in BOOLEAN, NEW u,
         u = [Fresh EXCEPT !.pc = "generate", !.address = a, !.thread = th, !.hard = hard,
                           !.prior = saved[th]]
  PROVE  TurnInv(u)
<1>1. saved[th] \in Message
  BY DEF TypeOK
<1>2. /\ u \in Turn /\ u.pc = "generate" /\ u.attempts = 0 /\ u.label = Unread
      /\ ~u.rewriting
  <2>1. u \in Turn
    BY <1>1, FreshType, ZenonT(40) DEF Turn, Steps
  <2>2. /\ u.pc = "generate" /\ u.attempts = 0 /\ u.label = Unread
        /\ ~u.rewriting
    BY <1>1, FreshType DEF Turn
  <2> QED BY <2>1, <2>2
<1>3. 0 < MaxAttempts /\ ~(0 >= 1)
  BY NumbersAssumption
<1> QED BY <1>2, <1>3, DraftTurn DEF Drafting

LEMMA NoDataTurn ==
  ASSUME NEW t, TurnInv(t), t.pc = "generate", NEW u,
         u = [t EXCEPT !.pc = "critique", !.attempts = @ + 1, !.text = [about |-> t.address,
                       kinds |-> {NoData}], !.prior = Nothing]
  PROVE  TurnInv(u)
<1>1. /\ t \in Turn /\ t.attempts < MaxAttempts /\ ~t.rewriting /\ t.label = Unread
      /\ t.attempts \in 0 .. MaxAttempts /\ t.address \in Addresses
  BY DEF TurnInv, DraftInv, Drafting, Turn
<1> DEFINE m == [about |-> t.address, kinds |-> {NoData}]
<1>2. m \in Message /\ m.about = t.address /\ m.kinds = {NoData}
  BY <1>1, NumbersType DEF Message
<1>3. t.attempts + 1 \in 0 .. MaxAttempts
  BY <1>1, NumbersAssumption
<1>0. u = [t EXCEPT !.pc = "critique", !.attempts = t.attempts + 1, !.text = m, !.prior = Nothing]
  OBVIOUS
<1> HIDE DEF m
<1>4. /\ u \in Turn /\ u.pc = "critique" /\ u.text = m /\ u.address = t.address
      /\ u.rewriting = t.rewriting /\ u.label = t.label
  <2>1. u \in Turn
    BY <1>0, <1>1, <1>2, <1>3, NothingType, ZenonT(40) DEF Turn, Steps
  <2>2. /\ u.pc = "critique" /\ u.text = m /\ u.address = t.address
        /\ u.rewriting = t.rewriting /\ u.label = t.label
    BY <1>0, <1>1, <1>2, <1>3, NothingType DEF Turn
  <2> QED BY <2>1, <2>2
<1>5. Supported(u) = {}
  BY <1>1, <1>2, <1>4, UnreadSupported, NumbersType
<1> QED BY <1>1, <1>2, <1>4, <1>5, WordingTurn DEF Verifying

LEMMA IngestTurn ==
  ASSUME NEW t, TurnInv(t), Drafting(t), NEW pc \in {"generate", "vector", "compose"},
         NEW k \in Facts, NEW u,
         u = [t EXCEPT !.pc = pc, !.fact = k]
  PROVE  TurnInv(u)
<1>1. /\ t \in Turn /\ t.attempts < MaxAttempts /\ ~t.rewriting /\ t.label = Unread
      /\ t.attempts >= 1 => t.prior.about = t.address
  BY DEF TurnInv, DraftInv
<1>2. /\ u \in Turn /\ u.pc = pc /\ u.attempts = t.attempts /\ u.rewriting = t.rewriting
      /\ u.label = t.label /\ u.prior = t.prior /\ u.address = t.address
  <2>1. u \in Turn
    BY <1>1, ZenonT(40) DEF Turn, Steps
  <2>2. /\ u.pc = pc /\ u.attempts = t.attempts /\ u.rewriting = t.rewriting
        /\ u.label = t.label /\ u.prior = t.prior /\ u.address = t.address
    BY <1>1 DEF Turn
  <2> QED BY <2>1, <2>2
<1> QED BY <1>1, <1>2, DraftTurn DEF Drafting

LEMMA FactTurn ==
  ASSUME NEW t, TurnInv(t), t.pc = "generate", NEW u,
         u = [t EXCEPT !.pc = "vector"]
  PROVE  TurnInv(u)
<1>1. /\ t \in Turn /\ t.attempts < MaxAttempts /\ ~t.rewriting /\ t.label = Unread
      /\ t.attempts >= 1 => t.prior.about = t.address
  BY DEF TurnInv, DraftInv, Drafting
<1>2. /\ u \in Turn /\ u.pc = "vector" /\ u.attempts = t.attempts /\ u.rewriting = t.rewriting
      /\ u.label = t.label /\ u.prior = t.prior /\ u.address = t.address
  <2>1. u \in Turn
    BY <1>1, ZenonT(40) DEF Turn, Steps
  <2>2. /\ u.pc = "vector" /\ u.attempts = t.attempts /\ u.rewriting = t.rewriting
        /\ u.label = t.label /\ u.prior = t.prior /\ u.address = t.address
    BY <1>1 DEF Turn
  <2> QED BY <2>1, <2>2
<1> QED BY <1>1, <1>2, DraftTurn DEF Drafting

LEMMA ComposeTurn ==
  ASSUME NEW t, TurnInv(t), t.pc = "compose", NEW u,
         u = [t EXCEPT !.pc = "critique", !.attempts = @ + 1, !.prior = Nothing, !.label =
                       Unread, !.total = 0, !.text = IF t.attempts >= 1 /\ t.prior.kinds # {}
                       THEN t.prior ELSE [about |-> t.address, kinds |-> {k \in Facts :
                       Allowed(t.address, k)}]]
  PROVE  TurnInv(u)
<1> DEFINE m == IF t.attempts >= 1 /\ t.prior.kinds # {} THEN t.prior
                ELSE [about |-> t.address, kinds |-> {k \in Facts : Allowed(t.address, k)}]
<1>1. /\ t \in Turn /\ t.attempts < MaxAttempts /\ ~t.rewriting
      /\ t.attempts >= 1 => t.prior.about = t.address
      /\ t.attempts \in 0 .. MaxAttempts /\ t.address \in Addresses /\ t.prior \in Message
  BY DEF TurnInv, DraftInv, Drafting, Turn
<1>2. {k \in Facts : Allowed(t.address, k)} \subseteq Kinds
  BY NumbersType
<1>3. m \in Message /\ m.about = t.address
  BY <1>1, <1>2 DEF Message
<1>4. t.attempts + 1 \in 0 .. MaxAttempts
  BY <1>1, NumbersAssumption
<1>5. Unread \in [Kinds -> Label] /\ 0 \in Nat
  BY DEF Unread, Label
<1>0. u = [t EXCEPT !.pc = "critique", !.attempts = t.attempts + 1, !.prior = Nothing, !.label =
                    Unread, !.total = 0, !.text = m]
  OBVIOUS
<1> HIDE DEF m
<1>6. /\ u \in Turn /\ u.pc = "critique" /\ u.text = m /\ u.address = t.address
      /\ u.rewriting = t.rewriting /\ u.label = Unread
  <2>1. u \in Turn
    BY <1>0, <1>1, <1>3, <1>4, <1>5, NothingType, ZenonT(40) DEF Turn, Steps
  <2>2. /\ u.pc = "critique" /\ u.text = m /\ u.address = t.address
        /\ u.rewriting = t.rewriting /\ u.label = Unread
    BY <1>0, <1>1, <1>3, <1>4, <1>5, NothingType DEF Turn
  <2> QED BY <2>1, <2>2
<1>7. Supported(u) = {}
  BY <1>3, <1>6, UnreadSupported, SurvivorsType
<1> QED BY <1>1, <1>3, <1>6, <1>7, WordingTurn DEF Verifying

LEMMA SearchTurn ==
  ASSUME NEW t, TurnInv(t), t.pc = "critique",
         NEW keys \in SUBSET Ids, NEW bare \in BOOLEAN, NEW u,
         u = [t EXCEPT !.pc = "search", !.keys = keys, !.bare = bare]
  PROVE  TurnInv(u)
<1>1. /\ t \in Turn /\ (t.rewriting \/ t.text.about = t.address)
      /\ Supported(t) # {} => t.sources # {}
      /\ t.rewriting => t.text.kinds # {} /\ Vouched(t)
  BY DEF TurnInv, WordingInv, AnswerInv, Verifying
<1>2. /\ u \in Turn /\ u.pc = "search" /\ u.text = t.text /\ u.address = t.address
      /\ u.label = t.label /\ u.sources = t.sources /\ u.rewriting = t.rewriting
      /\ u.final = t.final /\ u.claims = t.claims /\ u.supported = t.supported
      /\ u.citations = t.citations /\ u.hard = t.hard
  <2>1. u \in Turn
    BY <1>1, ZenonT(40) DEF Turn, Steps
  <2>2. /\ u.pc = "search" /\ u.text = t.text /\ u.address = t.address
        /\ u.label = t.label /\ u.sources = t.sources /\ u.rewriting = t.rewriting
        /\ u.final = t.final /\ u.claims = t.claims /\ u.supported = t.supported
        /\ u.citations = t.citations /\ u.hard = t.hard
    BY <1>1 DEF Turn
  <2> QED BY <2>1, <2>2
<1>3. Supported(u) = Supported(t)
  BY <1>2 DEF Supported, Labelled
<1>4. Vouched(t) => Vouched(u)
  BY <1>2 DEF Vouched
<1> QED BY <1>1, <1>2, <1>3, <1>4, WordingTurn DEF Verifying

\* A verdict is added; if it entails the claim, with a source.
LEMMA JudgeTurn ==
  ASSUME NEW t, TurnInv(t), t.pc = "search", NEW n, NEW label \in Label \ {"none"},
         NEW score \in Nat, NEW sources \in SUBSET Ids, label = "ENTAILED" => sources # {}, NEW u,
         u = [t EXCEPT !.pc = "critique", !.label[n] = label, !.total = @ + score, !.sources = @
                       \cup sources, !.keys = {}, !.bare = FALSE]
  PROVE  TurnInv(u)
<1>1. /\ t \in Turn /\ (t.rewriting \/ t.text.about = t.address)
      /\ Supported(t) # {} => t.sources # {}
      /\ t.rewriting => t.text.kinds # {} /\ Vouched(t)
      /\ t.label \in [Kinds -> Label] /\ t.total \in Nat /\ t.sources \in SUBSET Ids
      /\ t.text.kinds \subseteq Kinds
  BY DEF TurnInv, WordingInv, AnswerInv, Verifying, Turn, Message
<1> DEFINE l == [t.label EXCEPT ![n] = label]
<1>2. l \in [Kinds -> Label] /\ \A k \in Kinds : l[k] = t.label[k] \/ l[k] = label
  BY <1>1
<1>3. t.total + score \in Nat /\ t.sources \cup sources \in SUBSET Ids
  BY <1>1
<1>0. u = [t EXCEPT !.pc = "critique", !.label = l, !.total = t.total + score, !.sources =
                    t.sources \cup sources, !.keys = {}, !.bare = FALSE]
  OBVIOUS
<1> HIDE DEF l
<1>4. /\ u \in Turn /\ u.pc = "critique" /\ u.text = t.text /\ u.address = t.address
      /\ u.label = l /\ u.sources = t.sources \cup sources /\ u.rewriting = t.rewriting
      /\ u.final = t.final /\ u.claims = t.claims /\ u.supported = t.supported
      /\ u.citations = t.citations /\ u.hard = t.hard
  <2>1. u \in Turn
    BY <1>0, <1>1, <1>2, <1>3, ZenonT(40) DEF Turn, Steps
  <2>2. /\ u.pc = "critique" /\ u.text = t.text /\ u.address = t.address
        /\ u.label = l /\ u.sources = t.sources \cup sources /\ u.rewriting = t.rewriting
        /\ u.final = t.final /\ u.claims = t.claims /\ u.supported = t.supported
        /\ u.citations = t.citations /\ u.hard = t.hard
    BY <1>0, <1>1, <1>2, <1>3 DEF Turn
  <2> QED BY <2>1, <2>2
<1>5. Supported(u) # {} => u.sources # {}
  <2>1. CASE label = "ENTAILED"
    BY <2>1, <1>4
  <2>2. CASE label # "ENTAILED"
    BY <2>2, <1>1, <1>2, <1>4 DEF Supported, Labelled
  <2> QED BY <2>1, <2>2
<1>6. Vouched(t) => Vouched(u)
  BY <1>4 DEF Vouched
<1> QED BY <1>1, <1>4, <1>5, <1>6, WordingTurn DEF Verifying

\* What the gate approves and decide lets proceed is cited, allowed and asked
\* without a hard trigger.
LEMMA SendTurn ==
  ASSUME NEW t, TurnInv(t), t.pc = "critique", ~t.rewriting, Answerable(t), NEW u,
         u = [t EXCEPT !.pc = "naturalize", !.final = Survivors(t), !.claims = t.text.kinds,
                       !.supported = Supported(t), !.citations = t.sources, !.label = Unread,
                       !.total = 0, !.sources = {}]
  PROVE  TurnInv(u)
<1>1. /\ t \in Turn /\ t.text.about = t.address
      /\ Supported(t) # {} => t.sources # {}
      /\ t.sources \in SUBSET Ids
  BY DEF TurnInv, WordingInv, Verifying, Turn
<1>2. /\ t.text.kinds # {} /\ Supported(t) = t.text.kinds /\ AllAllowed(t.text) /\ ~t.hard
  BY DEF Answerable, Approved, Escalates, HardTrigger
<1> DEFINE m == Survivors(t)  supported == Supported(t)
<1>3. /\ m \in Message /\ m.about = t.address /\ m.kinds = t.text.kinds
      /\ t.text.kinds \in SUBSET Kinds /\ supported = t.text.kinds /\ t.text.about = m.about
  BY <1>1, <1>2, SurvivorsType
<1>4. AllAllowed(m)
  BY <1>2, <1>3 DEF AllAllowed
<1>5. Unread \in [Kinds -> Label] /\ 0 \in Nat /\ t.sources # {}
  BY <1>1, <1>2 DEF Unread, Label
<1>0. u = [t EXCEPT !.pc = "naturalize", !.final = m, !.claims = t.text.kinds,
                    !.supported = supported, !.citations = t.sources,
                    !.label = Unread, !.total = 0, !.sources = {}]
  OBVIOUS
<1> HIDE DEF m, supported
<1>6. /\ u \in Turn /\ u.pc = "naturalize" /\ u.address = t.address /\ u.hard = t.hard
      /\ u.label = Unread /\ u.final = m /\ u.claims = t.text.kinds
      /\ u.supported = supported /\ u.citations = t.sources
  <2>1. supported \in SUBSET Kinds /\ {} \in SUBSET Ids
    BY <1>3
  <2>2. u \in Turn
    BY <1>0, <1>1, <1>3, <1>5, <2>1, ZenonT(40) DEF Turn, Steps
  <2>3. u.pc = "naturalize" /\ u.address = t.address /\ u.hard = t.hard
    BY <1>0, <1>1 DEF Turn
  <2>4. u.label = Unread /\ u.final = m /\ u.claims = t.text.kinds
    BY <1>0, <1>1 DEF Turn
  <2>5. u.supported = supported /\ u.citations = t.sources
    BY <1>0, <1>1 DEF Turn
  <2> QED BY <2>2, <2>3, <2>4, <2>5
<1>7. Vouched(u)
  BY <1>2, <1>3, <1>4, <1>5, <1>6 DEF Vouched
<1> QED BY <1>6, <1>7 DEF TurnInv, DraftInv, WordingInv, AnswerInv, Drafting, Verifying

LEMMA RegenerateTurn ==
  ASSUME NEW t, TurnInv(t), t.pc = "critique", ~t.rewriting, Survivable(t), NEW u,
         u = [t EXCEPT !.pc = "generate", !.prior = Survivors(t), !.text = Nothing, !.label =
                       Unread, !.total = 0, !.sources = {}]
  PROVE  TurnInv(u)
<1>1. /\ t \in Turn /\ t.text.about = t.address /\ t.attempts < MaxAttempts
      /\ Supported(t) # {}
  BY DEF TurnInv, WordingInv, Verifying, Survivable
<1> DEFINE m == Survivors(t)
<1>2. m \in Message /\ m.about = t.address
  BY <1>1, SurvivorsType
<1>3. Unread \in [Kinds -> Label] /\ 0 \in Nat
  BY DEF Unread, Label
<1>0. u = [t EXCEPT !.pc = "generate", !.prior = m, !.text = Nothing, !.label = Unread, !.total
                    = 0, !.sources = {}]
  OBVIOUS
<1> HIDE DEF m
<1>4. /\ u \in Turn /\ u.pc = "generate" /\ u.attempts = t.attempts
      /\ u.rewriting = t.rewriting /\ u.label = Unread /\ u.prior = m /\ u.address = t.address
  BY <1>0, <1>1, <1>2, <1>3, NothingType, ZenonT(40) DEF Turn, Steps
<1> QED BY <1>1, <1>2, <1>4, DraftTurn DEF Drafting

LEMMA NaturalizeTurn ==
  ASSUME NEW t, TurnInv(t), t.pc = "naturalize", NEW about \in Addresses,
         NEW kinds \in SUBSET Kinds, kinds # {}, NEW u,
         u = [t EXCEPT !.pc = "critique", !.rewriting = TRUE, !.text = [about |-> about,
                       kinds |-> kinds]]
  PROVE  TurnInv(u)
<1>1. t \in Turn /\ Vouched(t) /\ t.label = Unread /\ t.address \in Addresses
  BY DEF TurnInv, AnswerInv, Turn
<1> DEFINE m == [about |-> about, kinds |-> kinds]
<1>2. m \in Message /\ m.kinds # {} /\ m.kinds \subseteq Kinds
  BY <1>1 DEF Message
<1>0. u = [t EXCEPT !.pc = "critique", !.rewriting = TRUE, !.text = m]
  OBVIOUS
<1> HIDE DEF m
<1>3. /\ u \in Turn /\ u.pc = "critique" /\ u.text = m /\ u.address = t.address
      /\ u.label = Unread /\ u.rewriting
      /\ u.final = t.final /\ u.claims = t.claims /\ u.supported = t.supported
      /\ u.citations = t.citations /\ u.hard = t.hard
  <2>1. u \in Turn
    BY <1>0, <1>1, <1>2, ZenonT(40) DEF Turn, Steps
  <2>2. /\ u.pc = "critique" /\ u.text = m /\ u.address = t.address
        /\ u.label = Unread /\ u.rewriting
        /\ u.final = t.final /\ u.claims = t.claims /\ u.supported = t.supported
        /\ u.citations = t.citations /\ u.hard = t.hard
    BY <1>0, <1>1, <1>2 DEF Turn
  <2> QED BY <2>1, <2>2
<1>4. Supported(u) = {}
  BY <1>2, <1>3, UnreadSupported
<1>5. Vouched(u)
  BY <1>1, <1>3 DEF Vouched
<1> QED BY <1>2, <1>3, <1>4, <1>5, WordingTurn DEF Verifying

LEMMA AnswerTurn ==
  ASSUME NEW t \in Turn, NEW final \in Message, NEW reworded \in BOOLEAN, 
         NEW claims \in SUBSET Kinds, NEW supported \in SUBSET Kinds, NEW citations \in SUBSET Ids,
         reworded \/ final.about = t.address, final.kinds = claims, claims = supported,
         claims # {}, citations # {}, AllAllowed(final), ~t.hard, NEW u,
         u = [Fresh EXCEPT !.pc = "sent", !.address = t.address, !.hard = t.hard, !.final = final,
                     !.reworded = reworded, !.claims = claims, !.supported = supported,
                     !.citations = citations]
  PROVE  TurnInv(u)
<1>1. t.address \in Addresses /\ t.hard \in BOOLEAN
  BY DEF Turn
<1>2. /\ u \in Turn /\ u.pc = "sent" /\ u.address = t.address /\ u.hard = t.hard
      /\ u.final = final /\ u.reworded = reworded /\ u.claims = claims /\ u.supported = supported
      /\ u.citations = citations
  <2>1. u \in Turn
    BY <1>1, FreshType, ZenonT(40) DEF Turn, Steps
  <2>2. /\ u.pc = "sent" /\ u.address = t.address /\ u.hard = t.hard
        /\ u.final = final /\ u.reworded = reworded /\ u.claims = claims /\ u.supported = supported
        /\ u.citations = citations
    BY <1>1, FreshType DEF Turn
  <2> QED BY <2>1, <2>2
<1>3. Vouched(u)
  BY <1>2 DEF Vouched
<1> QED BY <1>2, <1>3 DEF TurnInv, DraftInv, WordingInv, AnswerInv, Drafting, Verifying

LEMMA AdoptTurn ==
  ASSUME NEW t, TurnInv(t), t.pc = "critique", t.rewriting, Approved(t), AllAllowed(Survivors(t))
  PROVE  /\ t \in Turn /\ ~t.hard
         /\ Survivors(t) \in Message /\ t.text.kinds \in SUBSET Kinds
         /\ Supported(t) \in SUBSET Kinds /\ t.sources \in SUBSET Ids
         /\ Survivors(t).kinds = t.text.kinds
         /\ t.text.kinds = Supported(t) /\ t.text.kinds # {} /\ t.sources # {}
<1>1. /\ t \in Turn /\ t.text.kinds # {} /\ ~t.hard
      /\ Supported(t) # {} => t.sources # {}
      /\ t.sources \in SUBSET Ids
  BY DEF TurnInv, WordingInv, AnswerInv, Vouched, Verifying, Turn
<1>2. Supported(t) = t.text.kinds
  BY DEF Approved
<1> QED BY <1>1, <1>2, SurvivorsType
-----------------------------------------------------------------------------
(* The workers' turns after a step.                                        *)

\* The turn of the worker that takes the step is the only one that changes.
LEMMA SetTurns ==
  ASSUME TypeOK, \A v \in Workers : TurnInv(turn[v]),
         NEW w \in Workers, NEW u, TurnInv(u), Set(w, u)
  PROVE  (\A v \in Workers : TurnInv(turn'[v])) /\ turn' \in [Workers -> Turn]
<1>1. turn \in [Workers -> Turn] /\ turn' = [turn EXCEPT ![w] = u]
  BY DEF TypeOK, Set
<1>2. turn'[w] = u /\ \A v \in Workers \ {w} : turn'[v] = turn[v]
  BY <1>1
<1>3. u \in Turn
  BY DEF TurnInv
<1> QED BY <1>1, <1>2, <1>3

LEMMA EndTurn ==
  ASSUME NEW pc \in {"handed", "failed"}
  PROVE  TurnInv([Fresh EXCEPT !.pc = pc])
<1> DEFINE u == [Fresh EXCEPT !.pc = pc]
<1>1. u \in Turn /\ u.pc = pc
  BY FreshType DEF Turn, Steps
<1> HIDE DEF u
<1>2. TurnInv(u)
  BY <1>1, QuietTurn
<1> QED BY <1>2 DEF u

\* A verified message is sent as it was verified.
LEMMA VerifiedTurn ==
  ASSUME NEW w \in Workers, TurnInv(turn[w]), Vouched(turn[w]),
         turn[w].pc # "sent", AnswerVerified(w)
  PROVE  \E u : TurnInv(u) /\ Set(w, u)
<1> DEFINE t == turn[w]
<1>1. /\ t \in Turn /\ t.final \in Message /\ t.claims \in SUBSET Kinds
      /\ t.supported \in SUBSET Kinds /\ t.citations \in SUBSET Ids
  BY DEF TurnInv, Turn
<1>2. TurnInv([Fresh EXCEPT !.pc = "sent", !.address = t.address, !.hard = t.hard,
            !.final = t.final, !.reworded = FALSE, !.claims = t.claims,
            !.supported = t.supported, !.citations = t.citations])
  BY <1>1, AnswerTurn DEF Vouched
<1> QED BY <1>2 DEF AnswerVerified, Answer

LEMMA GenerateTurns ==
  ASSUME NEW w \in Workers, TurnInv(turn[w]), Generate(w)
  PROVE  \E u : TurnInv(u) /\ Set(w, u)
<1>1. CASE GenerateNoData(w)
  BY <1>1, NoDataTurn DEF GenerateNoData
<1>2. CASE IngestFact(w)
  BY <1>2, FactTurn DEF IngestFact
<1>3. CASE IngestVector(w)
  <2>1. Drafting(turn[w]) /\ turn[w].fact \in Facts
    BY <1>3 DEF IngestVector, Drafting, TurnInv, Turn
  <2>2. Ingested(w)
    BY <1>3 DEF IngestVector
  <2>3. CASE turn[w].fact < NumFacts
    <3>1. turn[w].fact + 1 \in Facts
      BY <2>1, <2>3, NumbersType DEF Facts
    <3>2. TurnInv([turn[w] EXCEPT !.pc = "generate", !.fact = turn[w].fact + 1])
      BY <2>1, <3>1, IngestTurn
    <3> QED BY <2>2, <2>3, <3>2 DEF Ingested
  <2>4. CASE ~(turn[w].fact < NumFacts)
    <3>1. TurnInv([turn[w] EXCEPT !.pc = "compose", !.fact = 1])
      BY <2>1, NumbersType, IngestTurn
    <3> QED BY <2>2, <2>4, <3>1 DEF Ingested
  <2> QED BY <2>3, <2>4
<1>4. CASE Compose(w)
  BY <1>4, ComposeTurn DEF Compose
<1> QED BY <1>1, <1>2, <1>3, <1>4 DEF Generate

LEMMA CritiqueTurns ==
  ASSUME TypeOK, NEW w \in Workers, TurnInv(turn[w]), Critique(w)
  PROVE  \E u : TurnInv(u) /\ Set(w, u)
<1>1. CASE BeginSearch(w)
  <2>1. Keys \in SUBSET Ids /\ (BareFacts(w) # {}) \in BOOLEAN
    BY DEF Keys
  <2> QED BY <1>1, <2>1, SearchTurn DEF BeginSearch
<1>2. CASE SearchFails(w)
  BY <1>2, EndTurn DEF SearchFails
<1>3. ASSUME NEW label \in Label \ {"none"}, NEW score \in Nat, NEW sources \in SUBSET Ids,
             label = "ENTAILED" => sources # {}, Judge(w, label, score, sources)
      PROVE  \E u : TurnInv(u) /\ Set(w, u)
  BY <1>3, JudgeTurn DEF Judge, SearchCompletes
<1>4. ASSUME NEW s \in Scores, NEW i \in Ids, JudgeEntailed(w, s, i)
      PROVE  \E u : TurnInv(u) /\ Set(w, u)
  <2>1. s \in Nat /\ {i} \in SUBSET Ids /\ {i} # {} /\ Judge(w, "ENTAILED", s, {i})
    BY <1>4, NumbersType DEF JudgeEntailed
  <2> QED BY <1>3, <2>1 DEF Label
<1>5. CASE JudgeContradicted(w) \/ JudgeBaseless(w)
  <2>1. PICK label \in {"CONTRADICTED", "BASELESS"} : Judge(w, label, 0, {})
    BY <1>5 DEF JudgeContradicted, JudgeBaseless
  <2>2. {} \in SUBSET Ids /\ 0 \in Nat /\ label \in Label \ {"none"} /\ label # "ENTAILED"
    BY DEF Label
  <2> QED BY <1>3, <2>1, <2>2
<1> QED BY <1>1, <1>2, <1>4, <1>5 DEF Critique

LEMMA FinishTurns ==
  ASSUME NEW w \in Workers, TurnInv(turn[w]), Finish(w)
  PROVE  \E u : TurnInv(u) /\ Set(w, u)
<1>1. CASE Send(w)
  BY <1>1, SendTurn DEF Send, Verified
<1>2. CASE Regenerate(w)
  BY <1>2, RegenerateTurn DEF Regenerate, Verified
<1>3. CASE Handoff(w)
  BY <1>3, EndTurn DEF Handoff
<1>4. CASE SendVerified(w)
  <2>1. Vouched(turn[w]) /\ turn[w].pc # "sent"
    BY <1>4 DEF SendVerified, TurnInv, AnswerInv
  <2> QED BY <1>4, <2>1, VerifiedTurn DEF SendVerified
<1>5. ASSUME NEW about \in Addresses, NEW kinds \in (SUBSET (Facts \cup {MadeUp})) \ {{}},
             Naturalize(w, about, kinds)
      PROVE  \E u : TurnInv(u) /\ Set(w, u)
  <2>1. kinds \in SUBSET Kinds /\ kinds # {}
    BY NumbersType
  <2> QED BY <1>5, <2>1, NaturalizeTurn DEF Naturalize
<1>6. CASE AdoptRewrite(w)
  <2> DEFINE t == turn[w]
  <2>1. /\ t.pc = "critique" /\ t.rewriting /\ Approved(t) /\ AllAllowed(Survivors(t))
        /\ Answer(w, Survivors(t), TRUE, t.text.kinds, Supported(t), t.sources)
    BY <1>6 DEF AdoptRewrite, Reverified
  <2>2. TurnInv([Fresh EXCEPT !.pc = "sent", !.address = t.address, !.hard = t.hard,
            !.final = Survivors(t), !.reworded = TRUE, !.claims = t.text.kinds,
            !.supported = Supported(t), !.citations = t.sources])
    BY <2>1, AdoptTurn, AnswerTurn
  <2> QED BY <2>1, <2>2 DEF Answer
<1>7. CASE DropRewrite(w)
  <2>1. Vouched(turn[w]) /\ turn[w].pc # "sent"
    BY <1>7 DEF DropRewrite, Reverified, TurnInv, AnswerInv, Verifying
  <2> QED BY <1>7, <2>1, VerifiedTurn DEF DropRewrite
<1> QED BY <1>1, <1>2, <1>3, <1>4, <1>5, <1>6, <1>7 DEF Finish

\* Whatever happens, the turns keep their invariant.
LEMMA StepTurns ==
  ASSUME TypeOK, \A w \in Workers : TurnInv(turn[w]), [Next]_vars
  PROVE  (\A w \in Workers : TurnInv(turn'[w])) /\ turn' \in [Workers -> Turn]
<1>1. ASSUME NEW w \in Workers, NEW q \in Queries, NEW th \in Threads,
             Begin(w, q.address, th, q.hard)
      PROVE  \E u : TurnInv(u) /\ Set(w, u)
  <2>1. q.address \in Addresses /\ q.hard \in BOOLEAN
    BY SetsAssumption
  <2> QED BY <1>1, <2>1, BeginTurn DEF Begin
<1>2. ASSUME NEW w \in Workers, Run(w) PROVE \E u : TurnInv(u) /\ Set(w, u)
  BY <1>2, GenerateTurns, CritiqueTurns, FinishTurns DEF Run
<1>3. CASE UNCHANGED vars
  BY <1>3 DEF vars, TypeOK
<1>4. ASSUME NEW w \in Workers, \E u : TurnInv(u) /\ Set(w, u)
      PROVE  (\A v \in Workers : TurnInv(turn'[v])) /\ turn' \in [Workers -> Turn]
  BY <1>4, SetTurns
<1> QED BY <1>1, <1>2, <1>3, <1>4 DEF Next
-----------------------------------------------------------------------------
(* The store, the checkpoints and the overlaps after a step.               *)

LEMMA CheckpointType ==
  ASSUME TypeOK, NEW w \in Workers, TurnInv(turn[w]), Checkpoint(w) \/ UNCHANGED saved
  PROVE  saved' \in [Threads -> Message]
<1>1. Survivors(turn[w]) \in Message
  BY SurvivorsType DEF TurnInv
<1> QED BY <1>1 DEF Checkpoint, TypeOK

LEMMA StepType ==
  ASSUME TypeOK, \A w \in Workers : TurnInv(turn[w]), [Next]_vars
  PROVE  TypeOK'
<1>1. turn' \in [Workers -> Turn]
  BY StepTurns
<1> SUFFICES ASSUME TRUE
             PROVE  /\ facts' \in [Ids -> Addresses \cup {NoAddress}] /\ vectors' \subseteq Ids
                    /\ saved' \in [Threads -> Message] /\ crowded' \subseteq Workers
  BY <1>1 DEF TypeOK
<1>2. ASSUME NEW w \in Workers, NEW a \in Addresses, NEW th \in Threads, NEW hard \in BOOLEAN,
             Begin(w, a, th, hard)
      PROVE  /\ Unstored /\ crowded' \subseteq Workers /\ UNCHANGED saved
  BY <1>2 DEF Begin, TypeOK
<1>3. ASSUME NEW w \in Workers, IngestFact(w)
      PROVE  /\ facts' \in [Ids -> Addresses \cup {NoAddress}] /\ vectors' \subseteq Ids
             /\ saved' \in [Threads -> Message] /\ crowded' \subseteq Workers
  <2>1. turn[w].address \in Addresses
    BY DEF TypeOK, Turn
  <2> QED BY <1>3, <2>1 DEF IngestFact, TypeOK
<1>4. ASSUME NEW w \in Workers, IngestVector(w)
      PROVE  /\ facts' \in [Ids -> Addresses \cup {NoAddress}] /\ vectors' \subseteq Ids
             /\ saved' \in [Threads -> Message] /\ crowded' \subseteq Workers
  <2>1. turn[w].address \in Addresses /\ turn[w].fact \in Facts
    BY DEF TypeOK, Turn
  <2>2. FactId(turn[w].address, turn[w].fact) \in Ids
    BY <2>1, IdType
  <2> QED BY <1>4, <2>2 DEF IngestVector, TypeOK
<1>5. ASSUME NEW w \in Workers, Critique(w)
      PROVE  Unstored /\ crowded' \subseteq Workers /\ UNCHANGED saved
  BY <1>5 DEF Critique, BeginSearch, SearchFails, JudgeEntailed, JudgeContradicted,
              JudgeBaseless, Judge, TypeOK
<1>6. ASSUME NEW w \in Workers, GenerateNoData(w) \/ Compose(w)
      PROVE  Unstored /\ UNCHANGED <<saved, crowded>>
  BY <1>6 DEF GenerateNoData, Compose
<1>7. ASSUME NEW w \in Workers, Finish(w)
      PROVE  Unstored /\ (Checkpoint(w) \/ UNCHANGED saved) /\ UNCHANGED crowded
  BY <1>7 DEF Finish, Send, Regenerate, Handoff, SendVerified, Naturalize, AdoptRewrite,
              DropRewrite
<1>8. ASSUME NEW w \in Workers, Unstored, Checkpoint(w) \/ UNCHANGED saved,
             crowded' \subseteq Workers
      PROVE  /\ facts' \in [Ids -> Addresses \cup {NoAddress}] /\ vectors' \subseteq Ids
             /\ saved' \in [Threads -> Message]
  BY <1>8, CheckpointType DEF Unstored, TypeOK
<1>9. ASSUME NEW w \in Workers, Run(w)
      PROVE  /\ facts' \in [Ids -> Addresses \cup {NoAddress}] /\ vectors' \subseteq Ids
             /\ saved' \in [Threads -> Message] /\ crowded' \subseteq Workers
  BY <1>9, <1>3, <1>4, <1>5, <1>6, <1>7, <1>8 DEF Run, Generate, TypeOK
<1>10. ASSUME NEW w \in Workers, NEW q \in Queries, NEW th \in Threads,
              Begin(w, q.address, th, q.hard)
       PROVE  /\ facts' \in [Ids -> Addresses \cup {NoAddress}] /\ vectors' \subseteq Ids
              /\ saved' \in [Threads -> Message] /\ crowded' \subseteq Workers
  <2>1. q.address \in Addresses /\ q.hard \in BOOLEAN
    BY SetsAssumption
  <2> QED BY <1>2, <1>8, <1>10, <2>1
<1>11. CASE UNCHANGED vars
  BY <1>11 DEF vars, TypeOK
<1> QED BY <1>9, <1>10, <1>11 DEF Next

\* Where a step that is neither an ingest nor a search leaves its turn.
LEMMA PcAfter ==
  ASSUME TypeOK, NEW w \in Workers,
         \/ \E a \in Addresses, th \in Threads, hard \in BOOLEAN : Begin(w, a, th, hard)
         \/ GenerateNoData(w) \/ Compose(w)
         \/ \E label \in Label, s \in Nat, sources \in SUBSET Ids : Judge(w, label, s, sources)
         \/ Finish(w)
  PROVE  /\ turn[w].pc # "vector" /\ turn'[w].pc \notin {"vector", "search", "failed"}
         /\ \A v \in Workers \ {w} : turn'[v] = turn[v]
         /\ Unstored /\ (crowded' = crowded \/ crowded' = crowded \ {w})
<1>1. turn \in [Workers -> Turn] /\ turn[w] \in Turn
  BY DEF TypeOK
<1>2. \A v \in Workers \ {w} : turn'[v] = turn[v]
  <2>1. PICK u : Set(w, u)
    BY DEF Begin, GenerateNoData, Compose, Judge, Finish, Send, Regenerate, Handoff, SendVerified,
           Naturalize, AdoptRewrite, DropRewrite, AnswerVerified, Answer
  <2> QED BY <1>1, <2>1 DEF Set
<1>3. turn[w].pc # "vector" /\ Unstored /\ (crowded' = crowded \/ crowded' = crowded \ {w})
  BY DEF Begin, GenerateNoData, Compose, Judge, Finish, Send, Regenerate, Handoff, SendVerified,
         Naturalize, AdoptRewrite, DropRewrite, SearchCompletes, Verified, Reverified, Running,
         Steps
<1>4. ASSUME NEW a \in Addresses, NEW th \in Threads, NEW hard \in BOOLEAN, Begin(w, a, th, hard)
      PROVE  turn'[w].pc = "generate"
  BY <1>1, <1>4, FreshType DEF Begin, Set, Turn
<1>5. CASE GenerateNoData(w)
  <2>1. turn'[w].pc = "critique"
    BY <1>1, <1>5 DEF GenerateNoData, Set, Turn
  <2> QED BY <1>2, <1>3, <2>1
<1>6. CASE Compose(w)
  <2>1. turn'[w].pc = "critique"
    BY <1>1, <1>6 DEF Compose, Set, Turn
  <2> QED BY <1>2, <1>3, <2>1
<1>7. ASSUME NEW label \in Label, NEW s \in Nat, NEW sources \in SUBSET Ids,
             Judge(w, label, s, sources)
      PROVE  turn'[w].pc = "critique"
  BY <1>1, <1>7 DEF Judge, Set, Turn
<1>8. CASE Send(w)
  <2>1. turn'[w].pc = "naturalize"
    BY <1>1, <1>8 DEF Send, Set, Turn
  <2> QED BY <1>2, <1>3, <2>1
<1>9. CASE Regenerate(w)
  <2>1. turn'[w].pc = "generate"
    BY <1>1, <1>9 DEF Regenerate, Set, Turn
  <2> QED BY <1>2, <1>3, <2>1
<1>10. CASE Handoff(w)
  <2>1. turn'[w].pc = "handed"
    BY <1>1, <1>10, FreshType DEF Handoff, Set, Turn
  <2> QED BY <1>2, <1>3, <2>1
<1>11. ASSUME NEW final, NEW reworded, NEW claims, NEW supported, NEW citations,
              Answer(w, final, reworded, claims, supported, citations)
       PROVE  turn'[w].pc = "sent"
  BY <1>1, <1>11, FreshType DEF Answer, Set, Turn
<1>12. CASE SendVerified(w) \/ AdoptRewrite(w) \/ DropRewrite(w)
  <2>1. turn'[w].pc = "sent"
    BY <1>11, <1>12 DEF SendVerified, AdoptRewrite, DropRewrite, AnswerVerified
  <2> QED BY <1>2, <1>3, <2>1
<1>13. ASSUME NEW about, NEW kinds, Naturalize(w, about, kinds) PROVE turn'[w].pc = "critique"
  BY <1>1, <1>13 DEF Naturalize, Set, Turn
<1> QED BY <1>2, <1>3, <1>4, <1>5, <1>6, <1>7, <1>8, <1>9, <1>10, <1>12, <1>13 DEF Finish
\* A step that neither ingests nor searches leaves the store to the others.
LEMMA QuietStore ==
  ASSUME StoreInv, NEW w \in Workers,
         turn[w].pc # "vector" /\ turn'[w].pc \notin {"vector", "search", "failed"},
         \A v \in Workers \ {w} : turn'[v] = turn[v],
         Unstored, crowded' = crowded \/ crowded' = crowded \ {w}
  PROVE  StoreInv'
<1>1. Keys' = Keys /\ vectors' = vectors
  BY DEF Unstored, Keys
<1>2. Embedding'
  BY <1>1 DEF StoreInv, Embedding
<1>3. \A v \in Workers : turn'[v].pc = "search" /\ v \notin crowded' =>
        turn'[v].keys = Keys' /\ ~turn'[v].bare /\ Keys' \subseteq vectors'
  BY <1>1 DEF StoreInv
<1>4. FailsOnlyWhenCrowded'
  BY DEF StoreInv, FailsOnlyWhenCrowded
<1> QED BY <1>2, <1>3, <1>4 DEF StoreInv

LEMMA IngestFactStore ==
  ASSUME TypeOK, StoreInv, NEW w \in Workers, IngestFact(w)
  PROVE  StoreInv'
<1> DEFINE id == FactId(turn[w].address, turn[w].fact)
<1>1. /\ turn \in [Workers -> Turn] /\ turn[w] \in Turn /\ turn[w].pc = "generate"
      /\ facts' = [facts EXCEPT ![id] = turn[w].address]
      /\ turn' = [turn EXCEPT ![w] = [turn[w] EXCEPT !.pc = "vector"]]
      /\ crowded' = crowded \cup {x \in Workers : turn[x].pc = "search"} /\ vectors' = vectors
  BY DEF IngestFact, TypeOK, Set
<1>2. /\ turn'[w].pc = "vector" /\ turn'[w].address = turn[w].address
      /\ turn'[w].fact = turn[w].fact
      /\ \A v \in Workers \ {w} : turn'[v] = turn[v]
  BY <1>1 DEF Turn
<1>3. Keys' \subseteq Keys \cup {id}
  BY <1>1 DEF Keys, TypeOK
<1>4. Embedding'
  <2> SUFFICES ASSUME NEW i \in Keys', i \notin vectors
               PROVE  \E v \in Workers : /\ turn'[v].pc = "vector"
                                         /\ i = FactId(turn'[v].address, turn'[v].fact)
    BY <1>1 DEF Embedding
  <2>1. CASE i = id
    BY <1>2, <2>1
  <2>2. CASE i # id
    <3>1. PICK v \in Workers : turn[v].pc = "vector" /\ i = FactId(turn[v].address, turn[v].fact)
      BY <1>3, <2>2 DEF StoreInv, Embedding
    <3> QED BY <1>1, <1>2, <3>1
  <2> QED BY <2>1, <2>2
<1>5. \A v \in Workers : turn'[v].pc = "search" => v \in crowded'
  BY <1>1, <1>2
<1>6. FailsOnlyWhenCrowded'
  BY <1>1, <1>2 DEF StoreInv, FailsOnlyWhenCrowded
<1> QED BY <1>4, <1>5, <1>6 DEF StoreInv

LEMMA IngestVectorStore ==
  ASSUME TypeOK, StoreInv, NEW w \in Workers, IngestVector(w)
  PROVE  StoreInv'
<1> DEFINE id == FactId(turn[w].address, turn[w].fact)
<1>1. /\ turn \in [Workers -> Turn] /\ turn[w] \in Turn
      /\ vectors' = vectors \cup {id} /\ UNCHANGED facts /\ UNCHANGED crowded
  BY DEF IngestVector, TypeOK
<1>2. turn'[w].pc \in {"generate", "compose"} /\ \A v \in Workers \ {w} : turn'[v] = turn[v]
  BY <1>1 DEF IngestVector, Ingested, Set, Turn
<1>3. Keys' = Keys
  BY <1>1 DEF Keys
<1>4. Embedding'
  <2> SUFFICES ASSUME NEW i \in Keys, i \notin vectors'
               PROVE  \E v \in Workers : /\ turn'[v].pc = "vector"
                                         /\ i = FactId(turn'[v].address, turn'[v].fact)
    BY <1>3 DEF Embedding
  <2>1. PICK v \in Workers : turn[v].pc = "vector" /\ i = FactId(turn[v].address, turn[v].fact)
    BY <1>1 DEF StoreInv, Embedding
  <2>2. v # w
    BY <1>1, <2>1
  <2> QED BY <1>2, <2>1, <2>2
<1>5. \A v \in Workers : turn'[v].pc = "search" /\ v \notin crowded' =>
        turn'[v].keys = Keys' /\ ~turn'[v].bare /\ Keys' \subseteq vectors'
  BY <1>1, <1>2, <1>3 DEF StoreInv
<1>6. FailsOnlyWhenCrowded'
  BY <1>1, <1>2 DEF StoreInv, FailsOnlyWhenCrowded
<1> QED BY <1>4, <1>5, <1>6 DEF StoreInv

\* What is in a property's scope is in the store.
LEMMA BareInKeys ==
  ASSUME TypeOK, NEW w \in Workers
  PROVE  BareFacts(w) \subseteq Keys \ vectors
<1>1. turn[w].address \in Addresses
  BY DEF TypeOK, Turn
<1> QED BY <1>1, SetsAssumption DEF BareFacts, InScope, Keys

LEMMA BeginSearchStore ==
  ASSUME TypeOK, StoreInv, NEW w \in Workers, BeginSearch(w)
  PROVE  StoreInv'
<1>1. /\ turn \in [Workers -> Turn] /\ turn[w] \in Turn /\ turn[w].pc = "critique"
      /\ UNCHANGED facts /\ UNCHANGED vectors
      /\ crowded' = IF \E x \in Workers \ {w} : turn[x].pc = "vector"
                     THEN crowded \cup {w} ELSE crowded \ {w}
  BY DEF BeginSearch, TypeOK, Unstored
<1>2. /\ turn'[w].pc = "search" /\ turn'[w].keys = Keys /\ turn'[w].bare = (BareFacts(w) # {})
      /\ \A v \in Workers \ {w} : turn'[v] = turn[v]
  BY <1>1 DEF BeginSearch, Set, Turn
<1>3. Keys' = Keys
  BY <1>1 DEF Keys
<1>4. Embedding'
  BY <1>1, <1>2, <1>3 DEF StoreInv, Embedding
<1>5. \A v \in Workers : turn'[v].pc = "search" /\ v \notin crowded' =>
        turn'[v].keys = Keys' /\ ~turn'[v].bare /\ Keys' \subseteq vectors'
  <2> SUFFICES ASSUME NEW v \in Workers, turn'[v].pc = "search", v \notin crowded'
               PROVE  turn'[v].keys = Keys /\ ~turn'[v].bare /\ Keys \subseteq vectors
    BY <1>1, <1>3
  <2>1. CASE v = w
    <3>1. \A x \in Workers : turn[x].pc # "vector"
      BY <1>1, <2>1
    <3>2. Keys \subseteq vectors
      BY <3>1 DEF StoreInv, Embedding
    <3> QED BY <1>2, <2>1, <3>2, BareInKeys
  <2>2. CASE v # w
    BY <1>1, <1>2, <2>2 DEF StoreInv
  <2> QED BY <2>1, <2>2
<1>6. FailsOnlyWhenCrowded'
  BY <1>1, <1>2 DEF StoreInv, FailsOnlyWhenCrowded
<1> QED BY <1>4, <1>5, <1>6 DEF StoreInv

\* A search fails only if it was overlapped.
LEMMA SearchFailsStore ==
  ASSUME TypeOK, StoreInv, NEW w \in Workers, SearchFails(w)
  PROVE  StoreInv'
<1>1. /\ turn \in [Workers -> Turn] /\ turn[w].pc = "search"
      /\ turn' = [turn EXCEPT ![w] = [Fresh EXCEPT !.pc = "failed"]]
      /\ UNCHANGED facts /\ UNCHANGED vectors /\ UNCHANGED crowded
  BY DEF SearchFails, TypeOK, Unstored, Set
<1>2. turn'[w].pc = "failed" /\ \A v \in Workers \ {w} : turn'[v] = turn[v]
  BY <1>1, FreshType DEF Turn
<1>3. Keys' = Keys
  BY <1>1 DEF Keys
<1>4. Embedding'
  BY <1>1, <1>2, <1>3 DEF StoreInv, Embedding
<1>5. \A v \in Workers : turn'[v].pc = "search" /\ v \notin crowded' =>
        turn'[v].keys = Keys' /\ ~turn'[v].bare /\ Keys' \subseteq vectors'
  BY <1>1, <1>2, <1>3 DEF StoreInv
<1>6. w \in crowded
  BY BareInKeys DEF SearchFails, StoreInv
<1>7. FailsOnlyWhenCrowded'
  BY <1>1, <1>2, <1>6 DEF StoreInv, FailsOnlyWhenCrowded
<1> QED BY <1>4, <1>5, <1>7 DEF StoreInv

LEMMA StepStore ==
  ASSUME TypeOK, StoreInv, [Next]_vars
  PROVE  StoreInv'
<1>1. ASSUME NEW w \in Workers,
             \/ \E a \in Addresses, th \in Threads, hard \in BOOLEAN : Begin(w, a, th, hard)
             \/ GenerateNoData(w) \/ Compose(w)
             \/ \E label \in Label, s \in Nat, sources \in SUBSET Ids : Judge(w, label, s, sources)
             \/ Finish(w)
      PROVE  StoreInv'
  BY <1>1, PcAfter, QuietStore
<1>2. ASSUME NEW w \in Workers, NEW q \in Queries, NEW th \in Threads,
             Begin(w, q.address, th, q.hard)
      PROVE  StoreInv'
  <2>1. q.address \in Addresses /\ q.hard \in BOOLEAN
    BY SetsAssumption
  <2> QED BY <1>1, <1>2, <2>1
<1>3. ASSUME NEW w \in Workers, Generate(w) PROVE StoreInv'
  BY <1>1, <1>3, IngestFactStore, IngestVectorStore DEF Generate
<1>4. ASSUME NEW w \in Workers, NEW s \in Scores, NEW i \in Ids, JudgeEntailed(w, s, i)
      PROVE  StoreInv'
  <2>1. s \in Nat /\ {i} \in SUBSET Ids /\ "ENTAILED" \in Label
    BY NumbersType DEF Label
  <2> QED BY <1>1, <1>4, <2>1 DEF JudgeEntailed
<1>5. ASSUME NEW w \in Workers, JudgeContradicted(w) \/ JudgeBaseless(w) PROVE StoreInv'
  <2>1. 0 \in Nat /\ {} \in SUBSET Ids /\ {"CONTRADICTED", "BASELESS"} \subseteq Label
    BY DEF Label
  <2> QED BY <1>1, <1>5, <2>1 DEF JudgeContradicted, JudgeBaseless
<1>6. ASSUME NEW w \in Workers, Critique(w) PROVE StoreInv'
  BY <1>4, <1>5, <1>6, BeginSearchStore, SearchFailsStore DEF Critique
<1>7. CASE UNCHANGED vars
  BY <1>7 DEF vars, StoreInv, Embedding, Keys, FailsOnlyWhenCrowded
<1> QED BY <1>1, <1>2, <1>3, <1>6, <1>7 DEF Next, Run

-----------------------------------------------------------------------------
(* The citations after a step.                                             *)

\* A step that files nothing wrongly and cites nothing new but what its search
\* has found.
LEMMA CitesKept ==
  ASSUME CitedInv, NEW w \in Workers,
         \A v \in Workers \ {w} : turn'[v] = turn[v],
         \A i \in Ids : facts[i] # NoAddress => facts'[i] # NoAddress,
         \A v \in Workers : Cites(turn[v]) \subseteq Ids,
         \A c \in Cites(turn'[w]) :
           \/ c \in Cites(turn[w]) /\ turn'[w].address = turn[w].address
           \/ facts'[c] # NoAddress /\ c[1] = Slug[turn'[w].address]
  PROVE  CitedInv'
<1> SUFFICES ASSUME NEW v \in Workers, NEW c \in Cites(turn'[v])
             PROVE  facts'[c] # NoAddress /\ c[1] = Slug[turn'[v].address]
  BY DEF CitedInv, Cites
<1>1. CASE v = w
  BY <1>1 DEF CitedInv
<1>2. CASE v # w
  BY <1>2 DEF CitedInv
<1> QED BY <1>1, <1>2

LEMMA CitesType == TypeOK => \A v \in Workers : Cites(turn[v]) \subseteq Ids
BY DEF TypeOK, Turn, Cites

LEMMA IngestFactCites ==
  ASSUME TypeOK, Filed, CitedInv, NEW w \in Workers, IngestFact(w)
  PROVE  Filed' /\ CitedInv'
<1> DEFINE id == FactId(turn[w].address, turn[w].fact)
<1>1. /\ turn \in [Workers -> Turn] /\ turn[w] \in Turn
      /\ turn[w].address \in Addresses /\ turn[w].fact \in Facts
      /\ facts' = [facts EXCEPT ![id] = turn[w].address]
      /\ turn' = [turn EXCEPT ![w] = [turn[w] EXCEPT !.pc = "vector"]]
  BY DEF IngestFact, TypeOK, Set, Turn
<1>2. id \in Ids /\ id[1] = Slug[turn[w].address] /\ turn[w].address # NoAddress
  BY <1>1, IdType, SetsAssumption DEF FactId
<1> HIDE DEF id
<1>3. facts'[id] = turn[w].address /\ \A i \in Ids : i # id => facts'[i] = facts[i]
  BY <1>1, <1>2 DEF TypeOK
<1>4. Filed'
  BY <1>2, <1>3 DEF Filed
<1>5. /\ turn'[w].address = turn[w].address /\ turn'[w].sources = turn[w].sources
      /\ turn'[w].citations = turn[w].citations
      /\ \A v \in Workers \ {w} : turn'[v] = turn[v]
  BY <1>1 DEF Turn
<1> QED BY <1>2, <1>3, <1>4, <1>5, CitesKept, CitesType DEF Cites

\* What a search finds is filed under the property's own slug.
LEMMA JudgeCites ==
  ASSUME TypeOK, Filed, CitedInv, NEW w \in Workers, NEW label \in Label, NEW s \in Nat,
         NEW sources \in SUBSET Ids, sources \subseteq InScope(turn[w].address),
         Judge(w, label, s, sources)
  PROVE  CitedInv'
<1>1. /\ turn \in [Workers -> Turn] /\ turn[w] \in Turn /\ facts' = facts
      /\ turn[w].address \in Addresses
  BY DEF Judge, TypeOK, Unstored, Turn
<1>2. /\ turn'[w].sources = turn[w].sources \cup sources
      /\ turn'[w].citations = turn[w].citations /\ turn'[w].address = turn[w].address
      /\ \A v \in Workers \ {w} : turn'[v] = turn[v]
  BY <1>1 DEF Judge, Set, Turn
<1>3. \A c \in sources : facts[c] # NoAddress /\ c[1] = Slug[turn[w].address]
  BY <1>1, SetsAssumption DEF InScope, Filed
<1> QED BY <1>1, <1>2, <1>3, CitesKept, CitesType DEF Cites

\* The other steps leave the facts and cite nothing new.
LEMMA QuietCites ==
  ASSUME TypeOK, CitedInv, NEW w \in Workers, facts' = facts,
         \A v \in Workers \ {w} : turn'[v] = turn[v],
         \/ Cites(turn'[w]) = {}
         \/ turn'[w].address = turn[w].address /\ Cites(turn'[w]) \subseteq Cites(turn[w])
  PROVE  CitedInv'
BY CitesKept, CitesType

LEMMA FinishCites ==
  ASSUME TypeOK, CitedInv, NEW w \in Workers, Finish(w)
  PROVE  CitedInv'
<1>1. turn \in [Workers -> Turn] /\ turn[w] \in Turn
  BY DEF TypeOK
<1>2. facts' = facts
  BY DEF Finish, Send, Regenerate, Handoff, SendVerified, Naturalize, AdoptRewrite,
         DropRewrite, Unstored
<1>3. \A v \in Workers \ {w} : turn'[v] = turn[v]
  <2>1. PICK u : Set(w, u)
    BY DEF Finish, Send, Regenerate, Handoff, SendVerified, Naturalize, AdoptRewrite,
           DropRewrite, AnswerVerified, Answer
  <2> QED BY <1>1, <2>1 DEF Set
<1>4. CASE Send(w)
  <2>1. /\ turn'[w].address = turn[w].address /\ turn'[w].sources = {}
        /\ turn'[w].citations = turn[w].sources
    BY <1>1, <1>4 DEF Send, Set, Turn
  <2> QED BY <1>2, <1>3, <2>1, QuietCites DEF Cites
<1>5. CASE Regenerate(w)
  <2>1. /\ turn'[w].address = turn[w].address /\ turn'[w].sources = {}
        /\ turn'[w].citations = turn[w].citations
    BY <1>1, <1>5 DEF Regenerate, Set, Turn
  <2> QED BY <1>2, <1>3, <2>1, QuietCites DEF Cites
<1>6. CASE Handoff(w)
  <2>1. turn'[w].sources = {} /\ turn'[w].citations = {}
    BY <1>1, <1>6, FreshType DEF Handoff, Set, Turn
  <2> QED BY <1>2, <1>3, <2>1, QuietCites DEF Cites
<1>7. ASSUME NEW final, NEW reworded, NEW claims, NEW supported, NEW citations,
             citations \subseteq Cites(turn[w]),
             Answer(w, final, reworded, claims, supported, citations)
      PROVE  CitedInv'
  <2>1. /\ turn'[w].address = turn[w].address /\ turn'[w].sources = {}
        /\ turn'[w].citations = citations
    BY <1>1, <1>7, FreshType DEF Answer, Set, Turn
  <2> QED BY <1>2, <1>3, <1>7, <2>1, QuietCites DEF Cites
<1>8. CASE SendVerified(w) \/ DropRewrite(w) \/ AdoptRewrite(w)
  <2>1. turn[w].citations \subseteq Cites(turn[w]) /\ turn[w].sources \subseteq Cites(turn[w])
    BY DEF Cites
  <2>2. CASE SendVerified(w) \/ DropRewrite(w)
    BY <1>7, <2>1, <2>2 DEF SendVerified, DropRewrite, AnswerVerified
  <2>3. CASE AdoptRewrite(w)
    BY <1>7, <2>1, <2>3 DEF AdoptRewrite
  <2> QED BY <1>8, <2>2, <2>3
<1>9. ASSUME NEW about, NEW kinds, Naturalize(w, about, kinds) PROVE CitedInv'
  <2>1. /\ turn'[w].address = turn[w].address /\ turn'[w].sources = turn[w].sources
        /\ turn'[w].citations = turn[w].citations
    BY <1>1, <1>9 DEF Naturalize, Set, Turn
  <2> QED BY <1>2, <1>3, <2>1, QuietCites DEF Cites
<1> QED BY <1>4, <1>5, <1>6, <1>8, <1>9 DEF Finish

LEMMA StepCites ==
  ASSUME TypeOK, Filed, CitedInv, [Next]_vars
  PROVE  Filed' /\ CitedInv'
<1>1. ASSUME facts' = facts PROVE Filed'
  BY <1>1 DEF Filed
<1>2. ASSUME NEW w \in Workers, NEW q \in Queries, NEW th \in Threads,
             Begin(w, q.address, th, q.hard)
      PROVE  Filed' /\ CitedInv'
  <2>1. /\ turn'[w].sources = {} /\ turn'[w].citations = {} /\ facts' = facts
        /\ \A v \in Workers \ {w} : turn'[v] = turn[v]
    BY <1>2, FreshType DEF Begin, Set, Unstored, TypeOK, Turn
  <2> QED BY <1>1, <2>1, QuietCites DEF Cites
<1>3. ASSUME NEW w \in Workers,
             GenerateNoData(w) \/ IngestVector(w) \/ Compose(w) \/ BeginSearch(w)
      PROVE  Filed' /\ CitedInv'
  <2>1. turn \in [Workers -> Turn] /\ turn[w] \in Turn
    BY DEF TypeOK
  <2>2. facts' = facts
    BY <1>3 DEF GenerateNoData, IngestVector, Compose, BeginSearch, Unstored
  <2>3. \A v \in Workers \ {w} : turn'[v] = turn[v]
    BY <1>3, <2>1 DEF GenerateNoData, IngestVector, Ingested, Compose, BeginSearch, Set
  <2>4. /\ turn'[w].address = turn[w].address /\ turn'[w].sources = turn[w].sources
        /\ turn'[w].citations = turn[w].citations
    <3>1. CASE GenerateNoData(w)
      BY <2>1, <3>1 DEF GenerateNoData, Set, Turn
    <3>2. CASE IngestVector(w)
      BY <2>1, <3>2 DEF IngestVector, Ingested, Set, Turn
    <3>3. CASE Compose(w)
      BY <2>1, <3>3 DEF Compose, Set, Turn
    <3>4. CASE BeginSearch(w)
      BY <2>1, <3>4 DEF BeginSearch, Set, Turn
    <3> QED BY <1>3, <3>1, <3>2, <3>3, <3>4
  <2> QED BY <1>1, <2>2, <2>3, <2>4, QuietCites DEF Cites
<1>4. ASSUME NEW w \in Workers, SearchFails(w) PROVE Filed' /\ CitedInv'
  <2>1. /\ turn'[w].sources = {} /\ turn'[w].citations = {} /\ facts' = facts
        /\ \A v \in Workers \ {w} : turn'[v] = turn[v]
    BY <1>4, FreshType DEF SearchFails, Set, Unstored, TypeOK, Turn
  <2> QED BY <1>1, <2>1, QuietCites DEF Cites
<1>5. ASSUME NEW w \in Workers, NEW label \in Label, NEW s \in Nat, NEW sources \in SUBSET Ids,
             sources \subseteq InScope(turn[w].address), Judge(w, label, s, sources)
      PROVE  Filed' /\ CitedInv'
  BY <1>1, <1>5, JudgeCites DEF Judge, Unstored
<1>6. ASSUME NEW w \in Workers, NEW s \in Scores, NEW i \in Ids, JudgeEntailed(w, s, i)
      PROVE  Filed' /\ CitedInv'
  <2>1. s \in Nat /\ {i} \subseteq InScope(turn[w].address) /\ "ENTAILED" \in Label
    BY <1>6, NumbersType DEF JudgeEntailed, Evidence, Label
  <2> QED BY <1>5, <1>6, <2>1 DEF JudgeEntailed
<1>7. ASSUME NEW w \in Workers, JudgeContradicted(w) \/ JudgeBaseless(w)
      PROVE  Filed' /\ CitedInv'
  <2>1. 0 \in Nat /\ {} \in SUBSET Ids /\ {"CONTRADICTED", "BASELESS"} \subseteq Label
    BY DEF Label
  <2> QED BY <1>5, <1>7, <2>1 DEF JudgeContradicted, JudgeBaseless
<1>8. ASSUME NEW w \in Workers, Finish(w) PROVE Filed' /\ CitedInv'
  <2>1. facts' = facts
    BY <1>8 DEF Finish, Send, Regenerate, Handoff, SendVerified, Naturalize, AdoptRewrite,
       DropRewrite, Unstored
  <2> QED BY <1>1, <1>8, <2>1, FinishCites
<1>9. CASE UNCHANGED vars
  BY <1>9 DEF vars, Filed, CitedInv, Cites
<1> QED BY <1>2, <1>3, <1>4, <1>6, <1>7, <1>8, <1>9, IngestFactCites
        DEF Next, Run, Generate, Critique

LEMMA StepInv == OrchestratorInv /\ [Next]_vars => OrchestratorInv'
<1> SUFFICES ASSUME OrchestratorInv, [Next]_vars PROVE OrchestratorInv'
  OBVIOUS
<1>1. TypeOK'
  BY StepType DEF OrchestratorInv
<1>2. \A w \in Workers : TurnInv(turn'[w])
  BY StepTurns DEF OrchestratorInv
<1>3. StoreInv'
  BY StepStore DEF OrchestratorInv
<1>4. Filed' /\ CitedInv'
  BY StepCites DEF OrchestratorInv
<1> QED BY <1>1, <1>2, <1>3, <1>4 DEF OrchestratorInv

LEMMA Invariance == Spec => []OrchestratorInv
BY InitInv, StepInv, PTL DEF Spec
-----------------------------------------------------------------------------
(* The two thresholds.                                                     *)

LEMMA LeastOfThree ==
  ASSUME NEW a \in Int, NEW b \in Int, NEW c \in Int
  PROVE  (CHOOSE s \in {a, b, c} : \A u \in {a, b, c} : s <= u) \in {a, b, c}
<1>1. \E s \in {a, b, c} : \A u \in {a, b, c} : s <= u
  <2>1. CASE a <= b /\ a <= c
    BY <2>1
  <2>2. CASE b <= a /\ b <= c
    BY <2>2
  <2>3. CASE c <= a /\ c <= b
    BY <2>3
  <2> QED BY <2>1, <2>2, <2>3
<1> QED BY <1>1

\* All n claims entailed with a mean score of 0.6 leave the composite at 0.78 at least.
LEMMA CompositeOfApproved ==
  ASSUME NEW n \in Nat, NEW total \in Nat, total >= 60 * n
  PROVE  Composite(n, n, total) \in Int /\ Composite(n, n, total) >= 1560 * n
<1> DEFINE a == 1000 * n  b == 5 * (100 * n + total)  c == 700 * n
           least == CHOOSE s \in {a, b, c} : \A u \in {a, b, c} : s <= u
<1>1. a \in Int /\ b \in Int /\ c \in Int /\ a >= 700 * n /\ b >= 700 * n /\ c >= 700 * n
  OBVIOUS
<1>2. Composite(n, n, total) = 400 * n + 2 * (100 * n + total) + 140 * n + least
  BY DEF Composite
<1>3. least \in {a, b, c}
  <2> HIDE DEF a, b, c
  <2> QED BY <1>1, LeastOfThree
<1> HIDE DEF least
<1>4. least \in Int /\ least >= 700 * n
  BY <1>1, <1>3
<1> QED BY <1>2, <1>4

LEMMA ClaimsCount == \A S \in SUBSET Kinds : Cardinality(S) \in Nat
<1>1. IsFiniteSet(Kinds)
  BY NumbersAssumption, FS_Interval DEF Kinds, NoData, MadeUp
<1> QED BY <1>1, FS_Subset, FS_CardinalityType

LEMMA ApprovedComposite ==
  ASSUME NEW t \in Turn, Approved(t), ~HardTrigger(t)
  PROVE  ~Escalates(t)
<1> DEFINE n == Cardinality(t.text.kinds)
<1>1. n \in Nat /\ t.total \in Nat
  BY ClaimsCount, SurvivorsType DEF Turn
<1>2. Cardinality(Supported(t)) = n /\ t.total >= 60 * n
  BY DEF Approved
<1> HIDE DEF n
<1>3. Composite(n, n, t.total) \in Int /\ Composite(n, n, t.total) >= 1560 * n
  BY <1>1, <1>2, CompositeOfApproved
<1>4. ~(Composite(n, n, t.total) < 1200 * n)
  BY <1>1, <1>3
<1> QED BY <1>2, <1>4 DEF Escalates, n
-----------------------------------------------------------------------------
(* The theorems.                                                           *)

\* The records of the runs, the store and the checkpoints keep their types; in
\* particular attempts never exceeds DEFAULT_MAX_ATTEMPTS (graph.py:383-401).
THEOREM TypeCorrect == Spec => []TypeOK
<1>1. OrchestratorInv => TypeOK
  BY DEF OrchestratorInv
<1> QED BY <1>1, Invariance, PTL

\* The run's own wording speaks about the property it was asked about, whatever
\* the checkpoint of its thread held and whoever wrote it meanwhile; and any
\* answer cites facts of this property, or of one that shares its run id.
THEOREM AnswersStayOnAddress == Spec => []AnswerOwnAddress
<1>1. OrchestratorInv => AnswerOwnAddress
  <2> SUFFICES ASSUME OrchestratorInv, NEW w \in Workers, turn[w].pc = "sent"
               PROVE  /\ turn[w].reworded \/ turn[w].final.about = turn[w].address
                      /\ \A c \in turn[w].citations :
                           facts[c] # NoAddress /\ Slug[facts[c]] = Slug[turn[w].address]
    BY DEF AnswerOwnAddress
  <2>1. turn[w].reworded \/ turn[w].final.about = turn[w].address
    BY DEF OrchestratorInv, TurnInv, AnswerInv, Vouched
  <2>2. ASSUME NEW c \in turn[w].citations
        PROVE  facts[c] # NoAddress /\ Slug[facts[c]] = Slug[turn[w].address]
    <3>1. c \in Ids /\ c \in Cites(turn[w])
      BY DEF OrchestratorInv, TurnInv, Turn, Cites
    <3> QED BY <3>1 DEF OrchestratorInv, Filed, CitedInv
  <2> QED BY <2>1, <2>2
<1> QED BY <1>1, Invariance, PTL

\* The trace handed out is the verification of the wording that was sent, draft
\* or rewrite, and names a source.
THEOREM TracesMatch == Spec => []TraceMatchesAnswer
<1>1. OrchestratorInv => TraceMatchesAnswer
  BY DEF OrchestratorInv, TurnInv, AnswerInv, Vouched, TraceMatchesAnswer
<1> QED BY <1>1, Invariance, PTL

\* No wording the Fair Housing rail trips on is sent, and nothing is sent after a
\* hard trigger.
THEOREM AnswersPermitted == Spec => []AnswerPermitted
<1>1. OrchestratorInv => AnswerPermitted
  BY DEF OrchestratorInv, TurnInv, AnswerInv, Vouched, AnswerPermitted
<1> QED BY <1>1, Invariance, PTL

\* A run is lost to the store only when another one ingested while it searched.
THEOREM FailuresNeedACrowd == Spec => []FailsOnlyWhenCrowded
<1>1. OrchestratorInv => FailsOnlyWhenCrowded
  BY DEF OrchestratorInv, StoreInv
<1> QED BY <1>1, Invariance, PTL

\* What the Critic approves is never held back by the composite: only a hard
\* trigger does that (critic.py:206-256, confidence.py:214-224, handoff.py:394-450).
THEOREM ThresholdsAgree == Spec => []ApprovedProceeds
<1>1. OrchestratorInv => ApprovedProceeds
  BY ApprovedComposite DEF OrchestratorInv, TurnInv, ApprovedProceeds
<1> QED BY <1>1, Invariance, PTL
=============================================================================
