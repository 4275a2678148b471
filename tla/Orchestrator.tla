---------------------------- MODULE Orchestrator ----------------------------
(***************************************************************************)
(* The brain's orchestrator: one LangGraph run per Conversation.Orchestrate*)
(* call, generate -> critique -> fair_housing -> decide -> {send |         *)
(* regenerate | handoff}, on the gRPC server's worker threads.             *)
(*                                                                         *)
(* All workers share one compiled graph: its in-memory fact store, its     *)
(* checkpoints and its handoff sink.  A worker's steps are the accesses to *)
(* them; what a node computes on its own state is part of the next step.   *)
(*                                                                         *)
(* A message is the property it speaks about and the kinds of claims it    *)
(* makes.  The entailer (token overlap or an LLM) may give any verdict the *)
(* Entailer contract allows, the naturalizer may write anything.           *)
(***************************************************************************)
EXTENDS Integers, FiniteSets

CONSTANTS
  Workers,      \* gRPC worker threads
  Threads,      \* conversation thread_ids, the shared "anon" among them
  Addresses,    \* normalized addresses
  Covered,      \* addresses the AVM has coverage for
  Flagged,      \* addresses whose text trips the Fair Housing rail
  Slugs, Slug,  \* Slug[a]: the slug of a in its valuation run id
  NumFacts,     \* facts of a valuation: the estimate (1) and the features
  FlaggedKinds, \* claims whose wording trips the Fair Housing rail
  Scores,       \* entailment scores, in percent
  MaxAttempts,  \* DEFAULT_MAX_ATTEMPTS
  Queries,      \* what is asked: an address, and whether a hard trigger fires
  NoAddress

ASSUME SetsAssumption ==
  /\ Addresses # {} /\ Threads # {} /\ NoAddress \notin Addresses
  /\ Covered \subseteq Addresses /\ Flagged \subseteq Addresses
  /\ Slug \in [Addresses -> Slugs] /\ Workers \subseteq Nat
  /\ Queries \subseteq [address : Addresses, hard : BOOLEAN]
ASSUME NumbersAssumption ==
  /\ NumFacts \in Nat \ {0} /\ MaxAttempts \in Nat \ {0}
  /\ Scores \subseteq 0 .. 100

(* Kinds of claims: 0 says there is no data, 1 .. NumFacts state the facts *)
(* of the valuation, the last one is anything an LLM may make up.          *)
Facts == 1 .. NumFacts
NoData == 0
MadeUp == NumFacts + 1
Kinds == NoData .. MadeUp

Ids == Slugs \X Facts
FactId(a, k) == <<Slug[a], k>>

VARIABLES
  facts,    \* store._facts: facts[i] is the address the fact under id i is about
  vectors,  \* store._vectors: ids with an embedding
  saved,    \* saved[th]: approved_message of the checkpointed verification
  turn,     \* turn[w]: the run worker w executes, or executed last
  crowded   \* history: workers whose search overlapped another one's ingest

vars == <<facts, vectors, saved, turn, crowded>>

Message == [about : Addresses, kinds : SUBSET Kinds]
Label == {"none", "ENTAILED", "CONTRADICTED", "BASELESS"}

(* pc: what the worker does next                                           *)
(*   generate    ingest the next fact    vector      ... and its vector    *)
(*   compose     the draft               search      in the loop of search *)
(*   critique    retrieve the next claim, or decide and route              *)
(*   naturalize  the LLM rewrite of a verified message                     *)
(*   sent, handed, failed: how the run ended                               *)
Steps == {"idle", "generate", "vector", "compose", "critique", "search",
          "naturalize", "sent", "handed", "failed"}
Running == Steps \ {"idle", "sent", "handed", "failed"}

Turn == [pc : Steps, address : Addresses, thread : Threads,
  hard : BOOLEAN,              \* the query fires a hard trigger
  attempts : 0 .. MaxAttempts,
  fact : Facts,                \* the fact being ingested
  prior : Message,             \* approved_message of the verification in the state
  text : Message,              \* the wording under verification
  label : [Kinds -> Label],    \* its verdicts,
  total : Nat,                 \* the sum of their scores,
  sources : SUBSET Ids,        \* and the sources they cite
  keys : SUBSET Ids,           \* store._facts when the search began ...
  bare : BOOLEAN,              \* ... and whether a fact in scope had no vector
  rewriting : BOOLEAN,         \* inside send, re-verifying the rewrite
  final : Message,             \* final_message,
  reworded : BOOLEAN,          \* and whether it is the LLM's wording
  claims : SUBSET Kinds,       \* the submitted verification: its claims ...
  supported : SUBSET Kinds,    \* the supported ones
  citations : SUBSET Ids]      \* and the citations

TypeOK ==
  /\ facts \in [Ids -> Addresses \cup {NoAddress}]
  /\ vectors \subseteq Ids
  /\ saved \in [Threads -> Message]
  /\ turn \in [Workers -> Turn]
  /\ crowded \subseteq Workers

AnAddress == CHOOSE a \in Addresses : TRUE
Nothing == [about |-> AnAddress, kinds |-> {}]
Unread == [k \in Kinds |-> "none"]
Fresh == [pc |-> "idle", address |-> AnAddress, thread |-> CHOOSE th \in Threads : TRUE,
  hard |-> FALSE, attempts |-> 0, fact |-> 1, prior |-> Nothing, text |-> Nothing,
  label |-> Unread, total |-> 0, sources |-> {}, keys |-> {}, bare |-> FALSE, rewriting |-> FALSE,
  final |-> Nothing, reworded |-> FALSE, claims |-> {}, supported |-> {}, citations |-> {}]

Init ==
  /\ facts = [i \in Ids |-> NoAddress]
  /\ vectors = {}
  /\ saved = [th \in Threads |-> Nothing]
  /\ turn = [w \in Workers |-> Fresh]
  /\ crowded = {}
-----------------------------------------------------------------------------
Keys == {i \in Ids : facts[i] # NoAddress}
InScope(a) == {i \in Ids : facts[i] = a}

\* scan_output allows the sentence, or the message.
Allowed(a, k) == a \notin Flagged /\ k \notin FlaggedKinds
AllAllowed(m) == \A k \in m.kinds : Allowed(m.about, k)

Labelled(t, l) == {k \in t.text.kinds : t.label[k] = l}
Supported(t) == Labelled(t, "ENTAILED")
Survivors(t) ==
  IF Supported(t) = {} THEN Nothing ELSE [about |-> t.text.about, kinds |-> Supported(t)]

\* Mutant of Approved: unsupported claims are overlooked.
ApprovedSupported(t) ==
  /\ Supported(t) # {}
  /\ t.total >= 60 * Cardinality(Supported(t))

\* Critic._gate: every claim entailed and their mean score at least 0.6.
Approved(t) ==
  /\ Supported(t) = t.text.kinds
  /\ t.total >= 60 * Cardinality(t.text.kinds)

\* Mutant of Composite: every draft counts as high-stakes (self-consistency 0.3).
CompositeHighStakes(n, entailed, total) ==
  LET sum == 400 * entailed + 2 * (100 * entailed + total) + 60 * n
      signals == {1000 * entailed, 5 * (100 * entailed + total), 300 * n}
  IN sum + (CHOOSE s \in signals : \A u \in signals : s <= u)

\* composite_confidence of n claims, times 2000 * n: the weighted blend of
\* coverage, agreement and the neutral self-consistency, plus the weakest.
Composite(n, entailed, total) ==
  LET sum == 400 * entailed + 2 * (100 * entailed + total) + 140 * n
      signals == {1000 * entailed, 5 * (100 * entailed + total), 700 * n}
  IN sum + (CHOOSE s \in signals : \A u \in signals : s <= u)

\* decide: a hard trigger, or a composite below 0.6.
HardTrigger(t) == t.hard \/ ~AllAllowed(t.text)
Escalates(t) ==
  LET n == Cardinality(t.text.kinds) IN
  HardTrigger(t) \/ Composite(n, Cardinality(Supported(t)), t.total) < 1200 * n

Set(w, record) == turn' = [turn EXCEPT ![w] = record]
Unstored == UNCHANGED <<facts, vectors>>
-----------------------------------------------------------------------------
\* Mutant of Begin: attempts is not reset for a new run of the thread.
BeginKeepsAttempts(w, a, th, hard) ==
  /\ turn[w].pc \notin Running /\ \A v \in Workers : v < w => turn[v].pc \in Running
  /\ Set(w, [Fresh EXCEPT !.pc = "generate", !.address = a, !.thread = th, !.hard = hard,
                          !.prior = saved[th],
                          !.attempts = IF saved[th].kinds = {} THEN 0 ELSE 1])
  /\ Unstored /\ UNCHANGED <<saved, crowded>>

\* Orchestrate: the run starts from the thread's checkpoint, overlaid with the
\* request's address and query and attempts = 0.  One worker is like another: the
\* first idle one takes it.
Begin(w, a, th, hard) ==
  /\ turn[w].pc \notin Running /\ \A v \in Workers : v < w => turn[v].pc \in Running
  /\ Set(w, [Fresh EXCEPT !.pc = "generate", !.address = a, !.thread = th, !.hard = hard,
                          !.prior = saved[th]])
  /\ crowded' = crowded \ {w}
  /\ Unstored /\ UNCHANGED saved

\* generate: without coverage, a sentence that says so.
GenerateNoData(w) ==
  /\ turn[w].pc = "generate"
  /\ turn[w].address \notin Covered
  /\ Set(w, [turn[w] EXCEPT !.pc = "critique", !.attempts = @ + 1,
               !.text = [about |-> turn[w].address, kinds |-> {NoData}], !.prior = Nothing])
  /\ Unstored /\ UNCHANGED <<saved, crowded>>

\* generate, with coverage: the facts are ingested one by one, the fact first
\* and then its vector.  Searches under way notice.
IngestFact(w) ==
  LET id == FactId(turn[w].address, turn[w].fact) IN
  /\ turn[w].pc = "generate"
  /\ turn[w].address \in Covered
  /\ facts' = [facts EXCEPT ![id] = turn[w].address]
  /\ Set(w, [turn[w] EXCEPT !.pc = "vector"])
  /\ crowded' = crowded \cup {x \in Workers : turn[x].pc = "search"}
  /\ UNCHANGED <<vectors, saved>>

\* Mutant of Ingested: one fact too many.
IngestedPastTheLast(w) ==
  Set(w, IF turn[w].fact <= NumFacts
         THEN [turn[w] EXCEPT !.pc = "generate", !.fact = @ + 1]
         ELSE [turn[w] EXCEPT !.pc = "compose", !.fact = 1])

Ingested(w) ==
  Set(w, IF turn[w].fact < NumFacts
         THEN [turn[w] EXCEPT !.pc = "generate", !.fact = @ + 1]
         ELSE [turn[w] EXCEPT !.pc = "compose", !.fact = 1])

\* Mutant of IngestVector: the last fact's vector is not stored.
IngestVectorButLast(w) ==
  /\ turn[w].pc = "vector"
  /\ vectors' = IF turn[w].fact < NumFacts
                THEN vectors \cup {FactId(turn[w].address, turn[w].fact)} ELSE vectors
  /\ Ingested(w)
  /\ UNCHANGED <<facts, saved, crowded>>

IngestVector(w) ==
  /\ turn[w].pc = "vector"
  /\ vectors' = vectors \cup {FactId(turn[w].address, turn[w].fact)}
  /\ Ingested(w)
  /\ UNCHANGED <<facts, saved, crowded>>

\* Mutant of Compose: attempts is not counted.
ComposeUncounted(w) ==
  /\ turn[w].pc = "compose"
  /\ Set(w, [turn[w] EXCEPT !.pc = "critique", !.label = Unread, !.total = 0,
       !.text = IF turn[w].attempts >= 1 /\ turn[w].prior.kinds # {} THEN turn[w].prior
                ELSE [about |-> turn[w].address,
                      kinds |-> {k \in Facts : Allowed(turn[w].address, k)}]])
  /\ Unstored /\ UNCHANGED <<saved, crowded>>

\* The draft: the surviving claims of the previous attempt, or every fact whose
\* sentence the Fair Housing rail allows.
Compose(w) ==
  /\ turn[w].pc = "compose"
  /\ Set(w, [turn[w] EXCEPT !.pc = "critique", !.attempts = @ + 1, !.prior = Nothing,
       !.label = Unread, !.total = 0, !.text = IF turn[w].attempts >= 1 /\ turn[w].prior.kinds # {} THEN turn[w].prior
                ELSE [about |-> turn[w].address,
                      kinds |-> {k \in Facts : Allowed(turn[w].address, k)}]])
  /\ Unstored /\ UNCHANGED <<saved, crowded>>

ToVerify(w) == Labelled(turn[w], "none")

BareFacts(w) == InScope(turn[w].address) \ vectors

\* Critic.verify: the next claim's search begins to walk the store's dictionary.
BeginSearch(w) ==
  /\ turn[w].pc = "critique"
  /\ ToVerify(w) # {}
  /\ Set(w, [turn[w] EXCEPT !.pc = "search", !.keys = Keys, !.bare = BareFacts(w) # {}])
  /\ crowded' = IF \E x \in Workers \ {w} : turn[x].pc = "vector"
                THEN crowded \cup {w} ELSE crowded \ {w}
  /\ Unstored /\ UNCHANGED saved

\* "dictionary changed size during iteration", or a fact whose vector is not
\* there yet; the exception ends the run with an RPC error.
SearchFails(w) ==
  /\ turn[w].pc = "search" /\ turn[w].keys # {}
  /\ turn[w].keys # Keys \/ turn[w].bare \/ BareFacts(w) # {}
  /\ Set(w, [Fresh EXCEPT !.pc = "failed"])
  /\ Unstored /\ UNCHANGED <<saved, crowded>>

SearchCompletes(w) ==
  /\ turn[w].pc = "search"
  /\ turn[w].keys = {} \/ (turn[w].keys = Keys /\ ~(turn[w].bare /\ BareFacts(w) # {}))

\* An empty store answers at once, whatever is ingested meanwhile.
Evidence(w) == IF turn[w].keys = {} THEN {} ELSE InScope(turn[w].address)

\* Claims are verified in their order in the text.
NextClaim(w) == CHOOSE k \in ToVerify(w) : \A c \in ToVerify(w) : k <= c

Judge(w, label, score, sources) ==
  /\ SearchCompletes(w)
  /\ Set(w, [turn[w] EXCEPT !.pc = "critique", !.label[NextClaim(w)] = label,
               !.total = @ + score, !.sources = @ \cup sources, !.keys = {}, !.bare = FALSE])
  /\ crowded' = crowded \ {w}
  /\ Unstored /\ UNCHANGED saved

\* An entailed claim cites one of the facts retrieved for it.
JudgeEntailed(w, score, source) ==
  source \in Evidence(w) /\ Judge(w, "ENTAILED", score, {source})

JudgeContradicted(w) == Evidence(w) # {} /\ Judge(w, "CONTRADICTED", 0, {})

\* No source, no claim.
JudgeBaseless(w) == Judge(w, "BASELESS", 0, {})
-----------------------------------------------------------------------------
\* The critique node is done: its verification is checkpointed.
Verified(w) == turn[w].pc = "critique" /\ ~turn[w].rewriting /\ ToVerify(w) = {}
Checkpoint(w) == saved' = [saved EXCEPT ![turn[w].thread] = Survivors(turn[w])]

\* _route_after_decide, the clean send: neither insufficient data nor an empty
\* draft, approved, and decide lets it proceed.
Answerable(t) ==
  /\ t.address \in Covered /\ t.text.kinds # {}
  /\ Approved(t) /\ ~Escalates(t) /\ AllAllowed(t.text) /\ Supported(t) # {}

\* _route_after_decide, the bounded regenerate.
Survivable(t) ==
  /\ t.address \in Covered /\ ~Answerable(t)
  /\ ~HardTrigger(t) /\ Labelled(t, "CONTRADICTED") = {}
  /\ Supported(t) # {} /\ t.attempts < MaxAttempts

\* send, up to the naturalizer's call.
Send(w) ==
  LET t == turn[w] IN
  /\ Verified(w) /\ Answerable(t)
  /\ Set(w, [t EXCEPT !.pc = "naturalize", !.final = Survivors(t), !.claims = t.text.kinds,
               !.supported = Supported(t), !.citations = t.sources,
               !.label = Unread, !.total = 0, !.sources = {}])
  /\ Checkpoint(w) /\ Unstored /\ UNCHANGED crowded

Regenerate(w) ==
  /\ Verified(w) /\ Survivable(turn[w])
  /\ Set(w, [turn[w] EXCEPT !.pc = "generate", !.prior = Survivors(turn[w]), !.text = Nothing,
               !.label = Unread, !.total = 0, !.sources = {}])
  /\ Checkpoint(w) /\ Unstored /\ UNCHANGED crowded

\* handoff: the packet is pushed by decide, or forced when decide would proceed.
Handoff(w) ==
  LET t == turn[w] IN
  /\ Verified(w) /\ ~Answerable(t) /\ ~Survivable(t)
  /\ Set(w, [Fresh EXCEPT !.pc = "handed"])
  /\ Checkpoint(w) /\ Unstored /\ UNCHANGED crowded

Answer(w, final, reworded, claims, supported, citations) ==
  Set(w, [Fresh EXCEPT !.pc = "sent", !.address = turn[w].address, !.hard = turn[w].hard,
            !.final = final, !.reworded = reworded, !.claims = claims,
            !.supported = supported, !.citations = citations])

AnswerVerified(w) ==
  Answer(w, turn[w].final, FALSE, turn[w].claims, turn[w].supported, turn[w].citations)

\* No LLM, or one that failed or changed nothing.
SendVerified(w) ==
  /\ turn[w].pc = "naturalize"
  /\ AnswerVerified(w)
  /\ Unstored /\ UNCHANGED <<saved, crowded>>

\* The LLM, which is shown the customer's question, wrote something else, of any
\* property: back through the Critic, with the evidence of the run's address.
Naturalize(w, about, kinds) ==
  /\ turn[w].pc = "naturalize"
  /\ Set(w, [turn[w] EXCEPT !.pc = "critique", !.rewriting = TRUE,
               !.text = [about |-> about, kinds |-> kinds]])
  /\ Unstored /\ UNCHANGED <<saved, crowded>>

Reverified(w) == turn[w].pc = "critique" /\ turn[w].rewriting /\ ToVerify(w) = {}

\* Mutant of AdoptRewrite: no second Fair Housing scan.
AdoptUnscanned(w) ==
  LET t == turn[w] IN
  /\ Reverified(w) /\ Approved(t)
  /\ Answer(w, Survivors(t), TRUE, t.text.kinds, Supported(t), t.sources)
  /\ saved' = [saved EXCEPT ![t.thread] = Survivors(t)]
  /\ Unstored /\ UNCHANGED crowded

\* The rewrite is adopted with its own verification and citations ...
AdoptRewrite(w) ==
  LET t == turn[w] IN
  /\ Reverified(w) /\ Approved(t) /\ AllAllowed(Survivors(t))
  /\ Answer(w, Survivors(t), TRUE, t.text.kinds, Supported(t), t.sources)
  /\ Checkpoint(w) /\ Unstored /\ UNCHANGED crowded

\* ... or dropped.
DropRewrite(w) ==
  LET t == turn[w] IN
  /\ Reverified(w) /\ ~(Approved(t) /\ AllAllowed(Survivors(t)))
  /\ AnswerVerified(w)
  /\ Unstored /\ UNCHANGED <<saved, crowded>>

Generate(w) ==
  \/ GenerateNoData(w)
  \/ IngestFact(w) \/ IngestVector(w) \/ Compose(w)

Critique(w) ==
  \/ BeginSearch(w) \/ SearchFails(w)
  \/ (\E s \in Scores, i \in Ids : JudgeEntailed(w, s, i))
  \/ JudgeContradicted(w) \/ JudgeBaseless(w)

Finish(w) ==
  \/ Send(w) \/ Regenerate(w) \/ Handoff(w) \/ SendVerified(w)
  \/ (\E about \in Addresses, kinds \in (SUBSET (Facts \cup {MadeUp})) \ {{}} :
        Naturalize(w, about, kinds))
  \/ AdoptRewrite(w) \/ DropRewrite(w)

Run(w) == Generate(w) \/ Critique(w) \/ Finish(w)

Next ==
  \E w \in Workers :
    \/ \E q \in Queries, th \in Threads : Begin(w, q.address, th, q.hard)
    \/ Run(w)

Spec == Init /\ [][Next]_vars

\* A worker thread executes the run it has taken.
FairSpec == Spec /\ \A w \in Workers : WF_vars(Run(w))
-----------------------------------------------------------------------------
\* "every customer-facing claim is Critic-verified, LLM or not", and the trace
\* is "the verification OF THE WORDING THAT WAS ACTUALLY SENT" (graph.py:176-192):
\* the claims of a sent message are exactly those of the verification handed
\* out with it, and that verification found a source for each of them.
TraceMatchesAnswer ==
  \A w \in Workers : turn[w].pc = "sent" =>
    /\ turn[w].final.kinds = turn[w].claims /\ turn[w].claims = turn[w].supported
    /\ turn[w].claims # {} /\ turn[w].citations # {}

\* Whatever checkpoint another run has left on its thread, or writes meanwhile,
\* a run's own wording speaks about its own property (server.py:219-230,
\* graph.py:117-124); and whoever worded it, an answer cites facts of the store
\* that are about this property or about one that shares its run id and has
\* overwritten them since (generator.py:81-84, store.py:82-88).
AnswerOwnAddress ==
  \A w \in Workers : LET t == turn[w] IN t.pc = "sent" =>
    /\ t.reworded \/ t.final.about = t.address
    /\ \A c \in t.citations : facts[c] # NoAddress /\ Slug[facts[c]] = Slug[t.address]

\* Neither the draft nor an adopted rewrite reaches the customer with wording
\* the Fair Housing rail trips on, nor does anything after a hard trigger
\* (graph.py:202-218, 379-392).
AnswerPermitted ==
  \A w \in Workers : turn[w].pc = "sent" => AllAllowed(turn[w].final) /\ ~turn[w].hard

\* The two thresholds agree: what the Critic approves, its mean score being at
\* least 0.6, the composite of decide never holds back (critic.py:206-256,
\* confidence.py:214-224, handoff.py:394-450).
ApprovedProceeds ==
  \A w \in Workers :
    Verified(w) /\ Approved(turn[w]) /\ ~HardTrigger(turn[w]) => ~Escalates(turn[w])

\* A run is only ever lost to another one ingesting while it searches: alone
\* on the store it always finds a vector for what it ingested
\* (store.py:81-116).
FailsOnlyWhenCrowded == \A w \in Workers : turn[w].pc = "failed" => w \in crowded

\* "Capped at max_attempts; after the cap it escalates" (graph.py:21-24): no
\* worker is kept in a run for ever, whatever the entailer and the LLM say.
RunEnds == \A w \in Workers : []<>(turn[w].pc \notin Running)
=============================================================================
