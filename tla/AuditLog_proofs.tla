-------------------------- MODULE AuditLog_proofs --------------------------
(***************************************************************************)
(* Proofs about AuditLog, for any number of writers, payloads and rows.    *)
(***************************************************************************)
EXTENDS AuditLog, TLAPS

\* Where the sequence stands, who owns which uncommitted row, and that a row
\* was stored with the digest of what it was inserted with.
LogInv ==
  /\ \A i \in Ids : state[i] = "unused" <=> i >= nextId
  /\ \A x \in Writers : w[x].pc = "commit" =>
       w[x].id \in Ids /\ state[w[x].id] = "open"
  /\ \A x, y \in Writers :
       w[x].pc = "commit" /\ w[y].pc = "commit" /\ x # y => w[x].id # w[y].id
  /\ \A i \in Ids : state[i] # "unused" => digest[i] = Digest(written[i], prev[i])

\* A hash that is nil or a committed row's, of an id below i.
Earlier(h, i) == h = NoHash \/ \E j \in Committed : j < i /\ h = digest[j]

\* Every prev_hash computed or stored points at such a row.
EarlierInv ==
  /\ \A x \in Writers : w[x].pc = "insert" => Earlier(w[x].prev, nextId)
  /\ \A i \in Ids : state[i] \in {"open", "committed"} => Earlier(prev[i], i)

\* Until a stale writer commits, it points at the very row chain_intact?
\* expects, and a writer that is not stale will commit the last row.
FreshInv ==
  /\ \A x \in Writers \ stale :
       /\ w[x].pc = "insert" => Reaches(w[x].prev, nextId)
       /\ w[x].pc = "commit" => /\ Reaches(prev[w[x].id], w[x].id)
                                /\ \A i \in Committed : i < w[x].id
  /\ \A i \in Committed : Reaches(prev[i], i)
-----------------------------------------------------------------------------
LEMMA IdleType == Idle.pc = "idle" /\ Idle.payload \in Payloads /\ Idle.id = 0
BY PayloadsAssumption DEF Idle, APayload

\* TypeOK without the two history variables.
RowsOK ==
  /\ state \in [Ids -> {"unused", "open", "committed", "rolled_back"}]
  /\ payload \in [Ids -> Payloads] /\ written \in [Ids -> Payloads]
  /\ DOMAIN prev = Ids /\ DOMAIN digest = Ids
  /\ nextId \in 1 .. MaxId + 1
  /\ DOMAIN w = Writers
  /\ \A x \in Writers : /\ w[x].pc \in {"idle", "insert", "commit"}
                        /\ w[x].payload \in Payloads /\ w[x].id \in 0 .. MaxId

LEMMA HistoryType ==
  /\ Init => stale \subseteq Writers /\ raced \in BOOLEAN
  /\ TypeOK /\ [Next]_vars => stale' \subseteq Writers /\ raced' \in BOOLEAN
<1>1. Init => stale \subseteq Writers /\ raced \in BOOLEAN
  BY DEF Init
<1>2. TypeOK /\ [Next]_vars => stale' \subseteq Writers
  BY DEF TypeOK, Next, ReadLast, Insert, Commit, Abort, EditColumn, vars, history
<1>3. TypeOK /\ [Next]_vars => raced' \in BOOLEAN
  BY DEF TypeOK, Next, ReadLast, Insert, Commit, Abort, EditColumn, vars, history
<1> QED BY <1>1, <1>2, <1>3

\* Every variable keeps its type.
THEOREM TypeCorrect == Spec => []TypeOK
<1>1. Init => RowsOK
  BY PayloadsAssumption, MaxIdAssumption, IdleType DEF Init, RowsOK, Ids, APayload
<1>2. TypeOK /\ [Next]_vars => RowsOK'
  <2> SUFFICES ASSUME TypeOK, [Next]_vars PROVE RowsOK'
    OBVIOUS
  <2>1. ASSUME NEW x \in Writers, NEW p \in Payloads, ReadLast(x, p) PROVE RowsOK'
    BY <2>1, MaxIdAssumption DEF ReadLast, TypeOK, RowsOK
  <2>2. ASSUME NEW x \in Writers, Insert(x) PROVE RowsOK'
    <3>1. nextId \in Ids /\ nextId + 1 \in 1 .. MaxId + 1
      BY <2>2, MaxIdAssumption DEF Insert, TypeOK, Ids
    <3>2. \A y \in Writers : /\ w'[y].pc \in {"idle", "insert", "commit"}
                             /\ w'[y].payload \in Payloads /\ w'[y].id \in 0 .. MaxId
      BY <2>2, <3>1, MaxIdAssumption DEF Insert, TypeOK, Ids
    <3> QED BY <2>2, <3>1, <3>2 DEF Insert, TypeOK, RowsOK
  <2>3. ASSUME NEW x \in Writers, NEW o \in {"committed", "rolled_back"}, End(x, o)
        PROVE RowsOK'
    <3>1. state' \in [Ids -> {"unused", "open", "committed", "rolled_back"}]
      BY <2>3 DEF End, TypeOK
    <3>2. \A y \in Writers : w'[y] = w[y] \/ w'[y] = Idle
      BY <2>3 DEF End, TypeOK
    <3>3. \A y \in Writers : /\ w'[y].pc \in {"idle", "insert", "commit"}
                             /\ w'[y].payload \in Payloads /\ w'[y].id \in 0 .. MaxId
      BY <3>2, IdleType, MaxIdAssumption DEF TypeOK
    <3> QED BY <2>3, <3>1, <3>3 DEF End, TypeOK, RowsOK
  <2>4. ASSUME NEW x \in Writers, Commit(x) PROVE RowsOK'
    BY <2>4, <2>3 DEF Commit
  <2>5. ASSUME NEW x \in Writers, Abort(x) PROVE RowsOK'
    BY <2>5, <2>3, IdleType, MaxIdAssumption DEF Abort, TypeOK, RowsOK
  <2>6. ASSUME NEW i \in Ids, NEW p \in Payloads, EditColumn(i, p) PROVE RowsOK'
    BY <2>6 DEF EditColumn, TypeOK, RowsOK
  <2>7. CASE UNCHANGED vars
    BY <2>7 DEF vars, TypeOK, RowsOK
  <2> QED BY <2>1, <2>2, <2>4, <2>5, <2>6, <2>7 DEF Next
<1>3. Init => TypeOK
  BY <1>1, HistoryType DEF TypeOK, RowsOK
<1>4. TypeOK /\ [Next]_vars => TypeOK'
  <2>1. RowsOK' /\ stale' \subseteq Writers /\ raced' \in BOOLEAN => TypeOK'
    BY DEF TypeOK, RowsOK
  <2> QED BY <1>2, <2>1, HistoryType
<1> QED BY <1>3, <1>4, PTL DEF Spec

\* What each kind of step does, in the form the invariants need it.
LEMMA InsertEffect ==
  ASSUME TypeOK, NEW x \in Writers, Insert(x)
  PROVE  /\ w[x].pc = "insert" /\ nextId \in Ids /\ nextId' = nextId + 1
         /\ \A y \in Writers : y # x => w'[y] = w[y]
         /\ w'[x].pc = "commit" /\ w'[x].id = nextId
         /\ state'[nextId] = "open" /\ written'[nextId] = w[x].payload
         /\ prev'[nextId] = w[x].prev
         /\ digest'[nextId] = Digest(w[x].payload, w[x].prev)
         /\ \A i \in Ids : i # nextId =>
              /\ state'[i] = state[i] /\ written'[i] = written[i]
              /\ prev'[i] = prev[i] /\ digest'[i] = digest[i]
BY MaxIdAssumption DEF Insert, TypeOK, Ids

LEMMA EndEffect ==
  ASSUME TypeOK, LogInv, NEW x \in Writers, NEW o, End(x, o)
  PROVE  /\ w[x].pc = "commit" /\ w[x].id \in Ids /\ state[w[x].id] = "open"
         /\ \A y \in Writers : y # x => w'[y] = w[y]
         /\ w'[x].pc = "idle"
         /\ state'[w[x].id] = o
         /\ \A i \in Ids : i # w[x].id => state'[i] = state[i]
         /\ UNCHANGED <<payload, prev, digest, nextId, written>>
BY IdleType DEF End, TypeOK, LogInv

LEMMA LogStep == TypeOK /\ LogInv /\ [Next]_vars => LogInv'
<1> SUFFICES ASSUME TypeOK, LogInv, [Next]_vars PROVE LogInv'
  OBVIOUS
<1>0. nextId \in Nat /\ \A i \in Ids : i \in Nat
  BY MaxIdAssumption DEF TypeOK, Ids
<1>1. ASSUME NEW x \in Writers, NEW p \in Payloads, ReadLast(x, p) PROVE LogInv'
  BY <1>1 DEF ReadLast, TypeOK, LogInv
<1>2. ASSUME NEW x \in Writers, Insert(x) PROVE LogInv'
  BY <1>0, <1>2, InsertEffect DEF LogInv
<1>3. ASSUME NEW x \in Writers, NEW o \in {"committed", "rolled_back"}, End(x, o)
      PROVE LogInv'
  BY <1>3, EndEffect DEF LogInv
<1>4. ASSUME NEW x \in Writers, Abort(x) \/ Commit(x) PROVE LogInv'
  <2>1. CASE w[x].pc = "insert" /\ w' = [w EXCEPT ![x] = Idle]
             /\ UNCHANGED <<state, payload, prev, digest, nextId, written>>
    BY <2>1, IdleType DEF TypeOK, LogInv
  <2> QED BY <1>3, <1>4, <2>1 DEF Abort, Commit
<1>5. ASSUME NEW i \in Ids, NEW p \in Payloads, EditColumn(i, p) PROVE LogInv'
  BY <1>5 DEF EditColumn, LogInv
<1>6. CASE UNCHANGED vars
  BY <1>6 DEF vars, LogInv
<1> QED BY <1>1, <1>2, <1>4, <1>5, <1>6 DEF Next

THEOREM LogInvariant == Spec => [](TypeOK /\ LogInv)
<1>1. Init => LogInv
  BY IdleType, MaxIdAssumption DEF Init, LogInv, Ids
<1> QED BY <1>1, TypeCorrect, LogStep, PTL DEF Spec

\* As long as the log verifies, every row joins to the text it was inserted with,
\* whatever the writers do.
THEOREM EditDetectedHolds == Spec => []EditDetected
<1>1. TypeOK /\ LogInv => EditDetected
  <2> SUFFICES ASSUME TypeOK, LogInv, ChainIntact, NEW i \in Committed
               PROVE  Joined(payload[i]) = Joined(written[i])
    BY DEF EditDetected, TextKept
  <2>1. digest[i] = Digest(written[i], prev[i])
    BY DEF LogInv, Committed
  <2>2. digest[i] = Digest(payload[i], prev[i])
    BY DEF ChainIntact
  <2> QED BY <2>1, <2>2 DEF Digest
<1> QED BY <1>1, LogInvariant, PTL
-----------------------------------------------------------------------------
LEMMA EarlierStep == TypeOK /\ LogInv /\ EarlierInv /\ [Next]_vars => EarlierInv'
<1> SUFFICES ASSUME TypeOK, LogInv, EarlierInv, [Next]_vars PROVE EarlierInv'
  OBVIOUS
<1>0. nextId \in Nat /\ \A i \in Ids : i \in Nat
  BY MaxIdAssumption DEF TypeOK, Ids
<1>1. ASSUME NEW x \in Writers, NEW p \in Payloads, ReadLast(x, p) PROVE EarlierInv'
  <2>1. w'[x].pc = "insert" /\ \A y \in Writers : y # x => w'[y] = w[y]
    BY <1>1 DEF ReadLast, TypeOK
  <2>2. Earlier(w'[x].prev, nextId)
    <3>1. w'[x].prev = NoHash \/ \E i \in Committed : w'[x].prev = digest[i]
      BY <1>1 DEF ReadLast, TypeOK
    <3>2. \A i \in Committed : i < nextId
      BY <1>0 DEF Committed, LogInv
    <3> QED BY <3>1, <3>2 DEF Earlier
  <2> QED BY <1>1, <2>1, <2>2 DEF ReadLast, EarlierInv, Earlier, Committed
<1>2. ASSUME NEW x \in Writers, Insert(x) PROVE EarlierInv'
  <2>1. nextId \notin Committed /\ Committed' = Committed
    BY <1>0, <1>2, InsertEffect DEF Committed, LogInv
  <2>2. \A j \in Committed : digest'[j] = digest[j]
    BY <1>2, <2>1, InsertEffect DEF Committed
  <2>3. \A h, i : Earlier(h, i)' <=> Earlier(h, i)
    BY <2>1, <2>2 DEF Earlier
  <2>4. \A h : Earlier(h, nextId) => Earlier(h, nextId + 1)
    BY <1>0 DEF Earlier, Committed
  <2>5. \A y \in Writers : w'[y].pc = "insert" => Earlier(w[y].prev, nextId)'
    <3> SUFFICES ASSUME NEW y \in Writers, w'[y].pc = "insert"
                 PROVE Earlier(w[y].prev, nextId)'
      OBVIOUS
    <3>1. w'[y] = w[y] /\ nextId' = nextId + 1
      BY <1>2, InsertEffect
    <3>2. Earlier(w[y].prev, nextId + 1)
      BY <2>4, <3>1 DEF EarlierInv
    <3> QED BY <2>1, <2>2, <3>1, <3>2 DEF Earlier
  <2>6. \A i \in Ids : state'[i] \in {"open", "committed"} => Earlier(prev'[i], i)
    BY <1>2, InsertEffect DEF EarlierInv
  <2>7. \A i \in Ids : state'[i] \in {"open", "committed"} => Earlier(prev[i], i)'
    BY <2>1, <2>2, <2>6 DEF Earlier
  <2> QED BY <2>5, <2>7 DEF EarlierInv
<1>3. ASSUME NEW x \in Writers, NEW o \in {"committed", "rolled_back"}, End(x, o)
      PROVE EarlierInv'
  <2>1. Committed \subseteq Committed'
    BY <1>3, EndEffect DEF Committed
  <2>2. UNCHANGED <<digest, prev, nextId>>
    BY <1>3, EndEffect
  <2>3. \A y \in Writers : w'[y].pc = "insert" => w'[y] = w[y]
    BY <1>3, EndEffect
  <2>4. \A i \in Ids : state'[i] \in {"open", "committed"} =>
          state[i] \in {"open", "committed"}
    BY <1>3, EndEffect
  <2> QED BY <2>1, <2>2, <2>3, <2>4 DEF EarlierInv, Earlier
<1>4. ASSUME NEW x \in Writers, Abort(x) \/ Commit(x) PROVE EarlierInv'
  <2>1. CASE w[x].pc = "insert" /\ w' = [w EXCEPT ![x] = Idle]
             /\ UNCHANGED <<state, payload, prev, digest, nextId, written>>
    <3>1. \A y \in Writers : w'[y].pc = "insert" => w'[y] = w[y]
      BY <2>1, IdleType DEF TypeOK
    <3> QED BY <2>1, <3>1 DEF EarlierInv, Earlier, Committed
  <2> QED BY <1>3, <1>4, <2>1 DEF Abort, Commit
<1>5. ASSUME NEW i \in Ids, NEW p \in Payloads, EditColumn(i, p) PROVE EarlierInv'
  BY <1>5 DEF EditColumn, EarlierInv, Earlier, Committed
<1>6. CASE UNCHANGED vars
  BY <1>6 DEF vars, EarlierInv, Earlier, Committed
<1> QED BY <1>1, <1>2, <1>4, <1>5, <1>6 DEF Next

\* Concurrent writers may fork the chain, but every link leads back to a
\* committed row.
THEOREM PrevIsEarlierHolds == Spec => []PrevIsEarlier
<1>1. Init => EarlierInv
  BY IdleType DEF Init, EarlierInv
<1>2. EarlierInv => PrevIsEarlier
  BY DEF EarlierInv, PrevIsEarlier, Earlier, Committed
<1> QED BY <1>1, <1>2, LogInvariant, EarlierStep, PTL DEF Spec
-----------------------------------------------------------------------------
\* Reaches(h, i) depends only on the committed rows below i.
LEMMA ReachesFrame ==
  ASSUME NEW h, NEW i, Before(i)' = Before(i),
         \A j \in Before(i) : digest'[j] = digest[j], Reaches(h, i)
  PROVE  Reaches(h, i)'
BY DEF Reaches, IsLast

LEMMA FreshStep ==
  TypeOK /\ LogInv /\ (raced \/ FreshInv) /\ [Next]_vars => (raced \/ FreshInv)'
<1> SUFFICES ASSUME TypeOK, LogInv, FreshInv, ~raced, ~raced', [Next]_vars
             PROVE FreshInv'
  BY DEF Next, ReadLast, Insert, Commit, Abort, EditColumn, vars, history, TypeOK
<1>0. nextId \in Nat /\ \A i \in Ids : i \in Nat
  BY MaxIdAssumption DEF TypeOK, Ids
<1>a. \A i \in Committed : i \in Ids /\ i < nextId
  BY <1>0 DEF Committed, LogInv
<1>1. ASSUME NEW x \in Writers, NEW p \in Payloads, ReadLast(x, p) PROVE FreshInv'
  <2>1. w'[x].pc = "insert" /\ \A y \in Writers : y # x => w'[y] = w[y]
    BY <1>1 DEF ReadLast, TypeOK
  <2>2. Before(nextId) = Committed
    BY <1>a DEF Before
  <2>3. Reaches(w'[x].prev, nextId)
    BY <1>1, <2>2 DEF ReadLast, TypeOK, Reaches
  <2>4. /\ \A i : Before(i)' = Before(i)
        /\ UNCHANGED <<state, digest, prev, nextId>> /\ Committed' = Committed
    BY <1>1 DEF ReadLast, Before, Committed
  <2>5. Reaches(w[x].prev, nextId)'
    BY <2>3, <2>4 DEF Reaches, IsLast
  <2>6. \A i \in Committed : Reaches(prev[i], i)'
    BY <2>4, ReachesFrame DEF FreshInv
  <2>7. ASSUME NEW y \in Writers \ stale', y # x
        PROVE  /\ w'[y].pc = "insert" => Reaches(w[y].prev, nextId)'
               /\ w'[y].pc = "commit" => /\ Reaches(prev[w[y].id], w[y].id)'
                                         /\ \A i \in Committed' : i < w'[y].id
    <3>1. y \notin stale /\ w'[y] = w[y]
      BY <1>1, <2>1, <2>7 DEF ReadLast
    <3> QED BY <2>4, <3>1 DEF FreshInv, Reaches, IsLast
  <2> QED BY <2>1, <2>4, <2>5, <2>6, <2>7 DEF FreshInv
<1>2. ASSUME NEW x \in Writers, Insert(x) PROVE FreshInv'
  <2>1. Committed' = Committed /\ nextId \notin Committed
    BY <1>0, <1>2, InsertEffect DEF Committed, LogInv
  <2>2. \A i : Before(i)' = Before(i)
    BY <2>1 DEF Before
  <2>3. /\ \A j \in Committed : digest'[j] = digest[j] /\ prev'[j] = prev[j]
        /\ stale' = stale /\ nextId' = nextId + 1
    BY <1>2, <2>1, InsertEffect DEF Committed, Insert, history
  <2>4. \A i \in Committed : Reaches(prev[i], i)'
    BY <2>2, <2>3 DEF FreshInv, Reaches, IsLast, Before
  <2>5. ASSUME x \notin stale
        PROVE  Reaches(prev[w[x].id], w[x].id)' /\ \A i \in Committed : i < w'[x].id
    <3>1. Reaches(w[x].prev, nextId)
      BY <1>2, <2>5, InsertEffect DEF FreshInv
    <3>2. w'[x].id = nextId /\ prev'[nextId] = w[x].prev
      BY <1>2, InsertEffect
    <3> QED BY <1>a, <2>2, <2>3, <3>1, <3>2 DEF Reaches, IsLast, Before
  <2>6. ASSUME NEW y \in Writers \ stale, y # x, w[y].pc = "insert"
        PROVE  Reaches(w[y].prev, nextId)'
    <3>1. Before(nextId) = Committed /\ Before(nextId + 1) = Committed
      BY <1>0, <1>a DEF Before
    <3>2. Reaches(w[y].prev, nextId) /\ w'[y] = w[y]
      BY <1>2, <2>6, InsertEffect DEF FreshInv
    <3>3. Reaches(w[y].prev, nextId + 1)
      BY <3>1, <3>2 DEF Reaches
    <3> QED BY <2>2, <2>3, <3>2, <3>3 DEF Reaches, IsLast, Before
  <2>7. ASSUME NEW y \in Writers \ stale, y # x, w[y].pc = "commit"
        PROVE  Reaches(prev[w[y].id], w[y].id)' /\ \A i \in Committed : i < w'[y].id
    <3>1. /\ w[y].id \in Ids /\ w[y].id # nextId /\ w'[y] = w[y]
          /\ Reaches(prev[w[y].id], w[y].id) /\ \A i \in Committed : i < w[y].id
      BY <1>0, <1>2, <2>7, InsertEffect DEF FreshInv, LogInv
    <3>2. prev'[w[y].id] = prev[w[y].id]
      BY <1>2, <3>1, InsertEffect
    <3> QED BY <2>2, <2>3, <3>1, <3>2 DEF Reaches, IsLast, Before
  <2> QED BY <1>2, <2>1, <2>3, <2>4, <2>5, <2>6, <2>7, InsertEffect DEF FreshInv
<1>3. ASSUME NEW x \in Writers, Commit(x) PROVE FreshInv'
  <2> DEFINE id == w[x].id
  <2>1. /\ id \in Ids /\ Committed' = Committed \cup {id}
        /\ UNCHANGED <<digest, prev, nextId>>
        /\ w'[x].pc = "idle" /\ \A y \in Writers : y # x => w'[y] = w[y]
    BY <1>3, EndEffect DEF Commit, Committed
  <2>2. Reaches(prev[id], id) /\ \A i \in Committed : i < id
    BY <1>3 DEF Commit, End, FreshInv
  <2>3. \A i \in Committed \cup {id} : Before(i)' = Before(i)
    BY <1>0, <1>a, <2>1, <2>2 DEF Before
  <2>4. \A i \in Committed \cup {id} : Reaches(prev[i], i)'
    BY <2>1, <2>2, <2>3 DEF FreshInv, Reaches, IsLast
  <2>5. \A y \in Writers \ stale' : w'[y].pc = "idle"
    BY <1>3, <2>1 DEF Commit, TypeOK
  <2> QED BY <2>1, <2>4, <2>5 DEF FreshInv
<1>4. ASSUME NEW x \in Writers, Abort(x) PROVE FreshInv'
  <2>1. /\ Committed' = Committed /\ stale' = stale \ {x}
        /\ UNCHANGED <<digest, prev, nextId>>
        /\ w'[x].pc = "idle" /\ \A y \in Writers : y # x => w'[y] = w[y]
    <3>1. CASE End(x, "rolled_back")
      BY <1>4, <3>1, EndEffect DEF Abort, Committed
    <3>2. CASE ~End(x, "rolled_back")
      BY <1>4, <3>2, IdleType DEF Abort, TypeOK, Committed
    <3> QED BY <3>1, <3>2
  <2> QED BY <2>1 DEF FreshInv, Reaches, IsLast, Before
<1>5. ASSUME NEW i \in Ids, NEW p \in Payloads, EditColumn(i, p) PROVE FreshInv'
  BY <1>5 DEF EditColumn, FreshInv, Reaches, IsLast, Before, Committed, history
<1>6. CASE UNCHANGED vars
  BY <1>6 DEF vars, FreshInv, Reaches, IsLast, Before, Committed, history
<1> QED BY <1>1, <1>2, <1>3, <1>4, <1>5, <1>6 DEF Next

\* However the writers' transactions interleave, an unedited log verifies
\* unless an event was committed on top of a read that had been overtaken.
THEOREM IntactUnlessRacedHolds == Spec => []IntactUnlessRaced
<1>1. Init => FreshInv
  BY IdleType DEF Init, FreshInv, Committed
<1>2. LogInv /\ (raced \/ FreshInv) => IntactUnlessRaced
  BY DEF LogInv, FreshInv, IntactUnlessRaced, IntactWhenUnedited, ChainIntact, Unedited,
         Committed
<1> QED BY <1>1, <1>2, LogInvariant, FreshStep, PTL DEF Spec

\* The converse of EditDetected: no edit that keeps the joined texts is detected,
\* nil made "", words moved over a "|" and a new created_at among them.
THEOREM SameTextIntact == Spec => [](raced \/ (TextKept => ChainIntact))
<1>1. Init => FreshInv
  BY IdleType DEF Init, FreshInv, Committed
<1>2. LogInv /\ (raced \/ FreshInv) => raced \/ (TextKept => ChainIntact)
  BY DEF LogInv, FreshInv, ChainIntact, TextKept, Committed, Digest
<1> QED BY <1>1, <1>2, LogInvariant, FreshStep, PTL DEF Spec

\* With one writer, crashes and rolled back ids included, a log that nobody
\* edited is always intact.
THEOREM SerialIntact ==
  ASSUME \A x, y \in Writers : x = y
  PROVE  Spec => []IntactWhenUnedited
<1> DEFINE Alone == stale = {} /\ raced = FALSE
<1>1. Init => Alone
  BY DEF Init
<1>2. TypeOK /\ Alone /\ [Next]_vars => Alone'
  BY DEF Next, ReadLast, Insert, Commit, Abort, EditColumn, vars, history
<1>3. Alone /\ IntactUnlessRaced => IntactWhenUnedited
  BY DEF IntactUnlessRaced
<1> QED BY <1>1, <1>2, <1>3, TypeCorrect, IntactUnlessRacedHolds, PTL DEF Spec
=============================================================================
