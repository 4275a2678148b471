------------------------------ MODULE AuditLog ------------------------------
(***************************************************************************)
(* The append-only audit log of the Rails domain service (AuditEvent):     *)
(* every handler of every thread appends through AuditEvent.log, whose     *)
(* before_create callback chains the new row to the last row it can see.   *)
(*                                                                         *)
(* create! is one transaction: the callback's SELECT, the INSERT that      *)
(* draws the id from its sequence, the COMMIT that makes the row visible.  *)
(* Under READ COMMITTED other writers run between any two of them, ids     *)
(* need not become visible in order, and a rolled back id is never reused. *)
(*                                                                         *)
(* SHA-256 is a free constructor: equal digests mean equal hashed texts.   *)
(* The text is the columns joined with "|", nil as nothing, which does not *)
(* determine the columns; created_at is not in it.  A column text is a     *)
(* sequence of words, one of which may be the bar.                         *)
(***************************************************************************)
EXTENDS Integers, Sequences

CONSTANTS
  Writers,    \* threads that append
  Payloads,   \* columns of an event: claim and source_id stand for the hashed ones
  Nil,        \* a column that is not given
  MaxId,      \* ids the sequence may hand out
  CanEdit     \* whether a row may be edited past the model layer

ASSUME PayloadsAssumption == Payloads # {}
ASSUME MaxIdAssumption == MaxId \in Nat
ASSUME CanEditAssumption == CanEdit \in BOOLEAN

VARIABLES
  state,     \* state[i]: "unused", "open" (inserted, uncommitted), "committed", "rolled_back"
  payload,   \* payload[i]: the columns of row i
  prev,      \* prev[i]: prev_hash of row i
  digest,    \* digest[i]: content_hash of row i
  nextId,    \* next value of the id sequence
  w,         \* w[x]: the create! writer x is in
  written,   \* history: written[i] is the payload row i was inserted with
  stale,     \* history: writers whose read another commit has overtaken
  raced      \* history: such a writer has committed

history == <<stale, raced>>
vars == <<state, payload, prev, digest, nextId, w, written, history>>

Ids == 1 .. MaxId

\* prev_hash of the first row: nil.
NoHash == <<>>

\* [ ... ].join("|"): a payload is [claim, source_id, created_at].
Text(column) == IF column = Nil THEN <<>> ELSE column
Joined(p) == Text(p.claim) \o <<"|">> \o Text(p.source_id)

\* Mutant of Digest: the columns are left out of the hash.
DigestOfChainOnly(p, previous) == <<"row", previous>>

\* compute_content_hash.  prev_hash is the last thing joined, and is hexadecimal
\* or nil: where it begins is never in doubt.
Digest(p, previous) == <<Joined(p), previous>>

Committed == {i \in Ids : state[i] = "committed"}

APayload == CHOOSE p \in Payloads : TRUE

\* prev: what the writer's before_create computed.
Idle == [pc |-> "idle", payload |-> APayload, prev |-> NoHash, id |-> 0]

TypeOK ==
  /\ state \in [Ids -> {"unused", "open", "committed", "rolled_back"}]
  /\ payload \in [Ids -> Payloads] /\ written \in [Ids -> Payloads]
  /\ DOMAIN prev = Ids /\ DOMAIN digest = Ids
  /\ nextId \in 1 .. MaxId + 1
  /\ DOMAIN w = Writers
  /\ \A x \in Writers : /\ w[x].pc \in {"idle", "insert", "commit"}
                        /\ w[x].payload \in Payloads /\ w[x].id \in 0 .. MaxId
  /\ stale \subseteq Writers /\ raced \in BOOLEAN

Init ==
  /\ state = [i \in Ids |-> "unused"]
  /\ payload = [i \in Ids |-> APayload] /\ written = payload
  /\ prev = [i \in Ids |-> NoHash] /\ digest = prev
  /\ nextId = 1
  /\ w = [x \in Writers |-> Idle]
  /\ stale = {} /\ raced = FALSE
-----------------------------------------------------------------------------
\* i is the row with the largest id among S.
IsLast(i, S) == i \in S /\ \A j \in S : j <= i

\* Mutants of ReadLast: the first row instead of the last; uncommitted rows too.
ReadLastFirst(x, p) ==
  /\ w[x].pc = "idle"
  /\ \E h \in {digest[i] : i \in Ids} \cup {NoHash} :
       /\ IF Committed = {} THEN h = NoHash
          ELSE \E i \in Committed : (\A j \in Committed : i <= j) /\ h = digest[i]
       /\ w' = [w EXCEPT ![x] = [pc |-> "insert", payload |-> p, prev |-> h, id |-> 0]]
  /\ stale' = stale \ {x}
  /\ UNCHANGED <<state, payload, prev, digest, nextId, written, raced>>

ReadLastUncommitted(x, p) ==
  LET seen == {i \in Ids : state[i] \in {"open", "committed"}} IN
  /\ w[x].pc = "idle"
  /\ \E h \in {digest[i] : i \in Ids} \cup {NoHash} :
       /\ IF seen = {} THEN h = NoHash
          ELSE \E i \in seen : IsLast(i, seen) /\ h = digest[i]
       /\ w' = [w EXCEPT ![x] = [pc |-> "insert", payload |-> p, prev |-> h, id |-> 0]]
  /\ stale' = stale \ {x}
  /\ UNCHANGED <<state, payload, prev, digest, nextId, written, raced>>

\* chain_hashes: order(:id).last&.content_hash.
ReadLast(x, p) ==
  /\ w[x].pc = "idle"
  /\ \E h \in {digest[i] : i \in Ids} \cup {NoHash} :
       /\ IF Committed = {} THEN h = NoHash
          ELSE \E i \in Committed : IsLast(i, Committed) /\ h = digest[i]
       /\ w' = [w EXCEPT ![x] = [pc |-> "insert", payload |-> p, prev |-> h, id |-> 0]]
  /\ stale' = stale \ {x}
  /\ UNCHANGED <<state, payload, prev, digest, nextId, written, raced>>

Insert(x) ==
  /\ w[x].pc = "insert"
  /\ nextId <= MaxId
  /\ nextId' = nextId + 1
  /\ state' = [state EXCEPT ![nextId] = "open"]
  /\ payload' = [payload EXCEPT ![nextId] = w[x].payload]
  /\ written' = [written EXCEPT ![nextId] = w[x].payload]
  /\ prev' = [prev EXCEPT ![nextId] = w[x].prev]
  /\ digest' = [digest EXCEPT ![nextId] = Digest(w[x].payload, w[x].prev)]
  /\ w' = [w EXCEPT ![x] = [pc |-> "commit", payload |-> w[x].payload,
                            prev |-> w[x].prev, id |-> nextId]]
  /\ UNCHANGED history

End(x, outcome) ==
  /\ w[x].pc = "commit"
  /\ state' = [state EXCEPT ![w[x].id] = outcome]
  /\ w' = [w EXCEPT ![x] = Idle]
  /\ UNCHANGED <<payload, prev, digest, nextId, written>>

\* Every other writer that has already read the last row is now stale.
Commit(x) ==
  /\ End(x, "committed")
  /\ stale' = (stale \cup {y \in Writers : w[y].pc # "idle"}) \ {x}
  /\ raced' = (raced \/ x \in stale)

\* The worker dies before the COMMIT.
Abort(x) ==
  /\ \/ End(x, "rolled_back")
     \/ /\ w[x].pc = "insert"
        /\ w' = [w EXCEPT ![x] = Idle]
        /\ UNCHANGED <<state, payload, prev, digest, nextId, written>>
  /\ stale' = stale \ {x}
  /\ UNCHANGED raced

\* update and destroy raise: the model layer offers no way to change a row.
\* This is somebody changing a column in the database itself.
EditColumn(i, p) ==
  /\ CanEdit
  /\ i \in Committed
  /\ payload' = [payload EXCEPT ![i] = p]
  /\ UNCHANGED <<state, prev, digest, nextId, w, written, history>>

Next ==
  \/ \E x \in Writers :
       (\E p \in Payloads : ReadLast(x, p)) \/ Insert(x) \/ Commit(x) \/ Abort(x)
  \/ \E i \in Ids, p \in Payloads : EditColumn(i, p)

Spec == Init /\ [][Next]_vars
-----------------------------------------------------------------------------
\* The committed rows with a smaller id than i.
Before(i) == {j \in Committed : j < i}

\* chain_intact? reaches row i with prev = h.
Reaches(h, i) ==
  IF Before(i) = {} THEN h = NoHash
  ELSE \E j \in Before(i) : IsLast(j, Before(i)) /\ h = digest[j]

\* chain_intact?
ChainIntact ==
  \A i \in Committed : Reaches(prev[i], i) /\ digest[i] = Digest(payload[i], prev[i])

Unedited == \A i \in Committed : payload[i] = written[i]

\* chain_intact? "Returns true when the log has not been tampered with"
\* (audit_event.rb:43-44).
IntactWhenUnedited == Unedited => ChainIntact

\* The log of concurrent handlers verifies all the same, rollbacks, gaps in the
\* ids and out-of-order commits included, as long as no event was committed by
\* a handler that had read the last row before another one committed
\* (audit_event.rb:45-54 against 63-66).
IntactUnlessRaced == raced \/ IntactWhenUnedited

TextKept == \A i \in Committed : Joined(payload[i]) = Joined(written[i])

\* ... and "makes after-the-fact tampering detectable" (audit_event.rb:8): as long
\* as the log verifies every row still joins to the text it was inserted with,
\* whatever was edited and appended since.  That is less than the comment says:
\* nil made "", words moved over a "|" and a new created_at keep the text
\* (audit_event.rb:57), and a log so edited verifies.
EditDetected == ChainIntact => TextKept

\* Whatever the writers do concurrently, a row's prev_hash is nil or the
\* content_hash of a committed row with a smaller id: the chain may fork, it
\* never points at a row that was rolled back, nor forward
\* (audit_event.rb:63-66 in the transaction of create!).
PrevIsEarlier ==
  \A i \in Committed :
    prev[i] = NoHash \/ \E j \in Committed : j < i /\ prev[i] = digest[j]
=============================================================================
