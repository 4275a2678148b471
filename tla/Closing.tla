------------------------------ MODULE Closing ------------------------------
(***************************************************************************)
(* The closing pipeline of the Rails domain service:                       *)
(* ClosingOrchestration.record, the one place a milestone is recorded,     *)
(* reached from the broker's "Record next step" button and from a          *)
(* completed inspection, together with the brain's stateless               *)
(* Closer.RecordMilestone RPC.                                             *)
(*                                                                         *)
(* Each puma thread serving such a request is an element of Requests; its  *)
(* steps are the SQL statements and the RPC it issues, in program order,   *)
(* so two requests for one deal interleave between any two of them.        *)
(* Milestones are their positions in ClosingMilestone::MILESTONES.         *)
(***************************************************************************)
EXTENDS Integers, FiniteSets

CONSTANTS
  Deals,           \* offers in the closing pipeline
  Requests,        \* puma threads serving record requests
  NumMilestones,   \* length of ClosingMilestone::MILESTONES
  MaxPings,        \* ping counters saturate here
  Mortal           \* threads whose worker may die in the middle of a request

ASSUME DealsAssumption == Deals # {}
ASSUME NumMilestonesAssumption == NumMilestones \in Nat \ {0}
ASSUME MaxPingsAssumption == MaxPings \in Nat \ {0}
ASSUME MortalAssumption == Mortal \subseteq Requests

VARIABLES
  rows,    \* rows[d][m]: ping_status of the closing_milestones row, or "none"
  pings,   \* pings[d][m]: pings the brain has emitted (saturating)
  audits,  \* audits[d][m]: milestone_recorded audit events
  req,     \* req[r]: the request thread r is serving
  orphans  \* history: rows whose worker died before auditing them

vars == <<rows, pings, audits, req, orphans>>

Milestones == 1 .. NumMilestones

\* A milestone parameter that is not in ClosingMilestone::MILESTONES.
UnknownMilestone == 0

PingStatus == {"simulated", "pending"}

(* pc: what the thread does next                                           *)
(*   idle    no request                                                    *)
(*   exists  closing_milestones.exists?                                    *)
(*   order   next_closing_milestone                                        *)
(*   ping    the RecordMilestone RPC                                       *)
(*   insert  closing_milestones.create!                                    *)
(*   audit   AuditEvent.record_rail_trip                                   *)
Steps == {"idle", "exists", "order", "ping", "insert", "audit"}

Request ==
  [pc : Steps, deal : Deals, milestone : Milestones \cup {UnknownMilestone},
   status : PingStatus]

Idle ==
  [pc |-> "idle", deal |-> CHOOSE d \in Deals : TRUE,
   milestone |-> UnknownMilestone, status |-> "pending"]

TypeOK ==
  /\ rows \in [Deals -> [Milestones -> PingStatus \cup {"none"}]]
  /\ pings \in [Deals -> [Milestones -> 0 .. MaxPings]]
  /\ audits \in [Deals -> [Milestones -> Nat]]
  /\ req \in [Requests -> Request]
  /\ orphans \subseteq Deals \X (Milestones \cup {UnknownMilestone})

Saturate(n) == IF n < MaxPings THEN n + 1 ELSE MaxPings

Recorded(d) == {m \in Milestones : rows[d][m] # "none"}

\* next_closing_milestone: the first milestone, in order, without a row.
IsNext(d, m) ==
  /\ m \notin Recorded(d)
  /\ \A k \in Milestones : k < m => k \in Recorded(d)

Init ==
  /\ rows = [d \in Deals |-> [m \in Milestones |-> "none"]]
  /\ pings = [d \in Deals |-> [m \in Milestones |-> 0]]
  /\ audits = [d \in Deals |-> [m \in Milestones |-> 0]]
  /\ req = [r \in Requests |-> Idle]
  /\ orphans = {}

Goto(r, pc) == req' = [req EXCEPT ![r].pc = pc]

Finish(r) == req' = [req EXCEPT ![r] = Idle]

-----------------------------------------------------------------------------
\* A request arrives: the dashboard button (possibly from a stale page, so
\* for any milestone) or a completed inspection (milestone 1).
Begin(r, d, m) ==
  /\ req[r].pc = "idle"
  /\ req' = [req EXCEPT ![r] = [pc |-> "exists", deal |-> d, milestone |-> m,
                                status |-> "pending"]]
  /\ UNCHANGED <<rows, pings, audits, orphans>>

\* "unknown milestone" and "already recorded" answer at once.
CheckExists(r) ==
  /\ req[r].pc = "exists"
  /\ IF req[r].milestone \in Milestones \ Recorded(req[r].deal)
     THEN Goto(r, "order") ELSE Finish(r)
  /\ UNCHANGED <<rows, pings, audits, orphans>>

\* Mutant of CheckOrder: "complete #{expected} first" is dropped.
CheckOrderAnyOrder(r) ==
  /\ req[r].pc = "order"
  /\ Goto(r, "ping")
  /\ UNCHANGED <<rows, pings, audits, orphans>>

\* "complete #{expected} first", decided from a second, later read.
CheckOrder(r) ==
  /\ req[r].pc = "order"
  /\ IF IsNext(req[r].deal, req[r].milestone) THEN Goto(r, "ping") ELSE Finish(r)
  /\ UNCHANGED <<rows, pings, audits, orphans>>

\* The brain handles RecordMilestone with a fresh orchestrator: every call
\* it receives emits a ping, whatever was pinged before.
EmitPing(d, m) == pings' = [pings EXCEPT ![d][m] = Saturate(@)]

Answered(r, status) ==
  req' = [req EXCEPT ![r].pc = "insert", ![r].status = status]

PingAnswered(r) ==
  /\ req[r].pc = "ping"
  /\ EmitPing(req[r].deal, req[r].milestone)
  /\ Answered(r, "simulated")
  /\ UNCHANGED <<rows, audits, orphans>>

\* The brain emitted the ping but its answer never came back: the client
\* rescues the transport error exactly as if the brain had been down.
PingAnswerLost(r) ==
  /\ req[r].pc = "ping"
  /\ EmitPing(req[r].deal, req[r].milestone)
  /\ Answered(r, "pending")
  /\ UNCHANGED <<rows, audits, orphans>>

\* Mutants of BrainUnreachable: it claims the ping; it gives the request up.
BrainUnreachableClaimsPing(r) ==
  /\ req[r].pc = "ping"
  /\ Answered(r, "simulated")
  /\ UNCHANGED <<rows, pings, audits, orphans>>

BrainUnreachableGivesUp(r) ==
  /\ req[r].pc = "ping"
  /\ Finish(r)
  /\ UNCHANGED <<rows, pings, audits, orphans>>

BrainUnreachable(r) ==
  /\ req[r].pc = "ping"
  /\ Answered(r, "pending")
  /\ UNCHANGED <<rows, pings, audits, orphans>>

\* Mutants of InsertRow: no unique index behind it; no audit after it.
InsertRowRepeated(r) ==
  /\ req[r].pc = "insert"
  /\ rows' = [rows EXCEPT ![req[r].deal][req[r].milestone] = req[r].status]
  /\ Goto(r, "audit")
  /\ UNCHANGED <<pings, audits, orphans>>

InsertRowUnaudited(r) ==
  /\ req[r].pc = "insert"
  /\ req[r].milestone \notin Recorded(req[r].deal)
  /\ rows' = [rows EXCEPT ![req[r].deal][req[r].milestone] = req[r].status]
  /\ Finish(r)
  /\ UNCHANGED <<pings, audits, orphans>>

\* create!: the uniqueness validation, and behind it the unique index on
\* [offer_id, milestone], refuse a second row; the exception ends the request.
InsertRow(r) ==
  LET d == req[r].deal
      m == req[r].milestone
  IN /\ req[r].pc = "insert"
     /\ m \notin Recorded(d)
     /\ rows' = [rows EXCEPT ![d][m] = req[r].status]
     /\ Goto(r, "audit")
     /\ UNCHANGED <<pings, audits, orphans>>

InsertRefused(r) ==
  /\ req[r].pc = "insert"
  /\ req[r].milestone \in Recorded(req[r].deal)
  /\ Finish(r)
  /\ UNCHANGED <<rows, pings, audits, orphans>>

WriteAudit(r) ==
  /\ req[r].pc = "audit"
  /\ audits' = [audits EXCEPT ![req[r].deal][req[r].milestone] = @ + 1]
  /\ Finish(r)
  /\ UNCHANGED <<rows, pings, orphans>>

\* The worker process dies (deploy, OOM): the request's progress is lost,
\* what it committed stays.
Crash(r) ==
  /\ r \in Mortal
  /\ req[r].pc # "idle"
  /\ Finish(r)
  /\ orphans' = IF req[r].pc = "audit"
                THEN orphans \cup {<<req[r].deal, req[r].milestone>>} ELSE orphans
  /\ UNCHANGED <<rows, pings, audits>>

Record(r) ==
  \/ CheckExists(r) \/ CheckOrder(r)
  \/ PingAnswered(r) \/ PingAnswerLost(r) \/ BrainUnreachable(r)
  \/ InsertRow(r) \/ InsertRefused(r) \/ WriteAudit(r)

Next ==
  \E r \in Requests :
    \/ \E d \in Deals, m \in Milestones \cup {UnknownMilestone} : Begin(r, d, m)
    \/ Record(r)
    \/ Crash(r)

Spec == Init /\ [][Next]_vars

\* A thread that has taken a request keeps running it, and the brain answers
\* or the connection breaks (the client sets no deadline).  Nothing forces a
\* broker to press a button.
FairSpec == Spec /\ \A r \in Requests : WF_vars(Record(r))
-----------------------------------------------------------------------------
\* A deal's recorded milestones are always a prefix of the canonical order,
\* however many requests race: "complete #{expected} first" is decided from
\* a read made before the RPC and the insert (closing_orchestration.rb:37-51).
CanonicalOrder ==
  \A d \in Deals : \A m \in Recorded(d) :
    \A k \in Milestones : k < m => k \in Recorded(d)

\* A row that claims a "simulated" ping is backed by a ping the brain did
\* emit for that deal and milestone: the fallback path never claims one
\* (closing_orchestration.rb:42-49).
SimulatedWasPinged ==
  \A d \in Deals, m \in Milestones :
    rows[d][m] = "simulated" => pings[d][m] > 0

\* A milestone is audited at most once and only when its row exists, even
\* when several requests passed the checks together
\* (closing_orchestration.rb:51-58 behind the unique index).
AuditMatchesRow ==
  \A d \in Deals, m \in Milestones :
    /\ audits[d][m] <= 1
    /\ audits[d][m] = 1 => rows[d][m] # "none"

\* "Append-only audit. Every recorded milestone writes one AuditEvent": once
\* no request is in flight, the only rows without their audit event are those
\* whose own worker died right after inserting them: a race, a lost answer or
\* any other crash leaves no hole (closing_orchestration.rb:51-58).
QuiescentAudited ==
  (\A r \in Requests : req[r].pc = "idle") =>
    \A d \in Deals : \A m \in Recorded(d) :
      audits[d][m] = (IF <<d, m>> \in orphans THEN 0 ELSE 1)

\* A counterparty is pinged at most once per milestone (closing.py:19-20,
\* closer_service.py:105 "Rails owns idempotency/order").
PingedAtMostOnce ==
  \A d \in Deals, m \in Milestones : pings[d][m] <= 1

\* The brain being unreachable is "never a dead-end": a request that passed
\* the order check, and whose own worker survives, ends with its milestone
\* recorded, by itself or by the request that won the race, even if that one
\* died on the way (closing_orchestration.rb:42-54).
NeverDeadEnds ==
  \A r \in Requests \ Mortal, d \in Deals, m \in Milestones :
    (req[r].pc = "ping" /\ req[r].deal = d /\ req[r].milestone = m)
      ~> (m \in Recorded(d))

\* The pipeline implements the tracker its readers see: rows appear one at a
\* time, in order, and never change.
Tracker == INSTANCE ClosingTracker WITH tracker <- rows
TrackerSpec == Tracker!Spec
=============================================================================
