--------------------------- MODULE Closing_proofs ---------------------------
(***************************************************************************)
(* Proofs about Closing, for any deals, any number of racing requests, any *)
(* number of milestones, and whichever workers may die.                     *)
(***************************************************************************)
EXTENDS Closing, TLAPS

\* The inductive invariants.  Each one says what a request in the middle of
\* ClosingOrchestration.record still knows about the database it read earlier.

\* A request past the order check has every earlier milestone behind it.
OrderInv ==
  /\ CanonicalOrder
  /\ \A r \in Requests :
       /\ req[r].pc \in {"order", "ping", "insert", "audit"} =>
            req[r].milestone \in Milestones
       /\ req[r].pc \in {"ping", "insert"} =>
            \A k \in Milestones :
              k < req[r].milestone => k \in Recorded(req[r].deal)

\* A request about to write "simulated" has had its ping emitted.
PingInv ==
  /\ SimulatedWasPinged
  /\ \A r \in Requests :
       req[r].pc = "insert" /\ req[r].status = "simulated" =>
         pings[req[r].deal][req[r].milestone] > 0

\* A request about to audit owns its row: nobody else audits it.
AuditInv ==
  /\ AuditMatchesRow
  /\ \A r \in Requests : req[r].pc = "audit" =>
       /\ req[r].milestone \in Recorded(req[r].deal)
       /\ audits[req[r].deal][req[r].milestone] = 0
  /\ \A r, s \in Requests :
       req[r].pc = "audit" /\ req[s].pc = "audit" /\ r # s =>
         <<req[r].deal, req[r].milestone>> # <<req[s].deal, req[s].milestone>>

\* A row without its audit event is an orphan or has a request about to
\* write it; an orphan is a row that nobody is about to audit.
Owned(d, m) ==
  \E r \in Requests :
    req[r].pc = "audit" /\ req[r].deal = d /\ req[r].milestone = m

OwnerInv ==
  \A d \in Deals : \A m \in Recorded(d) :
    audits[d][m] = 0 => <<d, m>> \in orphans \/ Owned(d, m)

OrphanInv ==
  \A d \in Deals, m \in Milestones : <<d, m>> \in orphans =>
    m \in Recorded(d) /\ audits[d][m] = 0 /\ ~Owned(d, m)
-----------------------------------------------------------------------------
LEMMA SaturateType ==
  ASSUME NEW n \in 0 .. MaxPings
  PROVE  /\ Saturate(n) \in 0 .. MaxPings
         /\ Saturate(n) > 0
         /\ n = 0 => Saturate(n) = 1
BY MaxPingsAssumption DEF Saturate

LEMMA IdleType == Idle \in Request /\ Idle.pc = "idle"
BY DealsAssumption DEF Idle, Request, Steps, PingStatus

\* Every variable of the pipeline keeps its type.
THEOREM TypeCorrect == Spec => []TypeOK
<1>1. Init => TypeOK
  BY IdleType, MaxPingsAssumption DEF Init, TypeOK
<1>2. TypeOK /\ [Next]_vars => TypeOK'
  <2> SUFFICES ASSUME TypeOK, [Next]_vars PROVE TypeOK'
    OBVIOUS
  <2> USE DEF TypeOK
  <2>1. ASSUME NEW r \in Requests, NEW d \in Deals,
               NEW m \in Milestones \cup {UnknownMilestone}, Begin(r, d, m)
        PROVE TypeOK'
    BY <2>1 DEF Begin, Request, Steps, PingStatus
  <2>2. ASSUME NEW r \in Requests, CheckExists(r) PROVE TypeOK'
    <3>1. ASSUME NEW pc \in Steps, Goto(r, pc) PROVE req' \in [Requests -> Request]
      BY <3>1 DEF Goto, Request
    <3>2. ASSUME Finish(r) PROVE req' \in [Requests -> Request]
      BY <3>2, IdleType DEF Finish
    <3> QED BY <2>2, <3>1, <3>2 DEF CheckExists, Steps
  <2>3. ASSUME NEW r \in Requests, CheckOrder(r) PROVE TypeOK'
    <3>1. ASSUME NEW pc \in Steps, Goto(r, pc) PROVE req' \in [Requests -> Request]
      BY <3>1 DEF Goto, Request
    <3>2. ASSUME Finish(r) PROVE req' \in [Requests -> Request]
      BY <3>2, IdleType DEF Finish
    <3> QED BY <2>3, <3>1, <3>2 DEF CheckOrder, Steps
  <2>4. ASSUME NEW r \in Requests, EmitPing(req[r].deal, req[r].milestone)
        PROVE pings' \in [Deals -> [Milestones -> 0 .. MaxPings]]
    <3>1. req[r].deal \in Deals
      BY DEF Request
    <3>2. pings' \in [Deals -> [Milestones -> 0 .. MaxPings]]
      BY <2>4, <3>1, SaturateType DEF EmitPing
    <3> QED BY <3>2
  <2>5. ASSUME NEW r \in Requests, NEW s \in PingStatus, Answered(r, s)
        PROVE req' \in [Requests -> Request]
    BY <2>5 DEF Answered, Request, Steps
  <2>6. ASSUME NEW r \in Requests, PingAnswered(r) PROVE TypeOK'
    BY <2>6, <2>4, <2>5 DEF PingAnswered, PingStatus
  <2>7. ASSUME NEW r \in Requests, PingAnswerLost(r) PROVE TypeOK'
    BY <2>7, <2>4, <2>5 DEF PingAnswerLost, PingStatus
  <2>8. ASSUME NEW r \in Requests, BrainUnreachable(r) PROVE TypeOK'
    BY <2>8, <2>5 DEF BrainUnreachable, PingStatus
  <2>9. ASSUME NEW r \in Requests, InsertRow(r) PROVE TypeOK'
    <3>1. req[r] \in Request
      OBVIOUS
    <3>2. req' \in [Requests -> Request]
      BY <2>9 DEF InsertRow, Goto, Request, Steps
    <3>3. rows' \in [Deals -> [Milestones -> PingStatus \cup {"none"}]]
      BY <2>9, <3>1 DEF InsertRow, Request
    <3> QED BY <2>9, <3>2, <3>3 DEF InsertRow
  <2>10. ASSUME NEW r \in Requests, InsertRefused(r) PROVE TypeOK'
    BY <2>10, IdleType DEF InsertRefused, Finish
  <2>11. ASSUME NEW r \in Requests, WriteAudit(r) PROVE TypeOK'
    <3>1. audits' \in [Deals -> [Milestones -> Nat]]
      <4> DEFINE d == req[r].deal
                 row == [audits[d] EXCEPT ![req[r].milestone] = @ + 1]
      <4>1. d \in Deals
        BY DEF Request
      <4>2. row \in [Milestones -> Nat]
        <5>1. audits[d] \in [Milestones -> Nat]
          BY <4>1
        <5>2. \A m \in Milestones : audits[d][m] + 1 \in Nat
          BY <5>1
        <5> QED BY <5>1, <5>2
      <4>3. audits' = [audits EXCEPT ![d] = row]
        BY <2>11 DEF WriteAudit
      <4> QED BY <4>1, <4>2, <4>3
    <3>2. req' \in [Requests -> Request]
      BY <2>11, IdleType DEF WriteAudit, Finish
    <3> QED BY <2>11, <3>1, <3>2 DEF WriteAudit
  <2>12. ASSUME NEW r \in Requests, Crash(r) PROVE TypeOK'
    <3>1. req' \in [Requests -> Request]
      BY <2>12, IdleType DEF Crash, Finish
    <3>2. req[r].deal \in Deals /\ req[r].milestone \in Milestones \cup {UnknownMilestone}
      BY DEF Request
    <3> QED BY <2>12, <3>1, <3>2 DEF Crash
  <2>13. CASE UNCHANGED vars
    BY <2>13 DEF vars
  <2> QED
    BY <2>1, <2>2, <2>3, <2>6, <2>7, <2>8, <2>9, <2>10, <2>11, <2>12, <2>13
    DEF Next, Record
<1> QED BY <1>1, <1>2, PTL DEF Spec
-----------------------------------------------------------------------------
\* Only InsertRow writes a row, and it writes the row its request checked.
LEMMA RowsGrow ==
  ASSUME TypeOK, [Next]_vars
  PROVE  \/ UNCHANGED rows
         \/ \E r \in Requests : InsertRow(r)
BY DEF Next, Record, vars, Begin, CheckExists, CheckOrder, PingAnswered,
       PingAnswerLost, BrainUnreachable, InsertRefused, WriteAudit, Crash

LEMMA InsertRecords ==
  ASSUME TypeOK, NEW r \in Requests, InsertRow(r),
         req[r].milestone \in Milestones, NEW d \in Deals
  PROVE  Recorded(d)' = IF d = req[r].deal
                        THEN Recorded(d) \cup {req[r].milestone}
                        ELSE Recorded(d)
<1>1. /\ req[r].deal \in Deals
      /\ req[r].status # "none"
  BY DEF TypeOK, Request, PingStatus
<1>2. CASE d = req[r].deal
  BY <1>1, <1>2 DEF InsertRow, Recorded, TypeOK
<1>3. CASE d # req[r].deal
  BY <1>1, <1>3 DEF InsertRow, Recorded, TypeOK
<1> QED BY <1>2, <1>3

\* Rows are never removed, so what a request saw recorded stays recorded.
LEMMA RecordedGrows ==
  ASSUME TypeOK, OrderInv, [Next]_vars, NEW d \in Deals
  PROVE  Recorded(d) \subseteq Recorded(d)'
<1>1. CASE UNCHANGED rows
  BY <1>1 DEF Recorded
<1>2. ASSUME NEW r \in Requests, InsertRow(r)
      PROVE  Recorded(d) \subseteq Recorded(d)'
  BY <1>2, InsertRecords DEF OrderInv, InsertRow
<1> QED BY <1>1, <1>2, RowsGrow

\* One step of a thread leaves every other thread's request alone.
LEMMA OneThreadMoves ==
  ASSUME TypeOK, NEW r \in Requests, NEW s \in Requests \ {r},
         \/ \E d \in Deals, m \in Milestones \cup {UnknownMilestone} : Begin(r, d, m)
         \/ Record(r)
         \/ Crash(r)
  PROVE  req'[s] = req[s]
BY DEF TypeOK, Record, Begin, CheckExists, CheckOrder, PingAnswered,
       PingAnswerLost, BrainUnreachable, Answered, InsertRow, InsertRefused,
       WriteAudit, Crash, Goto, Finish

\* So a request that changed was moved by its own thread.
LEMMA ThreadStep ==
  ASSUME TypeOK, [Next]_vars, NEW s \in Requests, req'[s] # req[s]
  PROVE  \/ \E d \in Deals, m \in Milestones \cup {UnknownMilestone} : Begin(s, d, m)
         \/ Record(s)
         \/ Crash(s)
<1>1. PICK r \in Requests :
        \/ \E d \in Deals, m \in Milestones \cup {UnknownMilestone} : Begin(r, d, m)
        \/ Record(r)
        \/ Crash(r)
  BY DEF Next, vars
<1>2. r = s
  BY <1>1, OneThreadMoves
<1> QED BY <1>1, <1>2

\* The milestones of a deal are recorded in the canonical order.
THEOREM OrderInvariant == Spec => []OrderInv
<1>1. Init => OrderInv
  BY IdleType DEF Init, OrderInv, CanonicalOrder, Recorded
<1>2. TypeOK /\ OrderInv /\ [Next]_vars => OrderInv'
  <2> SUFFICES ASSUME TypeOK, OrderInv, [Next]_vars PROVE OrderInv'
    OBVIOUS
  <2>1. CanonicalOrder'
    <3>1. CASE UNCHANGED rows
      BY <3>1 DEF OrderInv, CanonicalOrder, Recorded
    <3>2. ASSUME NEW r \in Requests, InsertRow(r) PROVE CanonicalOrder'
      <4>1. /\ req[r].milestone \in Milestones
            /\ \A k \in Milestones :
                 k < req[r].milestone => k \in Recorded(req[r].deal)
        BY <3>2 DEF OrderInv, InsertRow
      <4> QED BY <3>2, <4>1, InsertRecords DEF OrderInv, CanonicalOrder
    <3> QED BY <3>1, <3>2, RowsGrow
  <2>2. ASSUME NEW s \in Requests
        PROVE  /\ req'[s].pc \in {"order", "ping", "insert", "audit"} =>
                    req'[s].milestone \in Milestones
               /\ req'[s].pc \in {"ping", "insert"} =>
                    \A k \in Milestones :
                      k < req'[s].milestone => k \in Recorded(req[s].deal)'
    <3>1. CASE req'[s] = req[s]
      <4>1. req[s].deal \in Deals
        BY DEF TypeOK, Request
      <4> QED BY <3>1, <4>1, RecordedGrows DEF OrderInv
    <3>2. ASSUME NEW d \in Deals, NEW m \in Milestones \cup {UnknownMilestone},
                 Begin(s, d, m)
          PROVE  req'[s].pc = "exists"
      BY <3>2 DEF Begin, TypeOK
    <3>3. ASSUME CheckExists(s)
          PROVE  /\ req'[s].pc \in {"idle", "order"}
                 /\ req'[s].pc = "order" => req'[s].milestone \in Milestones
      BY <3>3, IdleType DEF CheckExists, Goto, Finish, TypeOK, Request
    <3>4. CASE CheckOrder(s)
      <4>1. /\ req'[s].pc \in {"idle", "ping"}
            /\ req'[s].pc = "ping" => /\ req'[s].deal = req[s].deal
                                      /\ req'[s].milestone = req[s].milestone
                                      /\ IsNext(req[s].deal, req[s].milestone)
        BY <3>4, IdleType DEF CheckOrder, Goto, Finish, TypeOK, Request
      <4>2. req[s].pc = "order" /\ UNCHANGED rows
        BY <3>4 DEF CheckOrder
      <4> QED BY <4>1, <4>2 DEF OrderInv, IsNext, Recorded
    <3>5. ASSUME NEW st \in PingStatus, req[s].pc = "ping", UNCHANGED rows,
                 Answered(s, st)
          PROVE  /\ req'[s].milestone \in Milestones
                 /\ \A k \in Milestones :
                      k < req'[s].milestone => k \in Recorded(req[s].deal)'
      <4>1. /\ req'[s].deal = req[s].deal
            /\ req'[s].milestone = req[s].milestone
        BY <3>5 DEF Answered, TypeOK, Request
      <4> QED BY <3>5, <4>1 DEF OrderInv, Recorded
    <3>6. CASE PingAnswered(s) \/ PingAnswerLost(s) \/ BrainUnreachable(s)
      BY <3>5, <3>6 DEF PingAnswered, PingAnswerLost, BrainUnreachable, PingStatus
    <3>7. CASE InsertRow(s)
      BY <3>7 DEF InsertRow, Goto, TypeOK, Request, OrderInv
    <3>8. CASE InsertRefused(s) \/ WriteAudit(s) \/ Crash(s)
      BY <3>8, IdleType DEF InsertRefused, WriteAudit, Crash, Finish, TypeOK
    <3> QED BY <3>1, <3>2, <3>3, <3>4, <3>6, <3>7, <3>8, ThreadStep DEF Record
  <2> QED BY <2>1, <2>2 DEF OrderInv
<1> QED BY <1>1, <1>2, TypeCorrect, PTL DEF Spec

\* The canonical order of recorded milestones (closing_orchestration.rb:37-51).
THEOREM CanonicalOrderHolds == Spec => []CanonicalOrder
<1>1. OrderInv => CanonicalOrder
  BY DEF OrderInv
<1> QED BY <1>1, OrderInvariant, PTL
-----------------------------------------------------------------------------
\* The pings only grow.
LEMMA PingsGrow ==
  ASSUME TypeOK, [Next]_vars, NEW d \in Deals, NEW m \in Milestones,
         pings[d][m] > 0
  PROVE  pings'[d][m] > 0
<1>1. ASSUME NEW r \in Requests, EmitPing(req[r].deal, req[r].milestone)
      PROVE  pings'[d][m] > 0
  <2>1. /\ req[r].deal \in Deals
        /\ pings[d][m] \in 0 .. MaxPings
    BY DEF TypeOK, Request
  <2> QED BY <1>1, <2>1, SaturateType DEF EmitPing, TypeOK
<1> QED
  BY <1>1 DEF Next, Record, vars, Begin, CheckExists, CheckOrder, PingAnswered,
     PingAnswerLost, BrainUnreachable, InsertRow, InsertRefused, WriteAudit, Crash

\* A row that says "simulated" has a ping behind it.
THEOREM PingInvariant == Spec => []PingInv
<1>1. Init => PingInv
  BY IdleType DEF Init, PingInv, SimulatedWasPinged, Idle
<1>2. TypeOK /\ OrderInv /\ PingInv /\ [Next]_vars => PingInv'
  <2> SUFFICES ASSUME TypeOK, OrderInv, PingInv, [Next]_vars PROVE PingInv'
    OBVIOUS
  <2>1. SimulatedWasPinged'
    <3>1. CASE UNCHANGED rows
      BY <3>1, PingsGrow DEF PingInv, SimulatedWasPinged
    <3>2. ASSUME NEW r \in Requests, InsertRow(r) PROVE SimulatedWasPinged'
      BY <3>2 DEF PingInv, SimulatedWasPinged, InsertRow, TypeOK, Request
    <3> QED BY <3>1, <3>2, RowsGrow
  <2>2. ASSUME NEW s \in Requests,
               req'[s].pc = "insert" /\ req'[s].status = "simulated"
        PROVE  pings'[req'[s].deal][req'[s].milestone] > 0
    <3>0. /\ req[s].deal \in Deals
          /\ req[s].pc \in {"order", "ping", "insert", "audit"} =>
               req[s].milestone \in Milestones
      BY DEF TypeOK, Request, OrderInv
    <3>1. CASE req'[s] = req[s]
      BY <2>2, <3>0, <3>1, PingsGrow DEF PingInv
    <3>2. CASE PingAnswered(s)
      <4>1. /\ req'[s].deal = req[s].deal
            /\ req'[s].milestone = req[s].milestone
            /\ req[s].milestone \in Milestones
        BY <3>0, <3>2 DEF PingAnswered, Answered, TypeOK, Request
      <4>2. pings[req[s].deal][req[s].milestone] \in 0 .. MaxPings
        BY <3>0, <4>1 DEF TypeOK
      <4> QED BY <3>0, <3>2, <4>1, <4>2, SaturateType DEF PingAnswered, EmitPing, TypeOK
    <3>3. CASE PingAnswerLost(s) \/ BrainUnreachable(s)
      BY <2>2, <3>3 DEF PingAnswerLost, BrainUnreachable, Answered, TypeOK, Request
    <3>4. ASSUME NEW d \in Deals, NEW m \in Milestones \cup {UnknownMilestone},
                 Begin(s, d, m)
          PROVE  FALSE
      BY <2>2, <3>4 DEF Begin, TypeOK
    <3>5. CASE CheckExists(s) \/ CheckOrder(s)
      BY <2>2, <3>5, IdleType DEF CheckExists, CheckOrder, Goto, Finish, TypeOK, Request
    <3>6. CASE InsertRow(s)
      BY <2>2, <3>6 DEF InsertRow, Goto, TypeOK, Request
    <3>7. CASE InsertRefused(s) \/ WriteAudit(s) \/ Crash(s)
      BY <2>2, <3>7, IdleType DEF InsertRefused, WriteAudit, Crash, Finish, TypeOK
    <3> QED
      BY <3>1, <3>2, <3>3, <3>4, <3>5, <3>6, <3>7, ThreadStep DEF Record
  <2> QED BY <2>1, <2>2 DEF PingInv
<1> QED BY <1>1, <1>2, TypeCorrect, OrderInvariant, PTL DEF Spec

\* No row claims a ping the brain did not emit (closing_orchestration.rb:42-49).
THEOREM SimulatedWasPingedHolds == Spec => []SimulatedWasPinged
<1>1. PingInv => SimulatedWasPinged
  BY DEF PingInv
<1> QED BY <1>1, PingInvariant, PTL
-----------------------------------------------------------------------------
\* What a thread that dies just before its audit leaves behind.
LEMMA CrashStep ==
  ASSUME TypeOK, NEW r \in Requests, Crash(r), req[r].pc = "audit"
  PROVE  /\ UNCHANGED <<rows, audits>>
         /\ orphans' = orphans \cup {<<req[r].deal, req[r].milestone>>}
         /\ req'[r].pc = "idle"
         /\ \A s \in Requests : s # r => req'[s] = req[s]
BY IdleType DEF Crash, Finish, TypeOK

\* Every other step leaves rows, audits and the requests waiting to audit alone.
LEMMA QuietStep ==
  ASSUME TypeOK, [Next]_vars
  PROVE  \/ \E r \in Requests : InsertRow(r)
         \/ \E r \in Requests : WriteAudit(r)
         \/ \E r \in Requests : Crash(r) /\ req[r].pc = "audit"
         \/ /\ UNCHANGED <<rows, audits, orphans>>
            /\ \A s \in Requests :
                 req[s].pc = "audit" \/ req'[s].pc = "audit" => req'[s] = req[s]
<1> DEFINE Quiet == /\ UNCHANGED <<rows, audits, orphans>>
                    /\ \A s \in Requests :
                         req[s].pc = "audit" \/ req'[s].pc = "audit" => req'[s] = req[s]
<1> USE DEF TypeOK
<1>1. ASSUME NEW r \in Requests, NEW d \in Deals,
             NEW m \in Milestones \cup {UnknownMilestone}, Begin(r, d, m)
      PROVE  Quiet
  BY <1>1 DEF Begin
<1>2. ASSUME NEW r \in Requests, CheckExists(r) \/ CheckOrder(r) PROVE Quiet
  BY <1>2, IdleType DEF CheckExists, CheckOrder, Goto, Finish, Request
<1>3. ASSUME NEW r \in Requests,
             PingAnswered(r) \/ PingAnswerLost(r) \/ BrainUnreachable(r)
      PROVE  Quiet
  BY <1>3 DEF PingAnswered, PingAnswerLost, BrainUnreachable, Answered, Request
<1>4. ASSUME NEW r \in Requests, InsertRefused(r) PROVE Quiet
  BY <1>4, IdleType DEF InsertRefused, Finish
<1>5. ASSUME NEW r \in Requests, Crash(r), req[r].pc # "audit" PROVE Quiet
  BY <1>5, IdleType DEF Crash, Finish
<1>6. CASE UNCHANGED vars
  BY <1>6 DEF vars
<1> QED BY <1>1, <1>2, <1>3, <1>4, <1>5, <1>6 DEF Next, Record

LEMMA AuditType ==
  ASSUME TypeOK, NEW d \in Deals, NEW m \in Milestones
  PROVE  audits[d][m] \in Nat
BY DEF TypeOK

\* What an insert changes, seen from the audit step that follows it.
LEMMA InsertStep ==
  ASSUME TypeOK, OrderInv, NEW r \in Requests, InsertRow(r)
  PROVE  /\ req[r].deal \in Deals
         /\ req[r].milestone \in Milestones
         /\ req[r].milestone \notin Recorded(req[r].deal)
         /\ UNCHANGED audits
         /\ req'[r].pc = "audit"
         /\ req'[r].deal = req[r].deal
         /\ req'[r].milestone = req[r].milestone
         /\ \A s \in Requests : s # r => req'[s] = req[s]
         /\ \A d \in Deals, m \in Milestones :
              rows'[d][m] = IF d = req[r].deal /\ m = req[r].milestone
                            THEN req[r].status ELSE rows[d][m]
         /\ req[r].status # "none"
BY DEF InsertRow, Goto, TypeOK, Request, OrderInv, PingStatus

\* What an audit changes.
LEMMA AuditStep ==
  ASSUME TypeOK, OrderInv, AuditInv, NEW r \in Requests, WriteAudit(r)
  PROVE  /\ req[r].deal \in Deals
         /\ req[r].milestone \in Milestones
         /\ req[r].pc = "audit"
         /\ UNCHANGED rows
         /\ req'[r].pc = "idle"
         /\ \A s \in Requests : s # r => req'[s] = req[s]
         /\ \A d \in Deals, m \in Milestones :
              audits'[d][m] = IF d = req[r].deal /\ m = req[r].milestone
                              THEN 1 ELSE audits[d][m]
<1>1. /\ req[r].deal \in Deals
      /\ req[r].milestone \in Milestones
      /\ req[r].pc = "audit"
  BY DEF WriteAudit, TypeOK, Request, OrderInv
<1>2. /\ req'[r].pc = "idle"
      /\ \A s \in Requests : s # r => req'[s] = req[s]
  BY IdleType DEF WriteAudit, Finish, TypeOK
<1>3. audits[req[r].deal][req[r].milestone] + 1 = 1
  BY <1>1, AuditType DEF AuditInv
<1> QED BY <1>1, <1>2, <1>3 DEF WriteAudit, TypeOK

\* A milestone is audited at most once, by the request that inserted its row.
THEOREM AuditInvariant == Spec => []AuditInv
<1>1. Init => AuditInv
  BY IdleType DEF Init, AuditInv, AuditMatchesRow
<1>2. TypeOK /\ OrderInv /\ AuditInv /\ [Next]_vars => AuditInv'
  <2> SUFFICES ASSUME TypeOK, OrderInv, AuditInv, [Next]_vars PROVE AuditInv'
    OBVIOUS
  <2>1. ASSUME NEW r \in Requests, InsertRow(r) PROVE AuditInv'
    <3>1. audits[req[r].deal][req[r].milestone] = 0
      BY <2>1, InsertStep, AuditType DEF AuditInv, AuditMatchesRow, Recorded
    <3>2. AuditMatchesRow'
      BY <2>1, InsertStep DEF AuditInv, AuditMatchesRow
    <3>3. ASSUME NEW s \in Requests, req'[s].pc = "audit"
          PROVE  /\ req'[s].milestone \in Recorded(req[s].deal)'
                 /\ audits'[req'[s].deal][req'[s].milestone] = 0
      <4>1. CASE s = r
        BY <2>1, <3>1, <4>1, InsertStep DEF Recorded
      <4>2. CASE s # r
        BY <2>1, <3>3, <4>2, InsertStep DEF AuditInv, Recorded, TypeOK, Request
      <4> QED BY <4>1, <4>2
    <3>4. ASSUME NEW s \in Requests, NEW t \in Requests,
                 req'[s].pc = "audit", req'[t].pc = "audit", s # t
          PROVE  <<req'[s].deal, req'[s].milestone>> # <<req'[t].deal, req'[t].milestone>>
      <4>1. ASSUME NEW u \in Requests, u # r, req[u].pc = "audit"
            PROVE  <<req[u].deal, req[u].milestone>> # <<req[r].deal, req[r].milestone>>
        BY <2>1, <4>1, InsertStep DEF AuditInv
      <4> QED BY <2>1, <3>4, <4>1, InsertStep DEF AuditInv
    <3> QED BY <3>2, <3>3, <3>4 DEF AuditInv
  <2>2. ASSUME NEW r \in Requests, WriteAudit(r) PROVE AuditInv'
    <3>1. AuditMatchesRow'
      <4>1. rows[req[r].deal][req[r].milestone] # "none"
        BY <2>2, AuditStep DEF AuditInv, Recorded
      <4> QED BY <2>2, <4>1, AuditStep DEF AuditInv, AuditMatchesRow
    <3>2. ASSUME NEW s \in Requests, req'[s].pc = "audit"
          PROVE  /\ s # r
                 /\ req'[s] = req[s]
                 /\ <<req[s].deal, req[s].milestone>> # <<req[r].deal, req[r].milestone>>
      BY <2>2, <3>2, AuditStep DEF AuditInv
    <3>3. ASSUME NEW s \in Requests, req'[s].pc = "audit"
          PROVE  /\ req'[s].milestone \in Recorded(req[s].deal)'
                 /\ audits'[req'[s].deal][req'[s].milestone] = 0
      BY <2>2, <3>2, <3>3, AuditStep DEF AuditInv, Recorded, TypeOK, Request, OrderInv
    <3> QED BY <3>1, <3>2, <3>3 DEF AuditInv
  <2>3. CASE /\ UNCHANGED <<rows, audits>>
             /\ \A s \in Requests : req'[s].pc = "audit" => req'[s] = req[s]
    BY <2>3 DEF AuditInv, AuditMatchesRow, Recorded
  <2>4. ASSUME NEW r \in Requests, Crash(r), req[r].pc = "audit" PROVE AuditInv'
    BY <2>3, <2>4, CrashStep
  <2> QED BY <2>1, <2>2, <2>3, <2>4, QuietStep
<1> QED BY <1>1, <1>2, TypeCorrect, OrderInvariant, PTL DEF Spec

\* Several requests may race past the checks; each row is audited at most
\* once all the same (closing_orchestration.rb:51-58).
THEOREM AuditMatchesRowHolds == Spec => []AuditMatchesRow
<1>1. AuditInv => AuditMatchesRow
  BY DEF AuditInv
<1> QED BY <1>1, AuditInvariant, PTL

\* A row whose audit event is missing is an orphan, or has a request that is
\* about to write it.
THEOREM OwnerInvariant == Spec => [](OwnerInv /\ OrphanInv)
<1>1. Init => OwnerInv /\ OrphanInv
  BY DEF Init, OwnerInv, OrphanInv, Recorded
<1>2. TypeOK /\ OrderInv /\ AuditInv /\ OwnerInv /\ OrphanInv /\ [Next]_vars
        => (OwnerInv /\ OrphanInv)'
  <2> SUFFICES ASSUME TypeOK, OrderInv, AuditInv, OwnerInv, OrphanInv, [Next]_vars,
                      NEW d \in Deals, NEW m \in Milestones
               PROVE  /\ rows'[d][m] # "none" /\ audits'[d][m] = 0 =>
                           <<d, m>> \in orphans' \/ Owned(d, m)'
                      /\ <<d, m>> \in orphans' =>
                           /\ rows'[d][m] # "none"
                           /\ audits'[d][m] = 0
                           /\ ~Owned(d, m)'
    BY DEF OwnerInv, OrphanInv, Recorded
  <2>0. /\ rows[d][m] # "none" /\ audits[d][m] = 0 =>
             <<d, m>> \in orphans \/ Owned(d, m)
        /\ <<d, m>> \in orphans =>
             rows[d][m] # "none" /\ audits[d][m] = 0 /\ ~Owned(d, m)
    BY DEF OwnerInv, OrphanInv, Recorded
  <2>1. ASSUME NEW q \in Requests, InsertRow(q)
        PROVE  /\ rows'[d][m] # "none" /\ audits'[d][m] = 0 =>
                    <<d, m>> \in orphans' \/ Owned(d, m)'
               /\ <<d, m>> \in orphans' =>
                    rows'[d][m] # "none" /\ audits'[d][m] = 0 /\ ~Owned(d, m)'
    <3>0. orphans' = orphans
      BY <2>1 DEF InsertRow
    <3>1. CASE d = req[q].deal /\ m = req[q].milestone
      <4>1. Owned(d, m)'
        BY <2>1, <3>1, InsertStep DEF Owned
      <4>2. <<d, m>> \notin orphans
        BY <2>0, <2>1, <3>1, InsertStep DEF Recorded
      <4> QED BY <3>0, <4>1, <4>2
    <3>2. CASE ~(d = req[q].deal /\ m = req[q].milestone)
      <4>1. rows'[d][m] = rows[d][m] /\ audits'[d][m] = audits[d][m]
        BY <2>1, <3>2, InsertStep
      <4>2. req[q].pc # "audit"
        BY <2>1 DEF InsertRow
      <4>3. Owned(d, m)' <=> Owned(d, m)
        BY <2>1, <3>2, <4>2, InsertStep DEF Owned
      <4> QED BY <2>0, <3>0, <4>1, <4>3
    <3> QED BY <3>1, <3>2
  <2>2. ASSUME NEW q \in Requests, WriteAudit(q)
        PROVE  /\ rows'[d][m] # "none" /\ audits'[d][m] = 0 =>
                    <<d, m>> \in orphans' \/ Owned(d, m)'
               /\ <<d, m>> \in orphans' =>
                    rows'[d][m] # "none" /\ audits'[d][m] = 0 /\ ~Owned(d, m)'
    <3>0. orphans' = orphans
      BY <2>2 DEF WriteAudit
    <3>1. CASE d = req[q].deal /\ m = req[q].milestone
      <4>1. Owned(d, m)
        BY <2>2, <3>1, AuditStep DEF Owned
      <4>2. audits'[d][m] = 1
        BY <2>2, <3>1, AuditStep
      <4> QED BY <2>0, <3>0, <4>1, <4>2
    <3>2. CASE ~(d = req[q].deal /\ m = req[q].milestone)
      <4>1. rows'[d][m] = rows[d][m] /\ audits'[d][m] = audits[d][m]
        BY <2>2, <3>2, AuditStep
      <4>2. Owned(d, m)' <=> Owned(d, m)
        BY <2>2, <3>2, AuditStep DEF Owned
      <4> QED BY <2>0, <3>0, <4>1, <4>2
    <3> QED BY <3>1, <3>2
  <2>3. ASSUME NEW q \in Requests, Crash(q), req[q].pc = "audit"
        PROVE  /\ rows'[d][m] # "none" /\ audits'[d][m] = 0 =>
                    <<d, m>> \in orphans' \/ Owned(d, m)'
               /\ <<d, m>> \in orphans' =>
                    rows'[d][m] # "none" /\ audits'[d][m] = 0 /\ ~Owned(d, m)'
    <3>1. CASE d = req[q].deal /\ m = req[q].milestone
      <4>1. rows[d][m] # "none" /\ audits[d][m] = 0
        BY <2>3, <3>1 DEF AuditInv, Recorded
      <4>2. ~Owned(d, m)'
        BY <2>3, <3>1, CrashStep DEF Owned, AuditInv
      <4> QED BY <2>3, <3>1, <4>1, <4>2, CrashStep
    <3>2. CASE ~(d = req[q].deal /\ m = req[q].milestone)
      <4>1. /\ Owned(d, m)' <=> Owned(d, m)
            /\ <<d, m>> \in orphans' <=> <<d, m>> \in orphans
        BY <2>3, <3>2, CrashStep DEF Owned
      <4> QED BY <2>0, <2>3, <4>1, CrashStep
    <3> QED BY <3>1, <3>2
  <2>4. CASE /\ UNCHANGED <<rows, audits, orphans>>
             /\ \A s \in Requests :
                  req[s].pc = "audit" \/ req'[s].pc = "audit" => req'[s] = req[s]
    <3>1. Owned(d, m)' <=> Owned(d, m)
      BY <2>4 DEF Owned
    <3> QED BY <2>0, <2>4, <3>1
  <2> QED BY <2>1, <2>2, <2>3, <2>4, QuietStep
<1> QED BY <1>1, <1>2, TypeCorrect, OrderInvariant, AuditInvariant, PTL DEF Spec

\* Once the requests are done, exactly the rows whose worker died between the
\* insert and the audit lack their audit event.
THEOREM QuiescentAuditedHolds == Spec => []QuiescentAudited
<1>1. TypeOK /\ AuditInv /\ OwnerInv /\ OrphanInv => QuiescentAudited
  <2> SUFFICES ASSUME TypeOK, AuditInv, OwnerInv, OrphanInv,
                      \A r \in Requests : req[r].pc = "idle",
                      NEW d \in Deals, NEW m \in Recorded(d)
               PROVE  audits[d][m] = IF <<d, m>> \in orphans THEN 0 ELSE 1
    BY DEF QuiescentAudited
  <2>1. m \in Milestones
    BY DEF Recorded
  <2>2. CASE <<d, m>> \in orphans
    BY <2>1, <2>2 DEF OrphanInv
  <2>3. CASE <<d, m>> \notin orphans
    <3>1. audits[d][m] # 0
      BY <2>1, <2>3 DEF OwnerInv, Owned
    <3> QED BY <2>1, <2>3, <3>1, AuditType DEF AuditInv, AuditMatchesRow
  <2> QED BY <2>2, <2>3
<1> QED BY <1>1, TypeCorrect, AuditInvariant, OwnerInvariant, PTL
-----------------------------------------------------------------------------
\* Racing, crashing requests implement the tracker the broker and the buyer
\* read: rows appear one at a time, in order, and never change.
THEOREM ImplementsTracker == Spec => TrackerSpec
<1> USE DEF Tracker!Milestones, Milestones
<1>1. Init => Tracker!Init
  BY DEF Init, Tracker!Init
<1>2. TypeOK /\ OrderInv /\ [Next]_vars => [Tracker!Next]_rows
  <2> SUFFICES ASSUME TypeOK, OrderInv, NEW r \in Requests, InsertRow(r)
               PROVE  Tracker!Next
    BY RowsGrow
  <2> DEFINE d == req[r].deal
             m == req[r].milestone
             s == req[r].status
  <2>1. /\ d \in Deals
        /\ m \in 1 .. NumMilestones
        /\ s \in PingStatus
        /\ m \notin Recorded(d)
    BY InsertStep DEF TypeOK, Request
  <2>2. \A k \in 1 .. NumMilestones : k < m => k \in Recorded(d)
    BY DEF OrderInv, InsertRow
  <2>3. CanonicalOrder
    BY DEF OrderInv
  <2>4. Recorded(d) = 1 .. (m - 1)
    <3>1. \A k \in Recorded(d) : k \in 1 .. NumMilestones /\ k < m
      BY <2>1, <2>3 DEF CanonicalOrder, Recorded
    <3>2. \A k \in Int : k \in 1 .. (m - 1) <=> k \in 1 .. NumMilestones /\ k < m
      BY <2>1, NumMilestonesAssumption
    <3>3. \A k : k \in Recorded(d) <=> k \in 1 .. (m - 1)
      BY <2>2, <3>1, <3>2
    <3> HIDE DEF d, m
    <3> QED BY <3>3
  <2>5. Tracker!Cleared(rows, d) = 1 .. (m - 1)
    BY <2>4 DEF Tracker!Cleared, Recorded
  <2>6. rows' = [rows EXCEPT ![d][m] = s]
    BY DEF InsertRow
  <2> QED BY <2>1, <2>5, <2>6 DEF Tracker!Next, Tracker!Clear, Tracker!PingStatus, PingStatus
<1> QED BY <1>1, <1>2, TypeCorrect, OrderInvariant, PTL DEF Spec, TrackerSpec, Tracker!Spec
=============================================================================
