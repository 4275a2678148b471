-------------------------- MODULE Showings_proofs --------------------------
(***************************************************************************)
(* Proofs about Showings, for any listings, brokers, appointments, number  *)
(* of racing requests and slot length, whichever workers may die.          *)
(***************************************************************************)
EXTENDS Showings, Inductions, TLAPS

\* What the steps of one request rely on: which kind of request reaches which
\* step, and, for one that loaded a row, that the row's listing and time are
\* those of the table still.
Loaded(r) ==
  /\ req[r].pc = "validate" => req[r].op = "book"
  /\ req[r].pc = "broker" => req[r].op = "confirm"
  /\ req[r].pc = "home" => req[r].op \in {"book", "confirm"}
  /\ req[r].pc # "idle" /\ req[r].op = "confirm" => req[r].broker \in Brokers
  /\ req[r].pc \in {"home", "broker", "validate", "write"} =>
       IF req[r].op = "book"
       THEN /\ appts[req[r].id].status = "absent"
            /\ req[r].row.status = "requested"
            /\ req[r].row.broker = NoBroker
       ELSE /\ appts[req[r].id].status # "absent"
            /\ req[r].row.home = appts[req[r].id].home
            /\ req[r].row.start = appts[req[r].id].start

\* A request that nobody has overtaken still has its re-checks right, and the
\* broker it loaded is the row's.
Rechecked(r) ==
  /\ req[r].pc \in {"home", "broker", "write"} /\ req[r].op = "confirm" =>
       req[r].row.broker = appts[req[r].id].broker
  /\ (req[r].pc = "broker" \/ (req[r].pc = "write" /\ req[r].op \in {"book", "confirm"})) =>
       HomeFree(req[r].row.home, req[r].row.start, req[r].id)
  /\ req[r].pc = "write" /\ req[r].op = "confirm" =>
       BrokerFree(req[r].broker, req[r].row.start, req[r].id)

\* The id a booking will be given is nobody else's.
Reserved ==
  \A r, s \in Requests :
    /\ r # s
    /\ req[r].op = "book" /\ req[r].pc \in {"home", "validate", "write"}
    /\ req[s].pc # "idle"
    => req[r].id # req[s].id

ShowingInv ==
  /\ TypeOK
  /\ \A r \in Requests : Loaded(r)
  /\ \A r \in Requests : r \notin overtaken => Rechecked(r)
  /\ Reserved
  /\ ExclusiveUnlessOvertaken
-----------------------------------------------------------------------------
LEMMA AbsentRowType == AbsentRow \in Appt
BY SetsAssumption DEF AbsentRow, Appt

LEMMA IdleType == Idle \in Request /\ Idle.pc = "idle" /\ Idle.op = "book"
BY SetsAssumption, AbsentRowType DEF Idle, Request, Steps, Ops

LEMMA DirtyCases ==
  ASSUME NEW current, NEW loaded, NEW new
  PROVE  /\ Dirty(current, loaded, new) \in {current, new}
         /\ current = loaded => Dirty(current, loaded, new) = new
BY DEF Dirty

LEMMA OutcomeType == \A op \in Ops : Outcome(op) \in Status
BY DEF Outcome, Ops, Status, ActiveStatus

LEMMA GotoType ==
  ASSUME TypeOK, NEW r \in Requests, NEW pc \in Steps, Goto(r, pc)
  PROVE  /\ req' \in [Requests -> Request]
         /\ \A s \in Requests : s # r => req'[s] = req[s]
         /\ req'[r].pc = pc /\ req'[r].op = req[r].op /\ req'[r].id = req[r].id
         /\ req'[r].row = req[r].row /\ req'[r].broker = req[r].broker
BY DEF Goto, TypeOK, Request

LEMMA FinishType ==
  ASSUME TypeOK, NEW r \in Requests, Finish(r)
  PROVE  /\ req' \in [Requests -> Request]
         /\ \A s \in Requests : s # r => req'[s] = req[s]
         /\ req'[r] = Idle
         /\ overtaken' = overtaken \ {r}
BY IdleType DEF Finish, TypeOK

\* Every variable keeps its type.
THEOREM TypeCorrect == Spec => []TypeOK
<1>1. Init => TypeOK
  BY IdleType, AbsentRowType DEF Init, TypeOK, Appt
<1>2. TypeOK /\ [Next]_vars => TypeOK'
  <2> SUFFICES ASSUME TypeOK, [Next]_vars PROVE TypeOK'
    OBVIOUS
  <2>1. ASSUME NEW r \in Requests, NEW a \in Appts, NEW h \in Homes,
               NEW t \in StartTimes, BeginBook(r, a, h, t)
        PROVE TypeOK'
    BY <2>1 DEF BeginBook, Unwritten, TypeOK, Request, Steps, Ops, Appt,
                Status, ActiveStatus
  <2>2. ASSUME NEW r \in Requests, NEW op \in Buttons, NEW a \in Appts,
               NEW b \in Brokers, BeginBroker(r, op, a, b)
        PROVE TypeOK'
    BY <2>2, SetsAssumption DEF BeginBroker, Unwritten, TypeOK, Request, Steps, Ops
  <2>3. ASSUME NEW r \in Requests, CheckHome(r) PROVE TypeOK'
    BY <2>3, GotoType, FinishType DEF CheckHome, Unwritten, TypeOK, Steps
  <2>4. ASSUME NEW r \in Requests, CheckBroker(r) PROVE TypeOK'
    BY <2>4, GotoType, FinishType DEF CheckBroker, Unwritten, TypeOK, Steps
  <2>5. ASSUME NEW r \in Requests, Validate(r) PROVE TypeOK'
    BY <2>5, GotoType, FinishType DEF Validate, Unwritten, TypeOK, Steps
  <2>6. ASSUME NEW r \in Requests, Occupies(r)
        PROVE overtaken' \in SUBSET Requests /\ tainted' \in BOOLEAN
    BY <2>6 DEF Occupies, Deciding, TypeOK
  <2>7. ASSUME NEW r \in Requests, InsertRequested(r) PROVE TypeOK'
    BY <2>7, <2>6, GotoType DEF InsertRequested, TypeOK, Steps, Request
  <2>8. ASSUME NEW r \in Requests, UpdateConfirmed(r) PROVE TypeOK'
    <3>1. req[r] \in Request /\ appts[req[r].id] \in Appt
      BY DEF TypeOK, Request
    <3>2. Dirty(appts[req[r].id].status, req[r].row.status, "confirmed")
            \in Status \cup {"absent"}
      BY <3>1, DirtyCases DEF Appt, Status, ActiveStatus
    <3>3. Dirty(appts[req[r].id].broker, req[r].row.broker, req[r].broker)
            \in Brokers \cup {NoBroker}
      BY <3>1, DirtyCases DEF Appt, Request
    <3>4. appts' \in [Appts -> Appt]
      BY <2>8, <3>1, <3>2, <3>3 DEF UpdateConfirmed, TypeOK, Appt
    <3> QED BY <2>8, <3>4, <2>6, GotoType DEF UpdateConfirmed, TypeOK, Steps
  <2>9. ASSUME NEW r \in Requests, UpdateClosed(r) PROVE TypeOK'
    <3>1. req[r] \in Request /\ appts[req[r].id] \in Appt
      BY DEF TypeOK, Request
    <3>2. Dirty(appts[req[r].id].status, req[r].row.status, Outcome(req[r].op))
            \in Status \cup {"absent"}
      BY <3>1, DirtyCases, OutcomeType DEF Appt, Request
    <3>3. appts' \in [Appts -> Appt]
      BY <2>9, <3>1, <3>2 DEF UpdateClosed, TypeOK, Appt
    <3> QED BY <2>9, <3>3, GotoType DEF UpdateClosed, TypeOK, Steps
  <2>10. ASSUME NEW r \in Requests, WriteAudit(r) PROVE TypeOK'
    <3>1. Outcome(req[r].op) \in Status
      BY OutcomeType DEF TypeOK, Request
    <3> QED BY <2>10, <3>1, FinishType DEF WriteAudit, TypeOK
  <2>11. ASSUME NEW r \in Requests, Crash(r) PROVE TypeOK'
    <3>1. Outcome(req[r].op) \in Status
      BY OutcomeType DEF TypeOK, Request
    <3> QED BY <2>11, <3>1, FinishType DEF Crash, TypeOK
  <2>12. CASE UNCHANGED vars
    BY <2>12 DEF vars, TypeOK
  <2> QED
    BY <2>1, <2>2, <2>3, <2>4, <2>5, <2>7, <2>8, <2>9, <2>10, <2>11, <2>12 DEF Next
<1> QED BY <1>1, <1>2, PTL DEF Spec
-----------------------------------------------------------------------------
\* A request the step does not touch keeps what it knows, as long as the step
\* leaves the table alone and un-overtakes nobody.
LEMMA Untouched ==
  ASSUME NEW s \in Requests, req'[s] = req[s], UNCHANGED appts,
         s \notin overtaken' => s \notin overtaken,
         Loaded(s), s \notin overtaken => Rechecked(s)
  PROVE  Loaded(s)' /\ (s \notin overtaken' => Rechecked(s)')
BY DEF Loaded, Rechecked, HomeFree, BrokerFree, Active

\* A step that leaves the table and the taint alone, moves one request, and
\* leaves that request with sound knowledge preserves the invariant.
LEMMA ReadOnlyStep ==
  ASSUME ShowingInv, TypeOK', NEW r \in Requests,
         \A s \in Requests : s # r => req'[s] = req[s],
         UNCHANGED <<appts, tainted>>,
         \A s \in Requests \ {r} : s \notin overtaken' => s \notin overtaken,
         Loaded(r)', r \notin overtaken' => Rechecked(r)',
         Reserved'
  PROVE  ShowingInv'
<1>1. \A s \in Requests \ {r} : Loaded(s)' /\ (s \notin overtaken' => Rechecked(s)')
  BY Untouched DEF ShowingInv
<1>2. ExclusiveUnlessOvertaken'
  BY DEF ShowingInv, ExclusiveUnlessOvertaken, HomeExclusive, BrokerExclusive,
         Clash, Active
<1> QED BY <1>1, <1>2 DEF ShowingInv

\* Reservations survive a step of a request that keeps its id and its kind and
\* does not go back to re-checking, or that ends.
LEMMA ReservedKept ==
  ASSUME ShowingInv, NEW r \in Requests,
         \A s \in Requests : s # r => req'[s] = req[s],
         \/ /\ req'[r].id = req[r].id /\ req'[r].op = req[r].op
            /\ req[r].pc # "idle"
            /\ req[r].pc = "audit" => req'[r].pc = "audit"
            /\ req[r].pc \in {"broker"} => req[r].op # "book"
         \/ req'[r].pc = "idle"
  PROVE  Reserved'
BY DEF ShowingInv, Reserved, TypeOK, Request, Steps

LEMMA FinishKeeps ==
  ASSUME ShowingInv, TypeOK', NEW r \in Requests, Finish(r),
         UNCHANGED <<appts, tainted>>
  PROVE  ShowingInv'
<1>1. /\ \A s \in Requests : s # r => req'[s] = req[s]
      /\ req'[r] = Idle
      /\ overtaken' = overtaken \ {r}
  BY FinishType DEF ShowingInv
<1>2. Reserved'
  BY <1>1, IdleType, ReservedKept
<1>3. Loaded(r)' /\ Rechecked(r)'
  BY <1>1, IdleType DEF Loaded, Rechecked
<1> QED BY <1>1, <1>2, <1>3, ReadOnlyStep

\* decline and complete only free a slot: whatever was exclusive, and whatever
\* was found free, stays so.
LEMMA ClosingAShowing ==
  ASSUME ShowingInv, TypeOK', NEW r \in Requests, UpdateClosed(r)
  PROVE  ShowingInv'
<1> DEFINE id == req[r].id
<1>1. /\ req[r].pc = "write" /\ req[r].op \in {"decline", "complete"}
      /\ id \in Appts /\ appts[id].status # "absent"
  BY DEF UpdateClosed, ShowingInv, Loaded, TypeOK, Request
<1>2. /\ \A s \in Requests : s # r => req'[s] = req[s]
      /\ req'[r].pc = "audit" /\ req'[r].op = req[r].op /\ req'[r].id = id
      /\ req'[r].broker = req[r].broker
      /\ UNCHANGED <<trail, lost, overtaken, tainted>>
  BY GotoType DEF UpdateClosed, ShowingInv, Steps
<1>3. /\ appts'[id].status \in {appts[id].status, "declined", "completed"}
      /\ \A a \in Appts \ {id} : appts'[a] = appts[a]
      /\ \A a \in Appts : /\ appts'[a].home = appts[a].home
                        /\ appts'[a].start = appts[a].start
                        /\ appts'[a].broker = appts[a].broker
  <2>1. Outcome(req[r].op) \in {"declined", "completed"}
    BY <1>1 DEF Outcome
  <2> QED BY <1>1, <2>1, DirtyCases DEF UpdateClosed, ShowingInv, TypeOK, Appt
<1>4. \A a \in Appts : Active(a)' => Active(a)
  BY <1>1, <1>3 DEF Active, ActiveStatus
<1>5. \A s \in Requests : s # r => Loaded(s)'
  <2> SUFFICES ASSUME NEW s \in Requests, s # r PROVE Loaded(s)'
    OBVIOUS
  <2>1. Loaded(s) /\ req[s] \in Request /\ req[s].id \in Appts
    BY DEF ShowingInv, TypeOK, Request
  <2>2. req[s].op = "book" /\ req[s].pc \in {"home", "validate", "write"} =>
          req[s].id # id
    BY <1>1 DEF ShowingInv, Reserved
  <2> QED BY <1>1, <1>2, <1>3, <2>1, <2>2 DEF Loaded
<1>6. Loaded(r)' /\ Rechecked(r)'
  BY <1>1, <1>2 DEF Loaded, Rechecked
<1>7. \A s \in Requests : s # r /\ s \notin overtaken' => Rechecked(s)'
  <2> SUFFICES ASSUME NEW s \in Requests, s # r, s \notin overtaken
               PROVE Rechecked(s)'
    BY <1>2
  <2>1. Rechecked(s) /\ req'[s] = req[s] /\ req[s].id \in Appts
    BY <1>2 DEF ShowingInv, TypeOK, Request
  <2> QED BY <1>3, <1>4, <2>1 DEF Rechecked, HomeFree, BrokerFree
<1>8. Reserved'
  BY <1>1, <1>2, ReservedKept
<1>9. ExclusiveUnlessOvertaken'
  BY <1>2, <1>3, <1>4
  DEF ShowingInv, ExclusiveUnlessOvertaken, HomeExclusive, BrokerExclusive, Clash
<1> QED BY <1>5, <1>6, <1>7, <1>8, <1>9 DEF ShowingInv
-----------------------------------------------------------------------------
\* A step that writes a row overtakes every other request that has read.
LEMMA OvertakesTheRest ==
  ASSUME TypeOK, NEW r \in Requests, Occupies(r),
         NEW s \in Requests, s # r, req'[s] = req[s], s \notin overtaken'
  PROVE  Rechecked(s)'
BY DEF Occupies, Deciding, Rechecked

\* A row written by a request whose re-checks were still right clashes with
\* no other row.
LEMMA NoNewClash ==
  ASSUME TypeOK, TypeOK', HomeExclusive, BrokerExclusive, NEW id \in Appts,
         \A a \in Appts \ {id} : appts'[a] = appts[a],
         appts'[id].status \in ActiveStatus =>
           /\ HomeFree(appts'[id].home, appts'[id].start, id)
           /\ \/ appts'[id].broker = NoBroker
              \/ BrokerFree(appts'[id].broker, appts'[id].start, id)
  PROVE  HomeExclusive' /\ BrokerExclusive'
<1>1. \A x, y \in StartTimes : Overlaps(x, y) <=> Overlaps(y, x)
  BY SetsAssumption, ClockAssumption DEF Overlaps
<1>2. \A a \in Appts : appts[a].start \in StartTimes /\ appts'[a].start \in StartTimes
  BY DEF TypeOK, Appt
<1>3. HomeExclusive'
  BY <1>1, <1>2 DEF HomeExclusive, Clash, Active, HomeFree
<1>4. BrokerExclusive'
  BY <1>1, <1>2 DEF BrokerExclusive, Clash, Active, BrokerFree
<1> QED BY <1>3, <1>4

LEMMA Booking ==
  ASSUME ShowingInv, TypeOK', NEW r \in Requests, InsertRequested(r)
  PROVE  ShowingInv'
<1> DEFINE id == req[r].id
<1>1. /\ req[r].pc = "write" /\ req[r].op = "book" /\ id \in Appts
      /\ appts[id].status = "absent"
      /\ req[r].row.broker = NoBroker
  BY DEF InsertRequested, ShowingInv, Loaded, TypeOK, Request
<1>2. /\ \A s \in Requests : s # r => req'[s] = req[s]
      /\ req'[r].pc = "audit" /\ req'[r].op = "book" /\ req'[r].id = id
      /\ Occupies(r)
  BY GotoType, <1>1 DEF InsertRequested, ShowingInv, Steps
<1>3. /\ appts'[id] = req[r].row
      /\ \A a \in Appts \ {id} : appts'[a] = appts[a]
  BY <1>1 DEF InsertRequested, ShowingInv, TypeOK
<1>4. \A s \in Requests : s # r => Loaded(s)'
  <2> SUFFICES ASSUME NEW s \in Requests, s # r PROVE Loaded(s)'
    OBVIOUS
  <2>1. Loaded(s) /\ req[s].id \in Appts
    BY DEF ShowingInv, TypeOK, Request
  <2>2. req[s].op = "book" /\ req[s].pc \in {"home", "validate", "write"} =>
          req[s].id # id
    BY <1>1 DEF ShowingInv, Reserved
  <2> QED BY <1>1, <1>2, <1>3, <2>1, <2>2 DEF Loaded
<1>5. Loaded(r)' /\ Rechecked(r)'
  BY <1>2 DEF Loaded, Rechecked
<1>6. \A s \in Requests : s # r /\ s \notin overtaken' => Rechecked(s)'
  BY <1>2, OvertakesTheRest DEF ShowingInv
<1>7. Reserved'
  BY <1>1, <1>2, ReservedKept
<1>8. ExclusiveUnlessOvertaken'
  <2> SUFFICES ASSUME ~tainted' PROVE HomeExclusive' /\ BrokerExclusive'
    BY DEF ExclusiveUnlessOvertaken
  <2>1. ~tainted /\ r \notin overtaken
    BY <1>2 DEF Occupies
  <2>2. HomeFree(req[r].row.home, req[r].row.start, id)
    BY <1>1, <2>1 DEF ShowingInv, Rechecked
  <2> QED BY <1>1, <1>3, <2>1, <2>2, NoNewClash DEF ShowingInv, ExclusiveUnlessOvertaken
<1> QED BY <1>4, <1>5, <1>6, <1>7, <1>8 DEF ShowingInv

LEMMA Confirming ==
  ASSUME ShowingInv, TypeOK', NEW r \in Requests, UpdateConfirmed(r)
  PROVE  ShowingInv'
<1> DEFINE id == req[r].id
<1>1. /\ req[r].pc = "write" /\ req[r].op = "confirm" /\ id \in Appts
      /\ appts[id].status # "absent"
      /\ req[r].broker \in Brokers
      /\ req[r].row.home = appts[id].home
      /\ req[r].row.start = appts[id].start
  BY DEF UpdateConfirmed, ShowingInv, Loaded, TypeOK, Request
<1>2. /\ \A s \in Requests : s # r => req'[s] = req[s]
      /\ req'[r].pc = "audit" /\ req'[r].op = req[r].op /\ req'[r].id = id
      /\ req'[r].broker = req[r].broker
      /\ Occupies(r)
  BY GotoType DEF UpdateConfirmed, ShowingInv, Steps
<1>3. /\ appts'[id].status = Dirty(appts[id].status, req[r].row.status, "confirmed")
      /\ appts'[id].home = appts[id].home
      /\ appts'[id].start = appts[id].start
      /\ appts'[id].broker = Dirty(appts[id].broker, req[r].row.broker, req[r].broker)
      /\ \A a \in Appts \ {id} : appts'[a] = appts[a]
  BY <1>1 DEF UpdateConfirmed, ShowingInv, TypeOK
<1>4. appts'[id].status # "absent"
  BY <1>1, <1>3, DirtyCases
<1>5. \A s \in Requests : s # r => Loaded(s)'
  <2> SUFFICES ASSUME NEW s \in Requests, s # r PROVE Loaded(s)'
    OBVIOUS
  <2>1. Loaded(s) /\ req[s].id \in Appts
    BY DEF ShowingInv, TypeOK, Request
  <2>2. req[s].op = "book" /\ req[s].pc \in {"home", "validate", "write"} =>
          req[s].id # id
    BY <1>1 DEF ShowingInv, Reserved
  <2> QED BY <1>2, <1>3, <1>4, <2>1, <2>2 DEF Loaded
<1>6. Loaded(r)' /\ Rechecked(r)'
  BY <1>1, <1>2 DEF Loaded, Rechecked
<1>7. \A s \in Requests : s # r /\ s \notin overtaken' => Rechecked(s)'
  BY <1>2, OvertakesTheRest DEF ShowingInv
<1>8. Reserved'
  BY <1>1, <1>2, ReservedKept
<1>9. ExclusiveUnlessOvertaken'
  <2> SUFFICES ASSUME ~tainted' PROVE HomeExclusive' /\ BrokerExclusive'
    BY DEF ExclusiveUnlessOvertaken
  <2>1. ~tainted /\ r \notin overtaken
    BY <1>2 DEF Occupies
  <2>2. /\ HomeFree(req[r].row.home, req[r].row.start, id)
        /\ BrokerFree(req[r].broker, req[r].row.start, id)
        /\ req[r].row.broker = appts[id].broker
    BY <1>1, <2>1 DEF ShowingInv, Rechecked
  <2>3. appts'[id].broker = req[r].broker
    BY <1>3, <2>2, DirtyCases
  <2> QED BY <1>1, <1>3, <2>1, <2>2, <2>3, NoNewClash DEF ShowingInv, ExclusiveUnlessOvertaken
<1> QED BY <1>5, <1>6, <1>7, <1>8, <1>9 DEF ShowingInv
-----------------------------------------------------------------------------
LEMMA BookingBegins ==
  ASSUME ShowingInv, TypeOK', NEW r \in Requests, NEW a \in Appts, NEW h \in Homes,
         NEW t \in StartTimes, BeginBook(r, a, h, t)
  PROVE  ShowingInv'
<1>1. /\ \A s \in Requests : s # r => req'[s] = req[s]
      /\ req'[r].pc = "home" /\ req'[r].op = "book" /\ req'[r].id = a
      /\ req'[r].row.status = "requested" /\ req'[r].row.broker = NoBroker
      /\ UNCHANGED <<appts, trail, lost, tainted, overtaken>>
      /\ appts[a].status = "absent"
      /\ \A s \in Requests : ~(req[s].pc # "idle" /\ req[s].id = a)
  BY DEF BeginBook, Unwritten, ShowingInv, TypeOK
<1>2. Loaded(r)' /\ Rechecked(r)'
  BY <1>1 DEF Loaded, Rechecked
<1>3. Reserved'
  BY <1>1 DEF ShowingInv, Reserved
<1> QED BY <1>1, <1>2, <1>3, ReadOnlyStep

LEMMA BrokerActs ==
  ASSUME ShowingInv, TypeOK', NEW r \in Requests, NEW op \in Buttons, NEW a \in Appts,
         NEW b \in Brokers, BeginBroker(r, op, a, b)
  PROVE  ShowingInv'
<1>1. /\ \A s \in Requests : s # r => req'[s] = req[s]
      /\ req'[r].pc = (IF op = "confirm" THEN "home" ELSE "write")
      /\ req'[r].op = op /\ req'[r].id = a
      /\ req'[r].row = appts[a] /\ req'[r].broker = b
      /\ UNCHANGED <<appts, trail, lost, tainted, overtaken>>
      /\ appts[a].status # "absent"
  BY DEF BeginBroker, Unwritten, ShowingInv, TypeOK
<1>2. op \in {"confirm", "decline", "complete"}
  BY SetsAssumption
<1>3. Loaded(r)' /\ Rechecked(r)'
  BY <1>1, <1>2 DEF Loaded, Rechecked
<1>4. Reserved'
  <2>1. \A s \in Requests :
          req[s].op = "book" /\ req[s].pc \in {"home", "validate", "write"} =>
            req[s].id # a
    BY <1>1 DEF ShowingInv, Loaded
  <2> QED BY <1>1, <1>2, <2>1 DEF ShowingInv, Reserved
<1> QED BY <1>1, <1>3, <1>4, ReadOnlyStep

\* The three reads: what the request finds is what it goes on knowing.
LEMMA Rechecking ==
  ASSUME ShowingInv, TypeOK', NEW r \in Requests,
         CheckHome(r) \/ CheckBroker(r) \/ Validate(r)
  PROVE  ShowingInv'
<1>1. CASE Finish(r)
  BY <1>1, FinishKeeps DEF CheckHome, CheckBroker, Validate, Unwritten
<1>2. CASE \E pc \in {"broker", "validate", "write"} : Goto(r, pc)
  <2>1. PICK pc \in {"broker", "validate", "write"} : Goto(r, pc)
    BY <1>2
  <2>2. /\ \A s \in Requests : s # r => req'[s] = req[s]
        /\ req'[r].pc = pc /\ req'[r].op = req[r].op /\ req'[r].id = req[r].id
        /\ req'[r].row = req[r].row /\ req'[r].broker = req[r].broker
        /\ req[r].pc \in {"home", "broker", "validate"}
    BY <2>1, GotoType DEF CheckHome, CheckBroker, Validate, ShowingInv, Steps
  <2>3. /\ UNCHANGED <<appts, tainted>>
        /\ \A s \in Requests \ {r} : s \notin overtaken' => s \notin overtaken
    BY DEF CheckHome, CheckBroker, Validate, Finish, Unwritten
  <2>4. Reserved'
    <3>1. req[r].pc = "broker" => req[r].op = "confirm"
      BY DEF ShowingInv, Loaded
    <3> QED BY <2>2, <3>1, ReservedKept
  <2>5. Loaded(r)' /\ (r \notin overtaken' => Rechecked(r)')
    <3>1. Loaded(r) /\ (r \notin overtaken => Rechecked(r))
      BY DEF ShowingInv
    <3>2. HomeFree(req[r].row.home, req[r].row.start, req[r].id)' <=>
            HomeFree(req[r].row.home, req[r].row.start, req[r].id)
      BY <2>2, <2>3 DEF HomeFree, Active
    <3>3. BrokerFree(req[r].broker, req[r].row.start, req[r].id)' <=>
            BrokerFree(req[r].broker, req[r].row.start, req[r].id)
      BY <2>2, <2>3 DEF BrokerFree, Active
    <3>4. CASE CheckHome(r)
      <4>1. CASE Finish(r)
        BY <4>1, <2>2, FinishType, IdleType DEF ShowingInv
      <4>2. CASE /\ Goto(r, IF req[r].op = "book" THEN "validate" ELSE "broker")
                 /\ HomeFree(req[r].row.home, req[r].row.start, req[r].id)
                 /\ UNCHANGED overtaken
        <5>1. req'[r].pc = IF req[r].op = "book" THEN "validate" ELSE "broker"
          BY <4>2, GotoType DEF ShowingInv, Steps
        <5> QED BY <3>4, <4>2, <5>1, <2>2, <2>3, <3>1, <3>2 DEF CheckHome, Loaded, Rechecked
      <4> QED BY <3>4, <4>1, <4>2 DEF CheckHome
    <3>5. CASE CheckBroker(r)
      <4>1. CASE Finish(r)
        BY <4>1, <2>2, FinishType, IdleType DEF ShowingInv
      <4>2. CASE /\ Goto(r, "write")
                 /\ BrokerFree(req[r].broker, req[r].row.start, req[r].id)
                 /\ UNCHANGED overtaken
        <5>1. req'[r].pc = "write"
          BY <4>2, GotoType DEF ShowingInv, Steps
        <5> QED BY <3>5, <4>2, <5>1, <2>2, <2>3, <3>1, <3>2, <3>3
            DEF CheckBroker, Loaded, Rechecked
      <4> QED BY <3>5, <4>1, <4>2 DEF CheckBroker
    <3>6. CASE Validate(r)
      <4>1. CASE Finish(r)
        BY <4>1, <2>2, FinishType, IdleType DEF ShowingInv
      <4>2. CASE /\ Goto(r, "write")
                 /\ HomeFree(req[r].row.home, req[r].row.start, req[r].id)
        <5>1. req'[r].pc = "write"
          BY <4>2, GotoType DEF ShowingInv, Steps
        <5> QED BY <3>6, <4>2, <5>1, <2>2, <2>3, <3>1, <3>2 DEF Validate, Loaded, Rechecked
      <4> QED BY <3>6, <4>1, <4>2 DEF Validate
    <3> QED BY <3>4, <3>5, <3>6
  <2> QED BY <2>2, <2>3, <2>4, <2>5, ReadOnlyStep
<1> QED BY <1>1, <1>2 DEF CheckHome, CheckBroker, Validate

LEMMA ShowingStep == ShowingInv /\ TypeOK' /\ [Next]_vars => ShowingInv'
<1> SUFFICES ASSUME ShowingInv, TypeOK', [Next]_vars PROVE ShowingInv'
  OBVIOUS
<1>1. ASSUME NEW r \in Requests, WriteAudit(r) \/ Crash(r) PROVE ShowingInv'
  BY <1>1, FinishKeeps DEF WriteAudit, Crash, Unwritten
<1>2. CASE UNCHANGED vars
  <2>1. \A s \in Requests : Loaded(s)' /\ (s \notin overtaken' => Rechecked(s)')
    BY <1>2, Untouched DEF vars, ShowingInv
  <2> QED BY <1>2, <2>1 DEF vars, ShowingInv, Reserved, ExclusiveUnlessOvertaken,
                          HomeExclusive, BrokerExclusive, Clash, Active
<1> QED BY <1>1, <1>2, BookingBegins, BrokerActs, Rechecking, Booking, Confirming,
           ClosingAShowing DEF Next

LEMMA ShowingInit == Init => ShowingInv
<1> SUFFICES ASSUME Init PROVE ShowingInv
  OBVIOUS
<1>1. TypeOK
  BY IdleType, AbsentRowType DEF Init, TypeOK
<1>2. \A r \in Requests : req[r].pc = "idle"
  BY IdleType DEF Init
<1>3. \A a \in Appts : ~Active(a)
  BY DEF Init, Active, AbsentRow, ActiveStatus
<1> QED BY <1>1, <1>2, <1>3 DEF ShowingInv, Loaded, Rechecked, Reserved,
            ExclusiveUnlessOvertaken, HomeExclusive, BrokerExclusive, Clash

THEOREM ShowingInvariant == Spec => []ShowingInv
<1>1. ShowingInv => TypeOK
  BY DEF ShowingInv
<1> QED BY <1>1, TypeCorrect, ShowingInit, ShowingStep, PTL DEF Spec

\* However many requests race, a double booking always comes from a request
\* that another one overtook between its re-check and its write.
THEOREM ExclusiveUnlessOvertakenHolds == Spec => []ExclusiveUnlessOvertaken
<1>1. ShowingInv => ExclusiveUnlessOvertaken
  BY DEF ShowingInv
<1> QED BY <1>1, ShowingInvariant, PTL

\* Served one at a time, crashes included, requests never double-book a
\* property or a broker.
THEOREM SerialExclusive ==
  ASSUME \A r, s \in Requests : r = s
  PROVE  Spec => [](HomeExclusive /\ BrokerExclusive)
<1> DEFINE Alone == overtaken = {} /\ ~tainted
<1>1. Init => Alone
  BY DEF Init
<1>2. TypeOK /\ Alone /\ [Next]_vars => Alone'
  <2> SUFFICES ASSUME TypeOK, Alone, [Next]_vars PROVE Alone'
    OBVIOUS
  <2>1. \A r \in Requests : Occupies(r) => Alone'
    BY DEF Occupies, Deciding
  <2>2. \A r \in Requests : Finish(r) /\ UNCHANGED tainted => Alone'
    BY DEF Finish
  <2>3. ASSUME NEW r \in Requests, InsertRequested(r) \/ UpdateConfirmed(r) PROVE Alone'
    BY <2>1, <2>3 DEF InsertRequested, UpdateConfirmed
  <2>4. ASSUME NEW r \in Requests, WriteAudit(r) \/ Crash(r) PROVE Alone'
    BY <2>2, <2>4 DEF WriteAudit, Crash, Unwritten
  <2>5. ASSUME NEW r \in Requests, CheckHome(r) \/ CheckBroker(r) \/ Validate(r)
        PROVE Alone'
    BY <2>2, <2>5 DEF CheckHome, CheckBroker, Validate, Unwritten
  <2>6. ASSUME NEW r \in Requests, UpdateClosed(r) PROVE Alone'
    BY <2>6 DEF UpdateClosed
  <2>7. ASSUME NEW r \in Requests, NEW a \in Appts,
               \/ \E h \in Homes, t \in StartTimes : BeginBook(r, a, h, t)
               \/ \E op \in Buttons, b \in Brokers : BeginBroker(r, op, a, b)
        PROVE Alone'
    BY <2>7 DEF BeginBook, BeginBroker, Unwritten
  <2> QED BY <2>3, <2>4, <2>5, <2>6, <2>7 DEF Next, vars
<1>3. ExclusiveUnlessOvertaken /\ Alone => HomeExclusive /\ BrokerExclusive
  BY DEF ExclusiveUnlessOvertaken
<1> QED BY <1>1, <1>2, <1>3, TypeCorrect, ExclusiveUnlessOvertakenHolds, PTL DEF Spec
-----------------------------------------------------------------------------
\* The status of a row is on record, or in the hands of a request that has
\* just written it and is about to audit it.
Covered(a, status) ==
  \/ status \in trail[a] \cup lost[a]
  \/ \E r \in Requests : /\ req[r].pc = "audit" /\ req[r].id = a
                         /\ Outcome(req[r].op) = status

StatusCovered ==
  \A a \in Appts : appts[a].status # "absent" => Covered(a, appts[a].status)

\* What is covered stays so, as long as the request that steps does not let go
\* of an audit it has not written or lost.
LEMMA CoveredKept ==
  ASSUME NEW r \in Requests, NEW a \in Appts, NEW status, Covered(a, status),
         \A s \in Requests : s # r => req'[s] = req[s],
         trail[a] \subseteq trail'[a], lost[a] \subseteq lost'[a],
         req[r].pc = "audit" /\ req[r].id = a =>
           Outcome(req[r].op) \in trail'[a] \cup lost'[a]
  PROVE  Covered(a, status)'
<1>1. CASE status \in trail[a] \cup lost[a]
  BY <1>1 DEF Covered
<1>2. CASE \E s \in Requests : /\ req[s].pc = "audit" /\ req[s].id = a
                               /\ Outcome(req[s].op) = status
  <2>1. PICK s \in Requests : /\ req[s].pc = "audit" /\ req[s].id = a
                              /\ Outcome(req[s].op) = status
    BY <1>2
  <2>2. CASE s = r
    BY <2>1, <2>2 DEF Covered
  <2>3. CASE s # r
    BY <2>1, <2>3 DEF Covered
  <2> QED BY <2>2, <2>3
<1> QED BY <1>1, <1>2 DEF Covered

\* A step that leaves the table alone: the request that takes it was not
\* about to audit.
LEMMA QuietStep ==
  ASSUME TypeOK, StatusCovered, NEW r \in Requests, req[r].pc # "audit",
         \A s \in Requests : s # r => req'[s] = req[s],
         UNCHANGED <<appts, trail, lost>>
  PROVE  StatusCovered'
BY CoveredKept DEF StatusCovered

\* A request that writes a row and goes on to audit it covers what it wrote;
\* where a partial update wrote nothing, the status was covered before.
LEMMA WritingStep ==
  ASSUME TypeOK, StatusCovered, NEW r \in Requests, req[r].pc # "audit",
         Goto(r, "audit"), UNCHANGED <<trail, lost>>,
         \A a \in Appts \ {req[r].id} : appts'[a] = appts[a],
         appts'[req[r].id].status \in {appts[req[r].id].status, Outcome(req[r].op)}
  PROVE  StatusCovered'
<1>1. /\ \A s \in Requests : s # r => req'[s] = req[s]
      /\ req'[r].pc = "audit" /\ req'[r].op = req[r].op /\ req'[r].id = req[r].id
  BY GotoType DEF Steps
<1>2. SUFFICES ASSUME NEW a \in Appts, appts'[a].status # "absent"
               PROVE Covered(a, appts[a].status)'
  BY DEF StatusCovered
<1>3. CASE appts'[a].status = appts[a].status
  <2>1. Covered(a, appts[a].status)
    BY <1>2, <1>3 DEF StatusCovered
  <2>2. PICK status : status = appts[a].status
    OBVIOUS
  <2>3. Covered(a, status)'
    BY <1>1, <2>1, <2>2, CoveredKept
  <2> QED BY <1>3, <2>2, <2>3 DEF Covered
<1>4. CASE a = req[r].id /\ appts'[a].status = Outcome(req[r].op)
  BY <1>1, <1>4 DEF Covered
<1> QED BY <1>3, <1>4

\* The audit is written, or dies with its worker and is on record as lost.
LEMMA RecordingStep ==
  ASSUME TypeOK, StatusCovered, NEW r \in Requests, WriteAudit(r) \/ Crash(r)
  PROVE  StatusCovered'
<1>1. /\ \A s \in Requests : s # r => req'[s] = req[s]
      /\ UNCHANGED appts
  BY FinishType DEF WriteAudit, Crash
<1>2. \A a \in Appts :
        /\ trail[a] \subseteq trail'[a] /\ lost[a] \subseteq lost'[a]
        /\ req[r].pc = "audit" /\ req[r].id = a =>
             Outcome(req[r].op) \in trail'[a] \cup lost'[a]
  BY DEF WriteAudit, Crash, TypeOK, Request
<1> QED BY <1>1, <1>2, CoveredKept DEF StatusCovered

LEMMA CoveredStep == ShowingInv /\ StatusCovered /\ [Next]_vars => StatusCovered'
<1> SUFFICES ASSUME ShowingInv, StatusCovered, [Next]_vars PROVE StatusCovered'
  OBVIOUS
<1> USE DEF ShowingInv
<1>1. ASSUME NEW r \in Requests, NEW a \in Appts,
             \/ \E h \in Homes, t \in StartTimes : BeginBook(r, a, h, t)
             \/ \E op \in Buttons, b \in Brokers : BeginBroker(r, op, a, b)
      PROVE StatusCovered'
  BY <1>1, QuietStep DEF BeginBook, BeginBroker, Unwritten, TypeOK
<1>2. ASSUME NEW r \in Requests, CheckHome(r) \/ CheckBroker(r) \/ Validate(r)
      PROVE StatusCovered'
  <2>1. req[r].pc # "audit" /\ UNCHANGED <<appts, trail, lost>>
    BY <1>2 DEF CheckHome, CheckBroker, Validate, Unwritten
  <2>2. Finish(r) \/ \E pc \in Steps : Goto(r, pc)
    BY <1>2 DEF CheckHome, CheckBroker, Validate, Steps
  <2>3. \A s \in Requests : s # r => req'[s] = req[s]
    BY <2>2, FinishType, GotoType
  <2> QED BY <2>1, <2>3, QuietStep
<1>3. ASSUME NEW r \in Requests, InsertRequested(r) PROVE StatusCovered'
  <2>1. /\ req[r].pc # "audit" /\ Goto(r, "audit") /\ UNCHANGED <<trail, lost>>
        /\ req[r].id \in Appts /\ req[r].op = "book" /\ req[r].row.status = "requested"
    BY <1>3 DEF InsertRequested, Loaded, TypeOK, Request
  <2>2. /\ \A a \in Appts \ {req[r].id} : appts'[a] = appts[a]
        /\ appts'[req[r].id].status = Outcome(req[r].op)
    BY <1>3, <2>1 DEF InsertRequested, TypeOK, Outcome
  <2> QED BY <2>1, <2>2, WritingStep
<1>4. ASSUME NEW r \in Requests, UpdateConfirmed(r) PROVE StatusCovered'
  <2>1. /\ req[r].pc # "audit" /\ Goto(r, "audit") /\ UNCHANGED <<trail, lost>>
        /\ req[r].id \in Appts /\ Outcome(req[r].op) = "confirmed"
    BY <1>4 DEF UpdateConfirmed, TypeOK, Request, Outcome
  <2>2. /\ \A a \in Appts \ {req[r].id} : appts'[a] = appts[a]
        /\ appts'[req[r].id].status
             = Dirty(appts[req[r].id].status, req[r].row.status, "confirmed")
    BY <1>4, <2>1 DEF UpdateConfirmed, TypeOK
  <2>3. appts'[req[r].id].status \in {appts[req[r].id].status, Outcome(req[r].op)}
    BY <2>1, <2>2, DirtyCases
  <2> QED BY <2>1, <2>2, <2>3, WritingStep
<1>5. ASSUME NEW r \in Requests, UpdateClosed(r) PROVE StatusCovered'
  <2>1. /\ req[r].pc # "audit" /\ Goto(r, "audit") /\ UNCHANGED <<trail, lost>>
        /\ req[r].id \in Appts
    BY <1>5 DEF UpdateClosed, TypeOK, Request
  <2>2. /\ \A a \in Appts \ {req[r].id} : appts'[a] = appts[a]
        /\ appts'[req[r].id].status
             = Dirty(appts[req[r].id].status, req[r].row.status, Outcome(req[r].op))
    BY <1>5, <2>1 DEF UpdateClosed, TypeOK, Appt
  <2>3. appts'[req[r].id].status \in {appts[req[r].id].status, Outcome(req[r].op)}
    BY <2>2, DirtyCases
  <2> QED BY <2>1, <2>2, <2>3, WritingStep
<1>6. CASE UNCHANGED vars
  BY <1>6 DEF vars, StatusCovered, Covered
<1> QED BY <1>1, <1>2, <1>3, <1>4, <1>5, <1>6, RecordingStep DEF Next

\* When no request is in flight the last status of every row has been audited,
\* or its audit died with the worker that wrote it, however many handlers raced
\* and whatever each had loaded (appointments_controller.rb:19-38).
THEOREM StatusAuditedHolds == Spec => []StatusAudited
<1>1. Init => StatusCovered
  BY DEF Init, StatusCovered, AbsentRow
<1>2. StatusCovered => StatusAudited
  BY DEF StatusCovered, Covered, StatusAudited
<1> QED BY <1>1, <1>2, ShowingInvariant, CoveredStep, PTL DEF Spec
-----------------------------------------------------------------------------
(* The slots that are offered.                                             *)

\* Where in the horizon a candidate slot is.
LEMMA CandidatePlace ==
  ASSUME NEW now \in Nat, NEW midnight, midnight = now - (now % DayLength),
         NEW t \in CandidateSlots(now)
  PROVE  /\ midnight \in Int /\ t \in Int /\ t > now
         /\ \E d \in 0 .. HorizonDays - 1, k \in 0 .. DayClose :
              /\ t = midnight + d * DayLength + DayOpen + k * SlotLength
              /\ t + SlotLength <= midnight + d * DayLength + DayClose
<1>1. now % DayLength \in Int /\ midnight \in Int
  BY ClockAssumption
<1>2. PICK d \in 0 .. HorizonDays - 1 : t \in SlotsOfDay(midnight + d * DayLength) /\ t > now
  BY DEF CandidateSlots
<1>3. d * DayLength \in Int /\ SlotLength \in Int /\ DayOpen \in Int /\ DayClose \in Int
  BY ClockAssumption
<1>4. PICK k \in 0 .. DayClose :
        /\ t = midnight + d * DayLength + DayOpen + k * SlotLength
        /\ t + SlotLength <= midnight + d * DayLength + DayClose
  BY <1>2 DEF SlotsOfDay
<1>5. k * SlotLength \in Int
  BY ClockAssumption
<1> QED BY <1>1, <1>2, <1>3, <1>4, <1>5

LEMMA CandidatesFinite ==
  ASSUME NEW now \in Nat
  PROVE  CandidateSlots(now) \in SUBSET Int /\ IsFiniteSet(CandidateSlots(now))
<1> DEFINE midnight == now - (now % DayLength)
           end == midnight + HorizonDays * DayLength + DayClose
<1> HIDE DEF midnight
<1>1. midnight \in Int
  BY ClockAssumption DEF midnight
<1>2. end \in Int
  BY <1>1, ClockAssumption
<1>3. CandidateSlots(now) \subseteq now .. end
  <2> SUFFICES ASSUME NEW t \in CandidateSlots(now) PROVE t \in now .. end
    OBVIOUS
  <2>1. /\ t \in Int /\ t > now
        /\ \E d \in 0 .. HorizonDays - 1 :
             t + SlotLength <= midnight + d * DayLength + DayClose
    BY CandidatePlace DEF midnight
  <2>2. PICK d \in 0 .. HorizonDays - 1 :
          t + SlotLength <= midnight + d * DayLength + DayClose
    BY <2>1
  <2>3. d \in Nat /\ HorizonDays \in Nat /\ d < HorizonDays /\ DayLength \in Nat /\ SlotLength \in Nat
        /\ DayClose \in Nat
    BY ClockAssumption
  <2>4. d * DayLength + DayLength <= HorizonDays * DayLength
    BY <2>3, Multiples
  <2>5. d * DayLength \in Int /\ HorizonDays * DayLength \in Int
    BY <2>3
  <2> QED BY <1>1, <2>1, <2>2, <2>3, <2>4, <2>5
<1>4. now .. end \in SUBSET Int /\ IsFiniteSet(now .. end)
  <2> HIDE DEF end
  <2> QED BY <1>2, FS_Interval
<1> HIDE DEF end
<1> QED BY <1>3, <1>4, FS_Subset

\* Two candidates of one day are a whole number of slots apart, those of two
\* days have a night between them.
LEMMA CandidatesApart ==
  ASSUME NEW now \in Nat, NEW t \in CandidateSlots(now), NEW u \in CandidateSlots(now), t # u
  PROVE  ~Overlaps(t, u)
<1> DEFINE midnight == now - (now % DayLength)
<1> HIDE DEF midnight
<1>1. midnight \in Int /\ t \in Int /\ u \in Int
  BY CandidatePlace DEF midnight
<1>2. SlotLength \in Nat /\ DayLength \in Nat /\ DayOpen \in Nat /\ DayClose \in Nat
      /\ DayClose <= DayLength
  BY ClockAssumption
<1>3. PICK d \in Nat, k \in Nat :
        /\ t = midnight + d * DayLength + DayOpen + k * SlotLength
        /\ t + SlotLength <= midnight + d * DayLength + DayClose
  BY CandidatePlace, ClockAssumption DEF midnight
<1>4. PICK e \in Nat, l \in Nat :
        /\ u = midnight + e * DayLength + DayOpen + l * SlotLength
        /\ u + SlotLength <= midnight + e * DayLength + DayClose
  BY CandidatePlace, ClockAssumption DEF midnight
<1>5. d * DayLength \in Int /\ e * DayLength \in Int /\ k * SlotLength \in Nat /\ l * SlotLength \in Nat
  BY <1>2
<1>6. SUFFICES t + SlotLength <= u \/ u + SlotLength <= t
  BY <1>1, <1>2 DEF Overlaps
<1>7. CASE d < e
  <2>1. d * DayLength + DayLength <= e * DayLength
    BY <1>2, <1>7, Multiples
  <2> QED BY <1>1, <1>2, <1>3, <1>4, <1>5, <2>1
<1>8. CASE e < d
  <2>1. e * DayLength + DayLength <= d * DayLength
    BY <1>2, <1>8, Multiples
  <2> QED BY <1>1, <1>2, <1>3, <1>4, <1>5, <2>1
<1>9. CASE d = e
  <2>1. k # l
    BY <1>3, <1>4, <1>9
  <2>2. k * SlotLength + SlotLength <= l * SlotLength \/ l * SlotLength + SlotLength <= k * SlotLength
    BY <1>2, <2>1, Multiples
  <2> QED BY <1>1, <1>2, <1>3, <1>4, <1>5, <1>9, <2>2
<1> QED BY <1>7, <1>8, <1>9

\* However the table looks, what the availability page offers can be booked.
THEOREM OffersAreBookable == Spec => []OfferedSlotsBookable
<1>1. TypeOK => OfferedSlotsBookable
  <2> SUFFICES ASSUME TypeOK, NEW h \in Homes, NEW now \in 0 .. DayLength - 1
               PROVE  /\ Cardinality(AvailableSlots(h, now)) <= MaxSlots
                      /\ \A t \in AvailableSlots(h, now) :
                           /\ t > now
                           /\ \A a \in Appts :
                                Active(a) /\ appts[a].home = h => ~Overlaps(t, appts[a].start)
                           /\ \A u \in AvailableSlots(h, now) \ {t} : ~Overlaps(t, u)
    BY DEF OfferedSlotsBookable
  <2>1. now \in Nat /\ MaxSlots \in Nat \ {0}
    BY ClockAssumption
  <2>2. /\ FreeCandidates(h, now) \subseteq CandidateSlots(now)
        /\ AvailableSlots(h, now) \subseteq FreeCandidates(h, now)
    BY DEF FreeCandidates, AvailableSlots
  <2>3. FreeCandidates(h, now) \in SUBSET Int /\ IsFiniteSet(FreeCandidates(h, now))
    BY <2>1, <2>2, CandidatesFinite, FS_Subset
  <2>4. Cardinality(AvailableSlots(h, now)) <= MaxSlots
    BY <2>1, <2>3, FirstFew DEF AvailableSlots
  <2>5. \A t \in AvailableSlots(h, now) : t > now
    BY <2>1, <2>2, CandidatePlace
  <2>6. ASSUME NEW t \in AvailableSlots(h, now), NEW a \in Appts, Active(a), appts[a].home = h
        PROVE  ~Overlaps(t, appts[a].start)
    <3>1. ~Overlaps(appts[a].start, t)
      BY <2>2, <2>6 DEF FreeCandidates
    <3>2. appts[a].start \in Nat /\ t \in Int /\ SlotLength \in Nat
      BY <2>2, <2>3, SetsAssumption, ClockAssumption DEF TypeOK, Appt
    <3> QED BY <3>1, <3>2 DEF Overlaps
  <2>7. \A t \in AvailableSlots(h, now), u \in AvailableSlots(h, now) : t # u => ~Overlaps(t, u)
    BY <2>1, <2>2, CandidatesApart
  <2> QED BY <2>4, <2>5, <2>6, <2>7
<1> QED BY <1>1, TypeCorrect, PTL
=============================================================================
