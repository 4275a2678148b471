------------------------------ MODULE Showings ------------------------------
(***************************************************************************)
(* Dynamic scheduling in the Rails domain service: buyers request showings *)
(* (Buyer::ShowingsController#create), brokers confirm, decline or         *)
(* complete them (Broker::AppointmentsController), and                     *)
(* ShowingScheduler decides which slots are free.                          *)
(*                                                                         *)
(* Each puma thread serving one of these requests is an element of         *)
(* Requests.  Its steps are the SQL statements the handler issues: the     *)
(* load, the two re-check queries, the model validation, the write and the *)
(* audit insert.  PostgreSQL runs them READ COMMITTED and no lock or       *)
(* constraint ties a re-check to the write that follows it.                *)
(***************************************************************************)
EXTENDS Integers, FiniteSets

CONSTANTS
  Homes,        \* browsable listings
  Brokers,      \* broker e-mail addresses
  Appts,        \* ids of appointment rows
  Requests,     \* puma threads
  StartTimes,   \* instants a visitor may submit as starts_at
  SlotLength,   \* SLOT_MINUTES
  DayLength, DayOpen, DayClose,   \* a day, its first and last business instant
  HorizonDays,  \* HORIZON_DAYS
  MaxSlots,     \* MAX_SLOTS
  NoBroker,     \* broker_email is nil
  Buttons,      \* broker actions in use (no page has a button for "complete")
  Mortal,       \* threads whose worker may die in the middle of a request
  MaxLost       \* bound: audit rows that are lost that way

ASSUME SetsAssumption ==
  /\ Homes # {} /\ Appts # {} /\ StartTimes # {}
  /\ StartTimes \subseteq Nat
  /\ NoBroker \notin Brokers
  /\ Buttons \subseteq {"confirm", "decline", "complete"}
ASSUME ClockAssumption ==
  /\ {SlotLength, DayLength, HorizonDays, MaxSlots} \subseteq Nat \ {0}
  /\ DayOpen \in Nat /\ DayClose \in 0 .. DayLength
ASSUME MortalAssumption == Mortal \subseteq Requests /\ MaxLost \in Nat

VARIABLES
  appts,      \* appts[a]: the appointments row with id a
  trail,      \* trail[a]: the transitions audited for a
  req,        \* req[r]: the request thread r is serving
  lost,       \* history: lost[a]: transitions whose worker died before auditing them
  overtaken,  \* history: requests whose re-check no longer describes the table
  tainted     \* history: such a request has written an active row

vars == <<appts, trail, req, lost, overtaken, tainted>>

ActiveStatus == {"requested", "confirmed"}
Status == ActiveStatus \cup {"declined", "completed"}

Appt == [status : Status \cup {"absent"}, home : Homes, start : StartTimes,
         broker : Brokers \cup {NoBroker}]

(* pc: what the thread does next                                           *)
(*   home      slot_free?, the property query                              *)
(*   broker    slot_free?, the broker query                                *)
(*   validate  no_active_double_booking, on create only                    *)
(*   write     the INSERT or UPDATE                                        *)
(*   audit     AuditEvent.record_rail_trip                                 *)
Steps == {"idle", "home", "broker", "validate", "write", "audit"}
Ops == {"book", "confirm", "decline", "complete"}

\* row: the appointment object the handler holds, as it was loaded or built.
Request == [pc : Steps, op : Ops, id : Appts, row : Appt,
            broker : Brokers \cup {NoBroker}]

TypeOK ==
  /\ appts \in [Appts -> Appt]
  /\ trail \in [Appts -> SUBSET Status] /\ lost \in [Appts -> SUBSET Status]
  /\ req \in [Requests -> Request]
  /\ overtaken \in SUBSET Requests
  /\ tainted \in BOOLEAN

AbsentRow ==
  [status |-> "absent", home |-> CHOOSE h \in Homes : TRUE,
   start |-> CHOOSE t \in StartTimes : TRUE, broker |-> NoBroker]

Idle == [pc |-> "idle", op |-> "book", id |-> CHOOSE a \in Appts : TRUE,
         row |-> AbsentRow, broker |-> NoBroker]

Init ==
  /\ appts = [a \in Appts |-> AbsentRow]
  /\ trail = [a \in Appts |-> {}] /\ lost = trail
  /\ req = [r \in Requests |-> Idle]
  /\ overtaken = {}
  /\ tainted = FALSE
-----------------------------------------------------------------------------
Active(a) == appts[a].status \in ActiveStatus

\* Half-open slots of SlotLength: touching endpoints do not overlap.
Overlaps(s, t) == s < t + SlotLength /\ s + SlotLength > t

\* Mutant of HomeFree: a requested showing does not hold its slot.
HomeFreeConfirmedOnly(h, t, except) ==
  \A a \in Appts \ {except} :
    appts[a].status = "confirmed" /\ appts[a].home = h => ~Overlaps(appts[a].start, t)

\* The property half of slot_free?, and of no_active_double_booking; `except`
\* is the row a confirm excludes (a booking's own row does not exist yet).
HomeFree(h, t, except) ==
  \A a \in Appts \ {except} :
    Active(a) /\ appts[a].home = h => ~Overlaps(appts[a].start, t)

\* The broker half of slot_free?.
BrokerFree(b, t, except) ==
  \A a \in Appts \ {except} :
    Active(a) /\ appts[a].broker = b => ~Overlaps(appts[a].start, t)

Goto(r, pc) == req' = [req EXCEPT ![r].pc = pc]

Finish(r) ==
  /\ req' = [req EXCEPT ![r] = Idle]
  /\ overtaken' = overtaken \ {r}

Unwritten == UNCHANGED <<appts, trail, lost, tainted>>

-----------------------------------------------------------------------------
\* POST showings: the row it would insert, an id no other thread is using.
\* Nothing checks that the instant is on the slot grid or in the future.
BeginBook(r, a, h, t) ==
  /\ req[r].pc = "idle"
  /\ appts[a].status = "absent"
  /\ \A s \in Requests : ~(req[s].pc # "idle" /\ req[s].id = a)
  /\ req' = [req EXCEPT ![r] =
       [pc |-> "home", op |-> "book", id |-> a, broker |-> NoBroker,
        row |-> [status |-> "requested", home |-> h, start |-> t,
                 broker |-> NoBroker]]]
  /\ Unwritten /\ UNCHANGED overtaken

\* A broker's button, possibly pressed on a stale dashboard page: the handler
\* loads the row whatever has become of it.  Confirm re-checks; decline and
\* complete go straight to their update.
BeginBroker(r, op, a, b) ==
  /\ req[r].pc = "idle"
  /\ appts[a].status # "absent"
  /\ req' = [req EXCEPT ![r] =
       [pc |-> IF op = "confirm" THEN "home" ELSE "write",
        op |-> op, id |-> a, broker |-> b, row |-> appts[a]]]
  /\ Unwritten /\ UNCHANGED overtaken

\* Mutant of CheckHome: confirm re-checks the broker only.
CheckHomeBookOnly(r) ==
  /\ req[r].pc = "home"
  /\ IF req[r].op = "book" /\ ~HomeFree(req[r].row.home, req[r].row.start, req[r].id)
     THEN Finish(r)
     ELSE /\ Goto(r, IF req[r].op = "book" THEN "validate" ELSE "broker")
          /\ UNCHANGED overtaken
  /\ Unwritten

\* slot_free?: the property query.  A busy slot ends the request (a refused
\* confirm also audits the conflict, which is not a transition).
CheckHome(r) ==
  /\ req[r].pc = "home"
  /\ \/ /\ HomeFree(req[r].row.home, req[r].row.start, req[r].id)
        /\ Goto(r, IF req[r].op = "book" THEN "validate" ELSE "broker")
        /\ UNCHANGED overtaken
     \/ /\ ~HomeFree(req[r].row.home, req[r].row.start, req[r].id)
        /\ Finish(r)
  /\ Unwritten

\* Mutant of CheckBroker: the broker query is not asked.
CheckBrokerNever(r) ==
  /\ req[r].pc = "broker"
  /\ Goto(r, "write")
  /\ UNCHANGED overtaken
  /\ Unwritten

\* slot_free?: the broker query, only on confirm.
CheckBroker(r) ==
  /\ req[r].pc = "broker"
  /\ \/ /\ BrokerFree(req[r].broker, req[r].row.start, req[r].id)
        /\ Goto(r, "write")
        /\ UNCHANGED overtaken
     \/ /\ ~BrokerFree(req[r].broker, req[r].row.start, req[r].id)
        /\ Finish(r)
  /\ Unwritten

\* save: validate :no_active_double_booking, on: :create.  It reads the table
\* afresh, so whatever overtook the first re-check is seen here.
Validate(r) ==
  /\ req[r].pc = "validate"
  /\ \/ /\ HomeFree(req[r].row.home, req[r].row.start, req[r].id)
        /\ Goto(r, "write")
        /\ overtaken' = overtaken \ {r}
     \/ /\ ~HomeFree(req[r].row.home, req[r].row.start, req[r].id)
        /\ Finish(r)
  /\ Unwritten

\* Requests that have read the table and are still to write to it.  A confirm
\* has read it once it has loaded its row: its partial update depends on that.
Deciding ==
  {s \in Requests : \/ req[s].pc \in {"broker", "validate", "write"}
                    \/ req[s].pc = "home" /\ req[s].op = "confirm"}

\* Record, for the properties, that r has written a row that may occupy a
\* slot: every other deciding request has been overtaken by it.
Occupies(r) ==
  /\ overtaken' = (overtaken \cup Deciding) \ {r}
  /\ tainted' = (tainted \/ r \in overtaken)

InsertRequested(r) ==
  /\ req[r].pc = "write" /\ req[r].op = "book"
  /\ appts' = [appts EXCEPT ![req[r].id] = req[r].row]
  /\ Goto(r, "audit")
  /\ Occupies(r)
  /\ UNCHANGED <<trail, lost>>

\* update!(attribute: new): only attributes that differ from the loaded
\* object are written, so the row keeps what others wrote to the rest.
Dirty(current, loaded, new) == IF loaded = new THEN current ELSE new

UpdateConfirmed(r) ==
  LET loaded == req[r].row
      now == appts[req[r].id]
  IN /\ req[r].pc = "write" /\ req[r].op = "confirm"
     /\ appts' = [appts EXCEPT ![req[r].id] =
          [status |-> Dirty(now.status, loaded.status, "confirmed"),
           home |-> now.home, start |-> now.start,
           broker |-> Dirty(now.broker, loaded.broker, req[r].broker)]]
     /\ Goto(r, "audit")
     /\ Occupies(r)
     /\ UNCHANGED <<trail, lost>>

Outcome(op) ==
  CASE op = "book" -> "requested"
    [] op = "confirm" -> "confirmed"
    [] op = "decline" -> "declined"
    [] op = "complete" -> "completed"

\* Mutant of UpdateClosed: the audit call is forgotten.
UpdateClosedUnaudited(r) ==
  /\ req[r].pc = "write" /\ req[r].op \in {"decline", "complete"}
  /\ appts' = [appts EXCEPT
       ![req[r].id].status = Dirty(@, req[r].row.status, Outcome(req[r].op))]
  /\ Finish(r)
  /\ UNCHANGED <<trail, lost, tainted>>

\* decline and complete look at nothing before they write.
UpdateClosed(r) ==
  /\ req[r].pc = "write" /\ req[r].op \in {"decline", "complete"}
  /\ appts' = [appts EXCEPT
       ![req[r].id].status = Dirty(@, req[r].row.status, Outcome(req[r].op))]
  /\ Goto(r, "audit")
  /\ UNCHANGED <<trail, lost, overtaken, tainted>>

WriteAudit(r) ==
  /\ req[r].pc = "audit"
  /\ trail' = [trail EXCEPT ![req[r].id] = @ \cup {Outcome(req[r].op)}]
  /\ Finish(r)
  /\ UNCHANGED <<appts, lost, tainted>>

LostAudits == {e \in Appts \X Status : e[2] \in lost[e[1]]}

\* The worker process dies; what it committed stays.
Crash(r) ==
  /\ r \in Mortal
  /\ req[r].pc # "idle"
  /\ req[r].pc = "audit" => Cardinality(LostAudits) < MaxLost
  /\ lost' = IF req[r].pc = "audit"
             THEN [lost EXCEPT ![req[r].id] = @ \cup {Outcome(req[r].op)}] ELSE lost
  /\ Finish(r)
  /\ UNCHANGED <<appts, trail, tainted>>

Next ==
  \E r \in Requests :
    \/ \E a \in Appts, h \in Homes, t \in StartTimes : BeginBook(r, a, h, t)
    \/ \E op \in Buttons, a \in Appts, b \in Brokers : BeginBroker(r, op, a, b)
    \/ CheckHome(r) \/ CheckBroker(r) \/ Validate(r)
    \/ InsertRequested(r) \/ UpdateConfirmed(r) \/ UpdateClosed(r)
    \/ WriteAudit(r)
    \/ Crash(r)

Spec == Init /\ [][Next]_vars
-----------------------------------------------------------------------------
\* One day of candidate_slots: whole slots, back to back, within business hours.
SlotsOfDay(midnight) ==
  {t \in {midnight + DayOpen + k * SlotLength : k \in 0 .. DayClose} :
     t + SlotLength <= midnight + DayClose}

\* candidate_slots: the slots of the horizon's days, strictly after now.
CandidateSlots(now) ==
  LET midnight == now - (now % DayLength)
  IN {t \in UNION {SlotsOfDay(midnight + d * DayLength) : d \in 0 .. HorizonDays - 1} : t > now}

\* Mutant of FreeCandidates: only an identical start collides.
FreeCandidatesSameStart(h, now) ==
  {t \in CandidateSlots(now) :
     \A a \in Appts : Active(a) /\ appts[a].home = h => appts[a].start # t}

FreeCandidates(h, now) ==
  {t \in CandidateSlots(now) :
     \A a \in Appts : Active(a) /\ appts[a].home = h => ~Overlaps(appts[a].start, t)}

\* available_slots: the first MAX_SLOTS free candidates, in time order.
AvailableSlots(h, now) ==
  LET free == FreeCandidates(h, now)
  IN {t \in free : Cardinality({u \in free : u < t}) < MaxSlots}
-----------------------------------------------------------------------------
\* Two active showings that would occupy the same calendar at the same time.
Clash(a, c) ==
  a # c /\ Active(a) /\ Active(c) /\ Overlaps(appts[a].start, appts[c].start)

\* Two active showings never overlap on a property (appointment.rb:3-6, and
\* appointment.rb:23-26 "a concurrent double-book is rejected at save").
HomeExclusive == \A a, c \in Appts : Clash(a, c) => appts[a].home # appts[c].home

\* "so a broker is never double-booked across properties"
\* (appointments_controller.rb:3-5).
BrokerExclusive ==
  \A a, c \in Appts : Clash(a, c) =>
    appts[a].broker # appts[c].broker \/ appts[a].broker = NoBroker

\* A double booking always comes from a request that wrote after another
\* request had overtaken its re-check: the checks themselves miss nothing,
\* stale pages and re-confirmed declined rows included
\* (showing_scheduler.rb:47-61, appointment.rb:60-73).
ExclusiveUnlessOvertaken == tainted \/ (HomeExclusive /\ BrokerExclusive)

\* "Every transition is written to the append-only audit log" (domain
\* README.md:173-174): when no request is in flight the status every row ended
\* up with has been audited, whichever of the racing handlers wrote it and
\* whatever partial update Rails made of it, unless the worker that made this
\* very transition died before it could (showings_controller.rb:29-33,
\* appointments_controller.rb:19-38).
StatusAudited ==
  (\A r \in Requests : req[r].pc = "idle") =>
    \A a \in Appts : appts[a].status # "absent" => appts[a].status \in trail[a] \cup lost[a]

\* Whenever the availability page is rendered (any instant of a day), the
\* slots it offers can all be booked: none has started, none overlaps an active
\* showing however that showing is aligned, and booking one leaves the others
\* bookable (showing_scheduler.rb:24-41 and 73-90 against 47-61).
OfferedSlotsBookable ==
  \A h \in Homes, now \in 0 .. DayLength - 1 :
    LET offered == AvailableSlots(h, now) IN
    /\ Cardinality(offered) <= MaxSlots
    /\ \A t \in offered :
         /\ t > now
         /\ \A a \in Appts :
              Active(a) /\ appts[a].home = h => ~Overlaps(t, appts[a].start)
         /\ \A u \in offered \ {t} : ~Overlaps(t, u)
=============================================================================
