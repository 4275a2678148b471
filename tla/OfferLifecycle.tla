--------------------------- MODULE OfferLifecycle ---------------------------
(***************************************************************************)
(* What the offer pipeline promises its readers (the broker dashboard, the *)
(* consumer's contract page).  An offer is drafted, queued for a licensed  *)
(* broker once, signed, and given a contract draft after a signature; the  *)
(* draft is never taken back.  Signing does not wait for the queue: only   *)
(* an offer that was signed before it was queued falls back, to            *)
(* "awaiting_broker", and only when it is queued.  Once queued, an offer   *)
(* never goes back.  Offers.tla is shown to implement this.                *)
(***************************************************************************)
CONSTANT Offers

VARIABLES
  phase,   \* phase[o]: how far offer o has got
  queued,  \* offers that have entered the broker's queue
  signed   \* offers a broker has signed

Init ==
  /\ phase = [o \in Offers |-> "absent"]
  /\ queued = {} /\ signed = {}

Draft(o) ==
  /\ phase[o] = "absent"
  /\ phase' = [phase EXCEPT ![o] = "drafting"]
  /\ UNCHANGED <<queued, signed>>

Queue(o) ==
  /\ phase[o] # "absent" /\ o \notin queued
  /\ phase' = [phase EXCEPT ![o] = IF @ = "contracted" THEN @ ELSE "awaiting_broker"]
  /\ queued' = queued \cup {o}
  /\ UNCHANGED signed

Sign(o) ==
  /\ phase[o] \in {"drafting", "awaiting_broker"}
  /\ phase' = [phase EXCEPT ![o] = "signed"]
  /\ signed' = signed \cup {o}
  /\ UNCHANGED queued

Contract(o) ==
  /\ o \in signed /\ phase[o] \in {"awaiting_broker", "signed"}
  /\ phase' = [phase EXCEPT ![o] = "contracted"]
  /\ UNCHANGED <<queued, signed>>

Next == \E o \in Offers : Draft(o) \/ Queue(o) \/ Sign(o) \/ Contract(o)

Spec == Init /\ [][Next]_<<phase, queued, signed>>
=============================================================================
