--------------------------- MODULE ClosingTracker ---------------------------
(***************************************************************************)
(* What the closing pipeline promises its readers (the broker dashboard    *)
(* and the buyer's read-only tracker): each deal clears its milestones one *)
(* at a time, in the canonical order, and what a cleared milestone says    *)
(* about its counterparty ping never changes afterwards.  No requests, no  *)
(* RPCs, no crashes: Closing.tla is shown to implement this.               *)
(***************************************************************************)
EXTENDS Integers

CONSTANTS
  Deals,          \* offers in the closing pipeline
  NumMilestones   \* how many milestones a deal clears (four in the code)

VARIABLE tracker   \* tracker[d][m]: the ping status shown for milestone m of d

Milestones == 1 .. NumMilestones

\* "none" is a milestone without a row.
PingStatus == {"simulated", "pending"}

Cleared(t, d) == {m \in Milestones : t[d][m] # "none"}

Init == tracker = [d \in Deals |-> [m \in Milestones |-> "none"]]

\* The first milestone not yet cleared is cleared, with either ping status.
Clear(d, m, s) ==
  /\ Cleared(tracker, d) = 1 .. (m - 1)
  /\ tracker' = [tracker EXCEPT ![d][m] = s]

Next == \E d \in Deals, m \in Milestones, s \in PingStatus : Clear(d, m, s)

Spec == Init /\ [][Next]_tracker
=============================================================================
