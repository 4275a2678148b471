---------------------------- MODULE MC_Showings ----------------------------
(* Small instances of Showings for TLC. *)
EXTENDS Showings, TLC

\* Threads and brokers are interchangeable; listings and rows are not, the
\* idle request naming one of each.
Symmetric == Permutations(Requests) \cup Permutations(Brokers)
=============================================================================
