---------------------------- MODULE MC_AuditLog ----------------------------
(* Small instances of AuditLog for TLC. *)
EXTENDS AuditLog, TLC

Event(claim, source, at) == [claim |-> claim, source_id |-> source, created_at |-> at]

\* The first two join to the same text, and so do the last two.
SomeEvents ==
  {Event(<<"a">>, Nil, 1), Event(<<"a">>, <<>>, 2),
   Event(<<"a", "|">>, <<>>, 1), Event(<<"a">>, <<"|">>, 1)}
TwoEvents == {Event(<<"a">>, Nil, 1), Event(<<"b">>, Nil, 1)}

WriterSymmetry == Permutations(Writers)
=============================================================================
