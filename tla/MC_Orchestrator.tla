-------------------------- MODULE MC_Orchestrator --------------------------
(* Small instances of Orchestrator for TLC. *)
EXTENDS Orchestrator, TLC

CONSTANTS home, twin, other, nowhere, slug, slug2

\* "1-A St" and "1 A St": two properties, one run id.
OneSlug == [a \in Addresses |-> IF a = other THEN slug2 ELSE slug]
\* One property is answered for.  The runs of the others ingest, search, are
\* verified and checkpointed like any, and a hard trigger hands them to a human.
Asked == {[address |-> a, hard |-> a # home] : a \in Addresses}
=============================================================================
