-------------------------- MODULE MCControlSession --------------------------
(* Small instances of ControlSession for TLC. *)
EXTENDS ControlSession, TLC

\* Server threads, loops and policy threads are interchangeable: no definition
\* orders them or names one. Only for runs without liveness properties.
Symmetry == Permutations(Handlers) \cup Permutations(Loops) \cup Permutations(Threads)

=============================================================================
