------------------------------ MODULE MCReactor ------------------------------
(* Small instances of Reactor for TLC. *)
EXTENDS Reactor, TLC

\* Connection lifetimes and application threads are interchangeable.
Symmetry == Permutations(Conns) \cup Permutations(Senders)
==============================================================================
