------------------------- MODULE MCConnectionManager -------------------------
(***************************************************************************)
(* A small instance of ConnectionManager for TLC.                          *)
(***************************************************************************)
EXTENDS ConnectionManager, TLC

\* Streams, agents and ports are interchangeable.
Symmetry == Permutations(Streams) \cup Permutations(Agents) \cup Permutations(Ports)
=============================================================================
