------------------------------ MODULE MCArena ------------------------------
(***************************************************************************)
(* Arena for TLC: nothing tells two fighters, or two connections, apart    *)
(* but what happens to them.                                               *)
(***************************************************************************)
EXTENDS Arena, TLC

Symmetry == Permutations(Fighter) \cup Permutations(Conn)
=============================================================================
