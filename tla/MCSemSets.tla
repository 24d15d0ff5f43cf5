----------------------------- MODULE MCSemSets ------------------------------
(***************************************************************************)
(* Instances of SemSets for TLC: the addresses "17" and "71", whose keys   *)
(* are all different although they have the same characters.               *)
(***************************************************************************)
EXTENDS SemSets

TwoNames == {<<49, 55>>, <<55, 49>>}
OneName == {<<49, 55>>}
=============================================================================
