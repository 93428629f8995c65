-------------------------- MODULE MCArenaSpaceUsed --------------------------
(***************************************************************************)
(* ArenaSpaceUsed for TLC: blocks of 64 and 128 bytes, string blocks of    *)
(* one and of three strings.                                               *)
(***************************************************************************)
EXTENDS ArenaSpaceUsed

MCSizes == {8, 48}
=============================================================================
