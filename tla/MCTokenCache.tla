---------------------------- MODULE MCTokenCache ----------------------------
(***************************************************************************)
(* Small instances of TokenCache.                                          *)
(***************************************************************************)
EXTENDS TokenCache, TLC

MCSymmetry == Permutations(Procs)
=============================================================================
