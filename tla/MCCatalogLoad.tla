--------------------------- MODULE MCCatalogLoad ----------------------------
(***************************************************************************)
(* Small instances of CatalogLoad: one loading process beside the store's. *)
(* The third revision of the source is not portable.                       *)
(***************************************************************************)
EXTENDS CatalogLoad, TLC

CONSTANTS f1, f2, s1

MCMembers == [b \in Bundles |-> {f1, f2}]
MCPortable == {b \in Bundles : b[2] <= 2}
MCSymmetry == Permutations(Procs) \cup Permutations(Dirs) \cup Permutations({f1, f2})
=============================================================================
