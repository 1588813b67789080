--------------------------- MODULE MCCatalogStore ---------------------------
(***************************************************************************)
(* Small instances of CatalogStore.  The two revisions of the source       *)
(* differ in their files, so that a mixture of both would show, and one    *)
(* later revision is not portable.                                         *)
(***************************************************************************)
EXTENDS CatalogStore, TLC

CONSTANTS f1, f2, s1

MCMembers == [b \in Bundles |-> IF b[2] = 1 THEN {f1, f2} ELSE {f1}]
MCPortable == {b \in Bundles : b[2] <= 2}
MCSymmetry == Permutations(Procs) \cup Permutations(Dirs)
=============================================================================
