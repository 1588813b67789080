---------------------------- MODULE MCSelfUpdate ---------------------------
(* Two updaters and two releases, each of which may be built once more.    *)
EXTENDS SelfUpdate, TLC

MCFlags == {[check |-> c, force |-> f, version |-> v] :
               c \in {FALSE}, f \in BOOLEAN, v \in {Latest, "v1"}}
           \cup {[check |-> TRUE, force |-> TRUE, version |-> Latest]}

MCSymmetry == Permutations(Procs)
=============================================================================
