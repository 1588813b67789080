--------------------------- MODULE MCServiceTable ---------------------------
(***************************************************************************)
(* Two catalogs and the local manifests, of two names and a third one that *)
(* looks like a selector of the first catalog.                             *)
(***************************************************************************)
EXTENDS ServiceTable, TLC

CONSTANTS c1, c2, f1, f2, n1, n2

MCNames == {n1, n2, <<c1, n1>>}

MCStem == [f \in Files |-> IF f = f1 THEN n1 ELSE n2]

MCManifests ==
    {[name |-> n1, kind |-> "good"], [name |-> Unnamed, kind |-> "good"],
     [name |-> Unnamed, kind |-> "sloppy"], [name |-> n2, kind |-> "bad"],
     [name |-> <<c1, n1>>, kind |-> "good"]}

MCProfiles == {{}, {n1, n2}, {n2, Qualified(c1, n1), Qualified(c2, n2)}}
=============================================================================
