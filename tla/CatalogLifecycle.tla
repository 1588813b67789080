-------------------------- MODULE CatalogLifecycle --------------------------
(***************************************************************************)
(* What the catalog store promises of each catalog name, whatever number   *)
(* of processes work on it and wherever they stop: a catalog arrives whole *)
(* and accepted, is torn only by a removal, a torn one never heals in      *)
(* place, and a whole one is never exchanged for another in one step       *)
(* (catalogstore.go: InstallCatalog, RemoveCatalog).                       *)
(***************************************************************************)
CONSTANTS
    Names,    \* the catalog names
    Accepted  \* the bundles the install-time gate accepts

VARIABLE status   \* [Names -> Statuses]

Absent == <<"absent">>
Torn == <<"torn">>
Whole(b) == <<"whole", b>>

Statuses == {Absent, Torn} \cup {Whole(b) : b \in Accepted}

TypeOK == status \in [Names -> Statuses]

Init == status = [n \in Names |-> Absent]

\* The rename of a staged directory: over nothing, or over an emptied directory.
Install(n, b) ==
    /\ status[n] \in {Absent, Torn}
    /\ status' = [status EXCEPT ![n] = Whole(b)]

\* The first entry that a removal unlinks.
Tear(n) ==
    /\ status[n] \notin {Absent, Torn}
    /\ status' = [status EXCEPT ![n] = Torn]

\* The removal of the emptied directory.
Vanish(n) ==
    /\ status[n] = Torn
    /\ status' = [status EXCEPT ![n] = Absent]

Next == \E n \in Names : Tear(n) \/ Vanish(n) \/ \E b \in Accepted : Install(n, b)

Spec == Init /\ [][Next]_status
=============================================================================
