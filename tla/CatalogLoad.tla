---------------------------- MODULE CatalogLoad -----------------------------
(***************************************************************************)
(* A command that loads its configuration (manifest.Load) while other      *)
(* processes work on the catalog store: loadInstalledCatalogs lists        *)
(* catalogs/, lists one catalog after the other, and reads its manifests   *)
(* one by one, each time by PATH and without a lock.  A catalog may be     *)
(* removed, emptied or exchanged between any two of these reads.           *)
(*                                                                         *)
(* The catalogs and the files of one are visited in any order here, in     *)
(* sorted order in the code: the properties hold whatever the order.       *)
(***************************************************************************)
EXTENDS CatalogStore

VARIABLES
    phase,     \* where the load is
    pending,   \* catalogs that were listed and are still to be visited
    at,        \* the catalog that is being read
    left,      \* its manifests that were listed and are still to be read
    loaded,    \* [Names -> [Files -> Bundles \cup {NoBundle}]]: what was read
    disturbed  \* history: catalogs that lost something since the load began

reader == <<phase, pending, at, left, loaded>>
loadVars == <<vars, reader, disturbed>>

Nothing == [n \in Names |-> [f \in Files |-> NoBundle]]

LoadTypeOK ==
    /\ phase \in {"idle", "list", "catalogs", "files", "done", "failed"}
    /\ pending \in SUBSET Names
    /\ at \in Names \cup {NoName}
    /\ left \in SUBSET Files
    /\ loaded \in [Names -> [Files -> Bundles \cup {NoBundle}]]
    /\ disturbed \in SUBSET Names

-----------------------------------------------------------------------------
\* MUTANT of BeginLoad: what an earlier load has read is kept.
BeginWithCache ==
    /\ phase \in {"idle", "done", "failed"}
    /\ phase' = "list"
    /\ pending' = {}
    /\ at' = NoName
    /\ left' = {}
    /\ disturbed' = {}
    /\ UNCHANGED <<vars, loaded>>

\* Load starts from nothing: every invocation reads the whole directory again.
BeginLoad ==
    /\ phase \in {"idle", "done", "failed"}
    /\ phase' = "list"
    /\ pending' = {}
    /\ at' = NoName
    /\ left' = {}
    /\ loaded' = Nothing
    /\ disturbed' = {}
    /\ UNCHANGED vars

\* os.ReadDir(catalogs/): the dot-prefixed staging directories are skipped.
ListCatalogs ==
    /\ phase = "list"
    /\ pending' = {n \in Names : visible[n] # NoDir}
    /\ phase' = "catalogs"
    /\ UNCHANGED <<vars, at, left, loaded, disturbed>>

\* MUTANT of ListManifests: the members are taken from the metadata, not listed.
ListMembers(n) ==
    /\ phase = "catalogs"
    /\ n \in pending
    /\ at' = n
    /\ LET d == visible[n]
       IN \/ d = NoDir /\ phase' = "failed" /\ UNCHANGED <<pending, left>>
          \/ /\ d # NoDir
             /\ phase' = "files"
             /\ pending' = pending \ {n}
             /\ left' = IF content[d][Meta] = NoBundle THEN {} ELSE Members[content[d][Meta]]
    /\ UNCHANGED <<vars, loaded, disturbed>>

\* os.ReadDir of one catalog: one that is gone since it was listed fails the load.
ListManifests(n) ==
    /\ phase = "catalogs"
    /\ n \in pending
    /\ at' = n
    /\ LET d == visible[n]
       IN \/ d = NoDir /\ phase' = "failed" /\ UNCHANGED <<pending, left>>
          \/ /\ d # NoDir
             /\ phase' = "files"
             /\ pending' = pending \ {n}
             /\ left' = {f \in Files : content[d][f] # NoBundle}
    /\ UNCHANGED <<vars, loaded, disturbed>>

\* os.ReadFile of one listed manifest, by its path: one that is gone fails the load.
ReadManifest(f) ==
    /\ phase = "files"
    /\ f \in left
    /\ LET d == visible[at]
           there == d # NoDir /\ content[d][f] # NoBundle
       IN \/ ~there /\ phase' = "failed" /\ UNCHANGED <<left, loaded>>
          \/ /\ there
             /\ loaded' = [loaded EXCEPT ![at] = [@ EXCEPT ![f] = content[d][f]]]
             /\ left' = left \ {f}
             /\ UNCHANGED phase
    /\ UNCHANGED <<vars, pending, at, disturbed>>

NextCatalog ==
    /\ phase = "files"
    /\ left = {}
    /\ phase' = "catalogs"
    /\ UNCHANGED <<vars, pending, at, left, loaded, disturbed>>

EndLoad ==
    /\ phase = "catalogs"
    /\ pending = {}
    /\ phase' = "done"
    /\ UNCHANGED <<vars, pending, at, left, loaded, disturbed>>

\* A catalog loses something when its name is taken away from its directory, or an
\* entry from the directory.  A catalog that arrives loses nothing.
LosesSomething(n) ==
    /\ visible[n] # NoDir
    /\ \/ visible'[n] # visible[n]
       \/ content'[visible[n]] # content[visible[n]]

\* Any step of another process.
StoreStep ==
    /\ Next
    /\ disturbed' = disturbed \cup {n \in Names : LosesSomething(n)}
    /\ UNCHANGED reader

LoadInit ==
    /\ Init
    /\ phase = "idle"
    /\ pending = {}
    /\ at = NoName
    /\ left = {}
    /\ loaded = Nothing
    /\ disturbed = {}

ReaderNext ==
    \/ BeginLoad
    \/ ListCatalogs
    \/ \E n \in Names : ListManifests(n)
    \/ \E f \in Files : ReadManifest(f)
    \/ NextCatalog
    \/ EndLoad

LoadNext == ReaderNext \/ StoreStep

LoadSpec == LoadInit /\ [][LoadNext]_loadVars

-----------------------------------------------------------------------------
\* Whatever it races with, a load never takes a staged, unvalidated or foreign
\* manifest: each one belongs, under its file name, to a bundle the gate accepted.
OnlyAcceptedManifests ==
    \A n \in Names, f \in Files : loaded[n][f] # NoBundle =>
        loaded[n][f] \in Portable /\ f \in Members[loaded[n][f]]

\* Only a catalog that lost something during the load can fail it: an `add` at the
\* same time, a crashed install and its left-over staging directory cannot.
FailsOnlyWhenDisturbed == phase = "failed" => at \in disturbed

\* Of a catalog that lost nothing meanwhile a finished load has read either nothing,
\* because it arrived too late, or exactly the manifests that are there.
UndisturbedCatalogsAreReadExactly ==
    phase = "done" => \A n \in Names \ disturbed :
        \/ loaded[n] = Nothing[n]
        \/ /\ visible[n] # NoDir
           /\ \A f \in Files : loaded[n][f] = content[visible[n]][f]
=============================================================================
