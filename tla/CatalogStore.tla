---------------------------- MODULE CatalogStore ----------------------------
(***************************************************************************)
(* The installed-catalog store: <config-dir>/catalogs/, shared by every    *)
(* anyctl process of a user and guarded by no lock.                        *)
(*                                                                         *)
(* A process runs `catalog add [--force]`, `catalog update` or `catalog    *)
(* remove` (internal/cli/catalog_install.go).  An install stages a whole   *)
(* directory beside the catalogs and renames it into place; a replacement  *)
(* first removes the directory that is there, entry by entry               *)
(* (internal/manifest/catalogstore.go).  One action is one file-system     *)
(* call the code makes, so that two processes interleave, a call fails and *)
(* a process dies between any two of them.                                 *)
(*                                                                         *)
(* Directories are inodes (Dirs): an open directory stays the same object  *)
(* when its name is given to another one.  What a manifest says is         *)
(* abstracted to the bundle (source and revision) it was fetched from.     *)
(***************************************************************************)
EXTENDS Naturals, FiniteSets

CONSTANTS
    Procs,     \* the processes that may run a catalog command
    Names,     \* catalog names: the entries of catalogs/ the loader looks at
    Sources,   \* the recorded sources: directories, git URLs, OpenAPI documents
    MaxRev,    \* bound: how often a source can change
    Files,     \* manifest file names
    Members,   \* the manifests each bundle consists of
    Portable,  \* the bundles the install-time gate accepts
    Dirs,      \* bound: one inode for every MkdirTemp call
    Meta,      \* the metadata file, .anyctl-catalog.json
    NoDir, NoBundle, NoName, NoSource

Revs == 1 .. MaxRev
Bundles == Sources \X Revs
Entries == Files \cup {Meta}

ASSUME RevAssumption == MaxRev \in Nat \ {0}
ASSUME BundleAssumption ==
    /\ Members \in [Bundles -> SUBSET Files]
    /\ Portable \subseteq Bundles
    /\ \A b \in Portable : Members[b] # {}   \* collectAndValidate refuses an empty set
    /\ NoBundle \notin Bundles
ASSUME NameAssumption ==
    /\ NoDir \notin Dirs
    /\ NoName \notin Names
    /\ NoSource \notin Sources
    /\ Meta \notin Files

VARIABLES
    rev,      \* [Sources -> Revs]: what a fetch of the source returns now
    visible,  \* [Names -> Dirs \cup {NoDir}]: the catalogs a reader can see
    content,  \* [Dirs -> [Entries -> Bundles \cup {NoBundle}]]
    used,     \* the inodes MkdirTemp has handed out
    pc, cmd, name, src, bundle, \* per process: where it is, and what it works on
    todo,     \* the targets an update has still to visit
    staging,  \* the directory it stages into
    victim,   \* the directory its RemoveAll has opened
    exit      \* how the command will exit: "ok" until a step fails

store == <<visible, content, used>>
job == <<cmd, name, src, bundle>>
vars == <<rev, visible, content, used,
          pc, cmd, name, src, bundle, todo, staging, victim, exit>>

Commands == {"none", "add", "forceAdd", "update", "remove"}
Labels == {"idle", "next", "meta", "fetch", "stage", "write", "stat",
           "open", "clear", "rename", "sweep"}

TypeOK ==
    /\ rev \in [Sources -> Revs]
    /\ visible \in [Names -> Dirs \cup {NoDir}]
    /\ content \in [Dirs -> [Entries -> Bundles \cup {NoBundle}]]
    /\ used \in SUBSET Dirs
    /\ pc \in [Procs -> Labels]
    /\ cmd \in [Procs -> Commands]
    /\ name \in [Procs -> Names \cup {NoName}]
    /\ src \in [Procs -> Sources \cup {NoSource}]
    /\ bundle \in [Procs -> Bundles \cup {NoBundle}]
    /\ todo \in [Procs -> SUBSET Names]
    /\ staging \in [Procs -> Dirs \cup {NoDir}]
    /\ victim \in [Procs -> Dirs \cup {NoDir}]
    /\ exit \in [Procs -> {"ok", "error"}]

-----------------------------------------------------------------------------
(* Directories. *)

Bare == [e \in Entries |-> NoBundle]

IsBare(d) == content[d] = Bare

\* The directory an install of b produces: every manifest of b and the metadata.
Full(b) == [e \in Entries |-> IF e = Meta \/ e \in Members[b] THEN b ELSE NoBundle]

IsWhole(d) == \E b \in Portable : content[d] = Full(b)

\* A name can be given to a staged directory when nothing, or an empty directory,
\* bears it.
Vacant == {NoDir} \cup {d \in Dirs : IsBare(d)}

Replaces(p) == cmd[p] \in {"forceAdd", "update"}

-----------------------------------------------------------------------------
(* Control flow shared by the steps. *)

Goto(p, label) == pc' = [pc EXCEPT ![p] = label]

\* The process goes back to the shell, or to the loop over the targets.
Drop(p, command) ==
    /\ cmd' = [cmd EXCEPT ![p] = command]
    /\ name' = [name EXCEPT ![p] = NoName]
    /\ src' = [src EXCEPT ![p] = NoSource]
    /\ bundle' = [bundle EXCEPT ![p] = NoBundle]

\* The command, or the update of one of its targets, is over: `update` records
\* an error and carries on with the other targets.
Finish(p, ok) ==
    /\ IF cmd[p] = "update"
       THEN Goto(p, "next") /\ Drop(p, "update")
       ELSE Goto(p, "idle") /\ Drop(p, "none")
    /\ exit' = [exit EXCEPT ![p] = IF ok THEN @ ELSE "error"]

Proceed(p, label) == Goto(p, label) /\ UNCHANGED <<job, exit>>

\* An error inside InstallCatalog: its deferred RemoveAll(tmp) runs first.
Abort(p) ==
    /\ Goto(p, "sweep")
    /\ exit' = [exit EXCEPT ![p] = "error"]
    /\ UNCHANGED job

-----------------------------------------------------------------------------
(* Starting a command. *)

Begin(p, c, label) ==
    /\ pc[p] = "idle"
    /\ Goto(p, label)
    /\ cmd' = [cmd EXCEPT ![p] = c]
    /\ exit' = [exit EXCEPT ![p] = "ok"]
    /\ UNCHANGED <<rev, store, bundle, staging, victim>>

StartAdd(p, n, s, c) ==
    /\ Begin(p, c, "fetch")
    /\ name' = [name EXCEPT ![p] = n]
    /\ src' = [src EXCEPT ![p] = s]
    /\ UNCHANGED todo

\* `update` visits the catalogs it is told to, or every installed one; with none
\* of either there is nothing to do.
StartUpdate(p, told) ==
    LET targets == IF told # {} THEN told ELSE {n \in Names : visible[n] # NoDir}
    IN /\ targets # {}
       /\ Begin(p, "update", "next")
       /\ todo' = [todo EXCEPT ![p] = targets]
       /\ UNCHANGED <<name, src>>

StartRemove(p, n) ==
    /\ Begin(p, "remove", "stat")
    /\ name' = [name EXCEPT ![p] = n]
    /\ UNCHANGED <<todo, src>>

-----------------------------------------------------------------------------
(* The steps of a command. *)

\* The loop of catalogUpdate.
NextTarget(p) ==
    /\ pc[p] = "next"
    /\ \/ /\ todo[p] = {}
          /\ Goto(p, "idle")
          /\ Drop(p, "none")
          /\ UNCHANGED todo
       \/ \E n \in todo[p] :
             /\ Goto(p, "meta")
             /\ name' = [name EXCEPT ![p] = n]
             /\ todo' = [todo EXCEPT ![p] = @ \ {n}]
             /\ UNCHANGED <<cmd, src, bundle>>
    /\ UNCHANGED <<rev, store, staging, victim, exit>>

\* updateOne reads the metadata of the catalog: without a directory, or without
\* the metadata file in it, there is no recorded source and it fails.
ReadMeta(p) ==
    /\ pc[p] = "meta"
    /\ LET d == visible[name[p]]
           found == d # NoDir /\ content[d][Meta] # NoBundle
       IN \/ ~found /\ Finish(p, FALSE)
          \/ /\ found
             /\ src' = [src EXCEPT ![p] = content[d][Meta][1]]
             /\ Goto(p, "fetch")
             /\ UNCHANGED <<cmd, name, bundle, exit>>
    /\ UNCHANGED <<rev, store, todo, staging, victim>>

\* MUTANT of Fetch: the portability gate is left out.
FetchUnvalidated(p) ==
    /\ pc[p] = "fetch"
    /\ bundle' = [bundle EXCEPT ![p] = <<src[p], rev[src[p]]>>]
    /\ Goto(p, "stage")
    /\ UNCHANGED <<rev, store, cmd, name, src, exit, todo, staging, victim>>

\* Fetch the source and validate every member: one manifest that is not portable
\* rejects the bundle before anything is written.
Fetch(p) ==
    /\ pc[p] = "fetch"
    /\ LET b == <<src[p], rev[src[p]]>>
       IN \/ /\ b \in Portable
             /\ bundle' = [bundle EXCEPT ![p] = b]
             /\ Goto(p, "stage")
             /\ UNCHANGED <<cmd, name, src, exit>>
          \/ b \notin Portable /\ Finish(p, FALSE)
    /\ UNCHANGED <<rev, store, todo, staging, victim>>

\* MUTANT of MakeStaging: an installed catalog is rewritten in place.
StageInPlace(p) ==
    /\ pc[p] = "stage"
    /\ \E d \in Dirs :
          /\ IF visible[name[p]] = NoDir THEN d \notin used ELSE d = visible[name[p]]
          /\ used' = used \cup {d}
          /\ staging' = [staging EXCEPT ![p] = d]
    /\ Proceed(p, "write")
    /\ UNCHANGED <<rev, visible, content, todo, victim>>

\* MUTANT of MakeStaging: the staging directory has a fixed name, so that one that was
\* left behind is taken up again.
StageUnderAFixedName(p) ==
    /\ pc[p] = "stage"
    /\ LET left == {d \in used : \A q \in Procs, n \in Names :
                        visible[n] # d /\ staging[q] # d /\ content[d] # Bare}
       IN \E d \in IF left # {} THEN left ELSE Dirs \ used :
             /\ used' = used \cup {d}
             /\ staging' = [staging EXCEPT ![p] = d]
    /\ Proceed(p, "write")
    /\ UNCHANGED <<rev, visible, content, todo, victim>>

\* os.MkdirTemp(catalogsDir, ".tmp-<name>-"): hidden from every reader.
MakeStaging(p) ==
    /\ pc[p] = "stage"
    /\ \E d \in Dirs \ used :
          /\ used' = used \cup {d}
          /\ staging' = [staging EXCEPT ![p] = d]
    /\ Proceed(p, "write")
    /\ UNCHANGED <<rev, visible, content, todo, victim>>

\* MUTANT of WriteEntry: the metadata is not written last.
WriteInAnyOrder(p) ==
    /\ pc[p] = "write"
    /\ LET d == staging[p]
           missing == {f \in Members[bundle[p]] : content[d][f] = NoBundle}
       IN \E e \in missing \cup {Meta} :
             /\ content' = [content EXCEPT ![d] = [@ EXCEPT ![e] = bundle[p]]]
             /\ Proceed(p, IF e = Meta THEN "stat" ELSE "write")
    /\ UNCHANGED <<rev, visible, used, todo, staging, victim>>

\* One os.WriteFile: the members in the order of a Go map, the metadata last.
WriteEntry(p) ==
    /\ pc[p] = "write"
    /\ LET d == staging[p]
           missing == {f \in Members[bundle[p]] : content[d][f] = NoBundle}
       IN \E e \in IF missing # {} THEN missing ELSE {Meta} :
             /\ content' = [content EXCEPT ![d] = [@ EXCEPT ![e] = bundle[p]]]
             /\ Proceed(p, IF e = Meta THEN "stat" ELSE "write")
    /\ UNCHANGED <<rev, visible, used, todo, staging, victim>>

\* MUTANT of StatFinal: --force is not looked at, what is installed is replaced.
StatUnasked(p) ==
    /\ pc[p] = "stat"
    /\ LET installed == visible[name[p]] # NoDir
       IN \/ installed /\ Proceed(p, "open")
          \/ ~installed /\ cmd[p] = "remove" /\ Finish(p, FALSE)
          \/ ~installed /\ cmd[p] # "remove" /\ Proceed(p, "rename")
    /\ UNCHANGED <<rev, store, todo, staging, victim>>

\* os.Stat of the final directory, in InstallCatalog and in RemoveCatalog.
StatFinal(p) ==
    /\ pc[p] = "stat"
    /\ LET installed == visible[name[p]] # NoDir
       IN \/ installed /\ (Replaces(p) \/ cmd[p] = "remove") /\ Proceed(p, "open")
          \/ installed /\ cmd[p] = "add" /\ Abort(p)
          \/ ~installed /\ cmd[p] = "remove" /\ Finish(p, FALSE)
          \/ ~installed /\ cmd[p] # "remove" /\ Proceed(p, "rename")
    /\ UNCHANGED <<rev, store, todo, staging, victim>>

\* What follows RemoveAll of the final directory.
AfterClear(p, ok) ==
    \/ cmd[p] = "remove" /\ Finish(p, ok)
    \/ cmd[p] # "remove" /\ ok /\ Proceed(p, "rename")
    \/ cmd[p] # "remove" /\ ~ok /\ Abort(p)

\* os.RemoveAll opens the directory; one that is already gone is a success.
OpenVictim(p) ==
    /\ pc[p] = "open"
    /\ LET d == visible[name[p]]
       IN \/ d = NoDir /\ AfterClear(p, TRUE) /\ UNCHANGED victim
          \/ /\ d # NoDir
             /\ victim' = [victim EXCEPT ![p] = d]
             /\ Proceed(p, "clear")
    /\ UNCHANGED <<rev, store, todo, staging>>

\* MUTANT of Unlink: the entries are removed by path, not in the opened directory.
UnlinkByPath(p) ==
    /\ pc[p] = "clear"
    /\ LET d == IF visible[name[p]] = NoDir THEN victim[p] ELSE visible[name[p]]
       IN \E e \in Entries :
             /\ content[d][e] # NoBundle
             /\ content' = [content EXCEPT ![d] = [@ EXCEPT ![e] = NoBundle]]
    /\ UNCHANGED <<rev, visible, used, pc, job, todo, staging, victim, exit>>

\* os.RemoveAll unlinks an entry of the directory it opened.
Unlink(p) ==
    /\ pc[p] = "clear"
    /\ \E e \in Entries :
          /\ content[victim[p]][e] # NoBundle
          /\ content' = [content EXCEPT ![victim[p]] = [@ EXCEPT ![e] = NoBundle]]
    /\ UNCHANGED <<rev, visible, used, pc, job, todo, staging, victim, exit>>

\* os.RemoveAll removes the directory by its NAME, which another process may have
\* given to another directory by now: the kernel refuses one that is not empty.
Rmdir(p) ==
    /\ pc[p] = "clear"
    /\ IsBare(victim[p])
    /\ LET gone == visible[name[p]] \in Vacant
       IN /\ visible' = IF gone THEN [visible EXCEPT ![name[p]] = NoDir] ELSE visible
          /\ AfterClear(p, gone)
    /\ victim' = [victim EXCEPT ![p] = NoDir]
    /\ UNCHANGED <<rev, content, used, todo, staging>>

\* os.RemoveAll gives up on an error and leaves what it has not removed.
ClearFails(p) ==
    /\ pc[p] \in {"open", "clear"}
    /\ AfterClear(p, FALSE)
    /\ victim' = [victim EXCEPT ![p] = NoDir]
    /\ UNCHANGED <<rev, store, todo, staging>>

\* os.Rename(tmp, final).  It never replaces a directory that has an entry: Go
\* refuses an existing directory, and rename(2) one that is not empty.
Rename(p) ==
    /\ pc[p] = "rename"
    /\ visible[name[p]] \in Vacant
    /\ visible' = [visible EXCEPT ![name[p]] = staging[p]]
    /\ staging' = [staging EXCEPT ![p] = NoDir]
    /\ Finish(p, TRUE)
    /\ UNCHANGED <<rev, content, used, todo, victim>>

\* MUTANT of StepFails: a Rename that fails is tried again.
StepFailsButRename(p) ==
    /\ \/ pc[p] \in {"meta", "fetch", "stage"} /\ Finish(p, FALSE)
       \/ pc[p] = "stat" /\ cmd[p] = "remove" /\ Finish(p, FALSE)
       \/ pc[p] = "stat" /\ cmd[p] # "remove" /\ Abort(p)
       \/ pc[p] = "write" /\ Abort(p)
    /\ UNCHANGED <<rev, store, todo, staging, victim>>

\* A read, fetch, MkdirTemp, WriteFile, Stat or Rename that fails.
StepFails(p) ==
    /\ \/ pc[p] \in {"meta", "fetch", "stage"} /\ Finish(p, FALSE)
       \/ pc[p] = "stat" /\ cmd[p] = "remove" /\ Finish(p, FALSE)
       \/ pc[p] = "stat" /\ cmd[p] # "remove" /\ Abort(p)
       \/ pc[p] \in {"write", "rename"} /\ Abort(p)
    /\ UNCHANGED <<rev, store, todo, staging, victim>>

\* The deferred os.RemoveAll(tmp), best effort: nobody else looks into a staging
\* directory, so it is one step.
Sweep(p) ==
    /\ pc[p] = "sweep"
    /\ content' \in {content, [content EXCEPT ![staging[p]] = Bare]}
    /\ staging' = [staging EXCEPT ![p] = NoDir]
    /\ Finish(p, TRUE)
    /\ UNCHANGED <<rev, visible, used, todo, victim>>

\* The process dies: deferred calls do not run, files stay as they are.
Crash(p) ==
    /\ pc[p] # "idle"
    /\ Goto(p, "idle")
    /\ Drop(p, "none")
    /\ todo' = [todo EXCEPT ![p] = {}]
    /\ staging' = [staging EXCEPT ![p] = NoDir]
    /\ victim' = [victim EXCEPT ![p] = NoDir]
    /\ exit' = [exit EXCEPT ![p] = "error"]
    /\ UNCHANGED <<rev, store>>

\* External: the source moves on (a commit, an edit of the directory).
Publish(s) ==
    /\ rev[s] < MaxRev
    /\ rev' = [rev EXCEPT ![s] = @ + 1]
    /\ UNCHANGED <<store, pc, job, todo, staging, victim, exit>>

-----------------------------------------------------------------------------
Init ==
    /\ rev = [s \in Sources |-> 1]
    /\ visible = [n \in Names |-> NoDir]
    /\ content = [d \in Dirs |-> Bare]
    /\ used = {}
    /\ pc = [p \in Procs |-> "idle"]
    /\ cmd = [p \in Procs |-> "none"]
    /\ name = [p \in Procs |-> NoName]
    /\ src = [p \in Procs |-> NoSource]
    /\ bundle = [p \in Procs |-> NoBundle]
    /\ todo = [p \in Procs |-> {}]
    /\ staging = [p \in Procs |-> NoDir]
    /\ victim = [p \in Procs |-> NoDir]
    /\ exit = [p \in Procs |-> "ok"]

Start(p) ==
    \/ \E n \in Names, s \in Sources, c \in {"add", "forceAdd"} : StartAdd(p, n, s, c)
    \/ \E told \in SUBSET Names : StartUpdate(p, told)
    \/ \E n \in Names : StartRemove(p, n)

Step(p) ==
    \/ NextTarget(p)
    \/ ReadMeta(p)
    \/ Fetch(p)
    \/ MakeStaging(p)
    \/ WriteEntry(p)
    \/ StatFinal(p)
    \/ OpenVictim(p)
    \/ Unlink(p)
    \/ Rmdir(p)
    \/ ClearFails(p)
    \/ Rename(p)
    \/ StepFails(p)
    \/ Sweep(p)

Next ==
    \/ \E p \in Procs : Start(p) \/ Step(p) \/ Crash(p)
    \/ \E s \in Sources : Publish(s)

Spec == Init /\ [][Next]_vars

\* The operating system runs every process that is not blocked, and no step of a
\* command blocks for ever: git and the file system answer or fail.
FairSpec == Spec /\ \A p \in Procs : WF_vars(Step(p))

-----------------------------------------------------------------------------
(* Properties. *)

\* A catalog a reader can see holds manifests and metadata of one fetched and
\* accepted bundle only: two installs of the same name, a crash or a half-done
\* removal never mix two revisions in one directory (InstallCatalog).
OneBundlePerCatalog ==
    \A n \in Names : visible[n] # NoDir =>
        \E b \in Portable : \A e \in Entries :
            content[visible[n]][e] \in {Full(b)[e], NoBundle}

\* A directory that MkdirTemp handed out and nobody holds any more: the process that
\* staged it died or gave up, or the catalog it once was is removed.
IsLeftOver(d) ==
    /\ d \in used
    /\ \A n \in Names : visible[n] # d
    /\ \A p \in Procs : staging[p] # d /\ victim[p] # d

\* No directory is a catalog under two names, or a catalog and the staging directory
\* of a running install at the same time; and what a crashed or failed install leaves
\* behind (InstallCatalog's deferred RemoveAll does not run, or fails) stays as it is:
\* no later install stages into it, publishes it or adds to it.
StagingIsPrivate ==
    /\ [](/\ \A m, n \in Names : visible[m] = visible[n] /\ visible[m] # NoDir => m = n
         /\ \A p \in Procs, n \in Names : staging[p] # NoDir => staging[p] # visible[n])
    /\ [][\A d \in Dirs : IsLeftOver(d) => IsLeftOver(d)' /\ content'[d] = content[d]]_vars

\* A directory that becomes a catalog is complete at that moment: all manifests
\* of one accepted bundle and its metadata (the rename of InstallCatalog).
WholeOnArrival ==
    [][\A n \in Names : visible'[n] \notin {visible[n], NoDir} => IsWhole(visible'[n])]_vars

\* A catalog loses an entry only to a process that opened this very directory: a
\* remover that is late, or that races with a second install of the name, never
\* damages the catalog installed since (os.RemoveAll under InstallCatalog and
\* RemoveCatalog).
OnlyItsOpenerEmptiesACatalog ==
    [][\A n \in Names : visible[n] # NoDir /\ content'[visible[n]] # content[visible[n]] =>
         \E p \in Procs : victim[p] = visible[n]]_vars

\* While no command replaces or removes it, a catalog that is complete stays
\* installed and complete: an `add` without --force, even of the same name and at
\* the same time, never touches it (the os.Stat and os.Rename of InstallCatalog).
PlainAddNeverReplaces ==
    [][(\A p \in Procs : cmd[p] \in {"none", "add"}) =>
         \A n \in Names : visible[n] # NoDir /\ IsWhole(visible[n]) =>
             visible'[n] = visible[n] /\ content'[visible[n]] = content[visible[n]]]_vars

\* Every command ends, whatever the others do meanwhile: RemoveAll cannot chase a
\* directory that is being refilled, and an update visits each target once.
CommandsEnd == \A p \in Procs : (pc[p] # "idle") ~> (pc[p] = "idle")

-----------------------------------------------------------------------------
(* Refinement: what a reader sees of each name follows CatalogLifecycle.   *)

Status(n) ==
    IF visible[n] = NoDir THEN <<"absent">>
    ELSE IF IsWhole(visible[n])
         THEN <<"whole", CHOOSE b \in Portable : content[visible[n]] = Full(b)>>
    ELSE <<"torn">>

Lifecycle == INSTANCE CatalogLifecycle
    WITH Accepted <- Portable, status <- [n \in Names |-> Status(n)]

\* Every file-system call of every process moves at most one catalog one step
\* through its life cycle, or does not show.
ImplementsLifecycle == Lifecycle!Spec
=============================================================================
