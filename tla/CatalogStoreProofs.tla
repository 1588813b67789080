------------------------- MODULE CatalogStoreProofs -------------------------
(***************************************************************************)
(* Theorems about CatalogStore and CatalogLoad, for any number of           *)
(* processes, names, sources, files and directories.                       *)
(***************************************************************************)
EXTENDS CatalogLoad, TLAPS

Installers == {"add", "forceAdd", "update"}

\* The command and the target that each program point belongs to.
Phases ==
    \A p \in Procs :
        /\ pc[p] \in {"fetch", "stage", "write", "rename", "sweep"} => cmd[p] \in Installers
        /\ pc[p] \in {"next", "meta"} => cmd[p] = "update"
        /\ pc[p] = "stat" => cmd[p] # "none"
        /\ pc[p] \in {"open", "clear"} => cmd[p] \notin {"none", "add"}
        /\ pc[p] \notin {"idle", "next"} => name[p] \in Names
        /\ pc[p] = "clear" => victim[p] # NoDir

\* Who may touch which directory.
Private ==
    /\ \A d \in Dirs \ used : IsBare(d)
    /\ \A n \in Names : visible[n] # NoDir => visible[n] \in used
    /\ \A m, n \in Names : visible[m] = visible[n] /\ visible[m] # NoDir => m = n
    /\ \A p \in Procs : staging[p] # NoDir =>
        /\ staging[p] \in used
        /\ \A n \in Names : visible[n] # staging[p]
        /\ \A q \in Procs : victim[q] # staging[p]
        /\ \A q \in Procs : staging[q] = staging[p] => q = p
    /\ \A p \in Procs : victim[p] # NoDir => victim[p] \in used

\* d holds nothing but entries of bundle b.
Partial(d, b) == \A e \in Entries : content[d][e] \in {Full(b)[e], NoBundle}

\* What an install has staged at each of its program points.
Staged ==
    \A p \in Procs : cmd[p] \in Installers =>
        /\ pc[p] \in {"stage", "write", "stat", "open", "clear", "rename"} =>
              bundle[p] \in Portable
        /\ pc[p] \in {"write", "stat", "open", "clear", "rename"} => staging[p] # NoDir
        /\ pc[p] = "write" => Partial(staging[p], bundle[p])
        /\ pc[p] \in {"stat", "open", "clear", "rename"} =>
              content[staging[p]] = Full(bundle[p])

IInv == TypeOK /\ Phases /\ Private /\ Staged /\ OneBundlePerCatalog

-----------------------------------------------------------------------------
LEMMA TypeInit == Init => IInv
<1> SUFFICES ASSUME Init PROVE IInv
  OBVIOUS
<1> USE RevAssumption, NameAssumption, BundleAssumption DEF Init
<1>1. TypeOK
  BY DEF TypeOK, Revs, Labels, Commands, Bare
<1>2. Phases /\ Private /\ Staged /\ OneBundlePerCatalog
  BY DEF Phases, Private, Staged, OneBundlePerCatalog, Installers, IsBare
<1> QED
  BY <1>1, <1>2 DEF IInv

(* Type correctness.  The control state (what Finish, Abort and Proceed      *)
(* assign) and the rest of the state are handled apart.                      *)

ControlTyped ==
    /\ pc \in [Procs -> Labels]
    /\ cmd \in [Procs -> Commands]
    /\ name \in [Procs -> Names \cup {NoName}]
    /\ src \in [Procs -> Sources \cup {NoSource}]
    /\ bundle \in [Procs -> Bundles \cup {NoBundle}]
    /\ exit \in [Procs -> {"ok", "error"}]

StoreTyped ==
    /\ rev \in [Sources -> Revs]
    /\ visible \in [Names -> Dirs \cup {NoDir}]
    /\ content \in [Dirs -> [Entries -> Bundles \cup {NoBundle}]]
    /\ used \in SUBSET Dirs
    /\ todo \in [Procs -> SUBSET Names]
    /\ staging \in [Procs -> Dirs \cup {NoDir}]
    /\ victim \in [Procs -> Dirs \cup {NoDir}]

LEMMA DropTyped ==
    ASSUME ControlTyped, NEW p \in Procs, NEW c \in Commands, Drop(p, c)
    PROVE  /\ cmd' \in [Procs -> Commands]
           /\ name' \in [Procs -> Names \cup {NoName}]
           /\ src' \in [Procs -> Sources \cup {NoSource}]
           /\ bundle' \in [Procs -> Bundles \cup {NoBundle}]
  BY DEF ControlTyped, Drop

LEMMA GotoTyped ==
    ASSUME ControlTyped, NEW p \in Procs, NEW l \in Labels, Goto(p, l)
    PROVE  pc' \in [Procs -> Labels]
  BY DEF ControlTyped, Goto

LEMMA FinishTyped ==
    ASSUME ControlTyped, NEW p \in Procs, NEW ok, Finish(p, ok)
    PROVE  ControlTyped'
<1>1. exit' \in [Procs -> {"ok", "error"}]
  BY DEF ControlTyped, Finish
<1>2. CASE Goto(p, "next") /\ Drop(p, "update")
  BY <1>1, <1>2, GotoTyped, DropTyped DEF ControlTyped, Labels, Commands
<1>3. CASE Goto(p, "idle") /\ Drop(p, "none")
  BY <1>1, <1>3, GotoTyped, DropTyped DEF ControlTyped, Labels, Commands
<1> QED
  BY <1>2, <1>3 DEF Finish

LEMMA AbortTyped ==
    ASSUME ControlTyped, NEW p \in Procs, Abort(p)
    PROVE  ControlTyped'
  BY GotoTyped DEF ControlTyped, Abort, job, Labels

LEMMA ProceedTyped ==
    ASSUME ControlTyped, NEW p \in Procs, NEW l \in Labels, Proceed(p, l)
    PROVE  ControlTyped'
  BY GotoTyped DEF ControlTyped, Proceed, job

LEMMA AfterClearTyped ==
    ASSUME ControlTyped, NEW p \in Procs, NEW ok, AfterClear(p, ok)
    PROVE  ControlTyped'
  BY FinishTyped, AbortTyped, ProceedTyped DEF AfterClear, Labels

LEMMA ControlStep ==
    ASSUME ControlTyped, StoreTyped, Phases, [Next]_vars
    PROVE  ControlTyped'
<1> USE FinishTyped, AbortTyped, ProceedTyped, AfterClearTyped
<1>1. ASSUME NEW p \in Procs, Start(p) PROVE ControlTyped'
  BY <1>1 DEF Start, StartAdd, StartUpdate, StartRemove, Begin, Goto, ControlTyped, Labels,
              Commands
<1>2. ASSUME NEW p \in Procs, Step(p) PROVE ControlTyped'
  <2>1. CASE NextTarget(p)
    <3>1. CASE Goto(p, "idle") /\ Drop(p, "none") /\ UNCHANGED exit
      BY <3>1, GotoTyped, DropTyped DEF ControlTyped, Labels, Commands
    <3>2. CASE /\ Goto(p, "meta")
               /\ \E n \in Names : name' = [name EXCEPT ![p] = n]
               /\ UNCHANGED <<cmd, src, bundle, exit>>
      BY <3>2, GotoTyped DEF ControlTyped, Labels
    <3> QED BY <2>1, <3>1, <3>2 DEF NextTarget, StoreTyped
  <2>2. CASE ReadMeta(p)
    <3>1. CASE Finish(p, FALSE) BY <3>1
    <3>2. CASE ~Finish(p, FALSE)
      <4> DEFINE d == visible[name[p]]
      <4>1. /\ d # NoDir /\ content[d][Meta] # NoBundle
            /\ src' = [src EXCEPT ![p] = content[d][Meta][1]]
            /\ Goto(p, "fetch")
            /\ UNCHANGED <<cmd, name, bundle, exit>>
        BY <2>2, <3>2 DEF ReadMeta
      <4>2. name[p] \in Names
        BY <2>2 DEF Phases, ReadMeta
      <4>3. content[d][Meta] \in Bundles
        BY <4>1, <4>2 DEF StoreTyped, Entries
      <4>4. content[d][Meta][1] \in Sources
        BY <4>3 DEF Bundles
      <4> HIDE DEF d
      <4> QED BY <4>1, <4>4, GotoTyped DEF ControlTyped, Labels
    <3> QED BY <3>1, <3>2
  <2>3. CASE Fetch(p)
    <3>1. CASE Finish(p, FALSE) BY <3>1
    <3>2. CASE /\ \E b \in Portable : bundle' = [bundle EXCEPT ![p] = b]
               /\ Goto(p, "stage") /\ UNCHANGED <<cmd, name, src, exit>>
      BY <3>2, GotoTyped, BundleAssumption DEF ControlTyped, Labels
    <3> QED BY <2>3, <3>1, <3>2 DEF Fetch
  <2>4. CASE MakeStaging(p) BY <2>4 DEF MakeStaging, Labels
  <2>5. CASE WriteEntry(p) BY <2>5 DEF WriteEntry, Labels
  <2>6. CASE StatFinal(p) BY <2>6 DEF StatFinal, Labels
  <2>7. CASE OpenVictim(p) BY <2>7 DEF OpenVictim, Labels
  <2>8. CASE Unlink(p) BY <2>8 DEF Unlink, ControlTyped, job
  <2>9. CASE Rmdir(p) BY <2>9 DEF Rmdir
  <2>10. CASE ClearFails(p) BY <2>10 DEF ClearFails
  <2>11. CASE Rename(p) BY <2>11 DEF Rename
  <2>12. CASE StepFails(p) BY <2>12 DEF StepFails
  <2>13. CASE Sweep(p) BY <2>13 DEF Sweep
  <2> QED
    BY <1>2, <2>1, <2>2, <2>3, <2>4, <2>5, <2>6, <2>7, <2>8, <2>9, <2>10, <2>11, <2>12,
       <2>13 DEF Step
<1>3. ASSUME NEW p \in Procs, Crash(p) PROVE ControlTyped'
  BY <1>3, GotoTyped, DropTyped DEF Crash, ControlTyped, Labels, Commands
<1>4. ASSUME NEW s \in Sources, Publish(s) PROVE ControlTyped'
  BY <1>4 DEF Publish, ControlTyped, job
<1>5. CASE UNCHANGED vars
  BY <1>5 DEF vars, ControlTyped
<1> QED
  BY <1>1, <1>2, <1>3, <1>4, <1>5 DEF Next

LEMMA EntryTyped ==
    ASSUME StoreTyped, NEW d, NEW e, NEW b \in Bundles \cup {NoBundle},
           content' = [content EXCEPT ![d] = [@ EXCEPT ![e] = b]]
    PROVE  content' \in [Dirs -> [Entries -> Bundles \cup {NoBundle}]]
<1>1. content \in [Dirs -> [Entries -> Bundles \cup {NoBundle}]]
  BY DEF StoreTyped
<1>2. CASE d \in Dirs
  <2>1. content[d] \in [Entries -> Bundles \cup {NoBundle}]
    BY <1>1, <1>2
  <2>2. [content[d] EXCEPT ![e] = b] \in [Entries -> Bundles \cup {NoBundle}]
    BY <2>1
  <2> QED BY <1>1, <1>2, <2>2
<1>3. CASE d \notin Dirs
  <2>1. content' = content
    BY <1>1, <1>3
  <2> QED BY <1>1, <2>1
<1> QED BY <1>2, <1>3

LEMMA StoreTypedStep ==
    ASSUME ControlTyped, StoreTyped, Phases, Staged, [Next]_vars
    PROVE  StoreTyped'
<1> USE DEF StoreTyped, store
<1>1. ASSUME NEW p \in Procs, Start(p) PROVE StoreTyped'
  BY <1>1 DEF Start, StartAdd, StartUpdate, StartRemove, Begin
<1>2. ASSUME NEW p \in Procs, Step(p) PROVE StoreTyped'
  <2>1. CASE NextTarget(p) BY <2>1 DEF NextTarget
  <2>2. CASE ReadMeta(p) BY <2>2 DEF ReadMeta
  <2>3. CASE Fetch(p) BY <2>3 DEF Fetch
  <2>4. CASE MakeStaging(p) BY <2>4 DEF MakeStaging
  <2>5. CASE WriteEntry(p)
    <3>1. bundle[p] \in Bundles
      BY <2>5, BundleAssumption DEF WriteEntry, Phases, Staged
    <3>2. PICK e : content' = [content EXCEPT ![staging[p]] = [@ EXCEPT ![e] = bundle[p]]]
      BY <2>5 DEF WriteEntry
    <3> QED BY <2>5, <3>1, <3>2, EntryTyped DEF WriteEntry
  <2>6. CASE StatFinal(p) BY <2>6 DEF StatFinal
  <2>7. CASE OpenVictim(p) BY <2>7 DEF OpenVictim, Phases
  <2>8. CASE Unlink(p)
    <3>1. PICK e : content' = [content EXCEPT ![victim[p]] = [@ EXCEPT ![e] = NoBundle]]
      BY <2>8 DEF Unlink
    <3> QED BY <2>8, <3>1, EntryTyped DEF Unlink
  <2>9. CASE Rmdir(p) BY <2>9 DEF Rmdir
  <2>10. CASE ClearFails(p) BY <2>10 DEF ClearFails
  <2>11. CASE Rename(p) BY <2>11 DEF Rename
  <2>12. CASE StepFails(p) BY <2>12 DEF StepFails
  <2>13. CASE Sweep(p) BY <2>13 DEF Sweep, Bare
  <2> QED
    BY <1>2, <2>1, <2>2, <2>3, <2>4, <2>5, <2>6, <2>7, <2>8, <2>9, <2>10, <2>11, <2>12,
       <2>13 DEF Step
<1>3. ASSUME NEW p \in Procs, Crash(p) PROVE StoreTyped'
  BY <1>3 DEF Crash
<1>4. ASSUME NEW s \in Sources, Publish(s) PROVE StoreTyped'
  BY <1>4, RevAssumption DEF Publish, Revs
<1>5. CASE UNCHANGED vars
  BY <1>5 DEF vars
<1> QED
  BY <1>1, <1>2, <1>3, <1>4, <1>5 DEF Next

-----------------------------------------------------------------------------
(* A step of one process leaves the private state of the others alone, and   *)
(* each way a step can end leaves the process at a known program point.      *)

Others(p) ==
    \A q \in Procs \ {p} :
        /\ pc'[q] = pc[q] /\ cmd'[q] = cmd[q] /\ name'[q] = name[q]
        /\ bundle'[q] = bundle[q]
        /\ staging'[q] = staging[q] /\ victim'[q] = victim[q]

\* What Finish, Abort and Proceed do to the process itself.
Ended(p) ==
    /\ pc'[p] \in {"idle", "next"}
    /\ pc'[p] = "next" => cmd'[p] = "update"
    /\ pc'[p] = "idle" => cmd'[p] = "none"

Moved(p, label) ==
    /\ pc'[p] = label /\ cmd'[p] = cmd[p] /\ name'[p] = name[p] /\ bundle'[p] = bundle[p]

ControlOthers(p) ==
    \A q \in Procs \ {p} :
        /\ pc'[q] = pc[q] /\ cmd'[q] = cmd[q] /\ name'[q] = name[q]
        /\ bundle'[q] = bundle[q]

LEMMA FinishEnds ==
    ASSUME ControlTyped, NEW p \in Procs, NEW ok, Finish(p, ok)
    PROVE  Ended(p) /\ ControlOthers(p)
  BY DEF ControlTyped, Finish, Goto, Drop, Ended, ControlOthers

LEMMA AbortMoves ==
    ASSUME ControlTyped, NEW p \in Procs, Abort(p)
    PROVE  Moved(p, "sweep") /\ ControlOthers(p)
  BY DEF ControlTyped, Abort, Goto, job, Moved, ControlOthers

LEMMA ProceedMoves ==
    ASSUME ControlTyped, NEW p \in Procs, NEW l, Proceed(p, l)
    PROVE  Moved(p, l) /\ ControlOthers(p)
  BY DEF ControlTyped, Proceed, Goto, job, Moved, ControlOthers

LEMMA AfterClearMoves ==
    ASSUME ControlTyped, NEW p \in Procs, NEW ok, AfterClear(p, ok)
    PROVE  /\ ControlOthers(p)
           /\ cmd[p] = "remove" => Ended(p)
           /\ cmd[p] # "remove" => Moved(p, "rename") \/ Moved(p, "sweep")
  BY FinishEnds, AbortMoves, ProceedMoves DEF AfterClear

LEMMA OneProcess ==
    ASSUME ControlTyped, StoreTyped, NEW p \in Procs, Start(p) \/ Step(p) \/ Crash(p)
    PROVE  Others(p)
<1> USE FinishEnds, AbortMoves, ProceedMoves, AfterClearMoves
<1>1. CASE Start(p) \/ Crash(p)
  BY <1>1 DEF Start, StartAdd, StartUpdate, StartRemove, Begin, Crash, Goto, Drop, Others,
              ControlTyped, StoreTyped
<1>2. CASE NextTarget(p)
  BY <1>2 DEF NextTarget, Goto, Drop, Others, ControlTyped
<1>3. CASE ReadMeta(p)
  BY <1>3 DEF ReadMeta, Goto, Others, ControlOthers, ControlTyped
<1>4. CASE Fetch(p)
  BY <1>4 DEF Fetch, Goto, Others, ControlOthers, ControlTyped
<1>5. CASE MakeStaging(p) \/ WriteEntry(p) \/ StatFinal(p)
  BY <1>5 DEF MakeStaging, WriteEntry, StatFinal, Others, ControlOthers, StoreTyped
<1>6. CASE OpenVictim(p)
  BY <1>6 DEF OpenVictim, Others, ControlOthers, StoreTyped
<1>7. CASE Unlink(p)
  BY <1>7 DEF Unlink, job, Others
<1>8. CASE Rmdir(p) \/ ClearFails(p)
  BY <1>8 DEF Rmdir, ClearFails, Others, ControlOthers, StoreTyped
<1>9. CASE Rename(p) \/ StepFails(p) \/ Sweep(p)
  BY <1>9 DEF Rename, StepFails, Sweep, Others, ControlOthers, StoreTyped
<1> QED
  BY <1>1, <1>2, <1>3, <1>4, <1>5, <1>6, <1>7, <1>8, <1>9 DEF Step

LEMMA PhasesStep ==
    ASSUME ControlTyped, StoreTyped, Phases, [Next]_vars
    PROVE  Phases'
<1> DEFINE At(q) ==
        /\ pc[q] \in {"fetch", "stage", "write", "rename", "sweep"} => cmd[q] \in Installers
        /\ pc[q] \in {"next", "meta"} => cmd[q] = "update"
        /\ pc[q] = "stat" => cmd[q] # "none"
        /\ pc[q] \in {"open", "clear"} => cmd[q] \notin {"none", "add"}
        /\ pc[q] \notin {"idle", "next"} => name[q] \in Names
        /\ pc[q] = "clear" => victim[q] # NoDir
<1>0. \A q \in Procs : At(q)
  BY DEF Phases
<1>1. ASSUME NEW p \in Procs, Start(p) \/ Step(p) \/ Crash(p) PROVE Phases'
  <2> USE FinishEnds, AbortMoves, ProceedMoves, AfterClearMoves
  <2>0. At(p)
    BY <1>0
  <2>1. ASSUME Start(p) PROVE At(p)'
    BY <2>0, <2>1 DEF Start, StartAdd, StartUpdate, StartRemove, Begin, Goto, ControlTyped,
                      Installers
  <2>2. ASSUME Crash(p) PROVE At(p)'
    BY <2>2 DEF Crash, Goto, ControlTyped
  <2>3. ASSUME NextTarget(p) PROVE At(p)'
    BY <2>0, <2>3 DEF NextTarget, Goto, Drop, ControlTyped, StoreTyped
  <2>4. ASSUME ReadMeta(p) PROVE At(p)'
    <3>1. \/ Ended(p)
          \/ pc'[p] = "fetch" /\ cmd'[p] = cmd[p] /\ name'[p] = name[p]
      BY <2>4 DEF ReadMeta, Goto, ControlTyped
    <3> QED BY <2>0, <2>4, <3>1 DEF ReadMeta, Ended, Installers
  <2>5. ASSUME Fetch(p) PROVE At(p)'
    BY <2>0, <2>5 DEF Fetch, Goto, ControlTyped, Installers, Ended
  <2>6. ASSUME MakeStaging(p) \/ WriteEntry(p) PROVE At(p)'
    <3>1. Moved(p, "write") \/ Moved(p, "stat")
      BY <2>6 DEF MakeStaging, WriteEntry
    <3> QED BY <2>0, <2>6, <3>1 DEF MakeStaging, WriteEntry, Moved, Installers
  <2>7. ASSUME StatFinal(p) PROVE At(p)'
    <3>1. cmd[p] \in Installers \cup {"remove"} /\ name[p] \in Names
      BY <2>0, <2>7 DEF StatFinal, Installers, Commands, ControlTyped
    <3>2. CASE Replaces(p) /\ Proceed(p, "open")
      BY <3>1, <3>2 DEF Replaces, Moved
    <3>3. CASE cmd[p] = "remove" /\ Proceed(p, "open")
      BY <3>1, <3>3 DEF Moved
    <3>4. CASE cmd[p] = "add" /\ Abort(p)
      BY <3>1, <3>4 DEF Moved, Installers
    <3>5. CASE Finish(p, FALSE)
      BY <3>1, <3>5 DEF Ended
    <3>6. CASE cmd[p] # "remove" /\ Proceed(p, "rename")
      BY <3>1, <3>6 DEF Moved, Installers
    <3>7. \/ Replaces(p) /\ Proceed(p, "open")
          \/ cmd[p] = "remove" /\ Proceed(p, "open")
          \/ cmd[p] = "add" /\ Abort(p)
          \/ Finish(p, FALSE)
          \/ cmd[p] # "remove" /\ Proceed(p, "rename")
      BY <2>7, Zenon DEF StatFinal
    <3> HIDE DEF At
    <3> QED BY <3>2, <3>3, <3>4, <3>5, <3>6, <3>7, Zenon
  <2>8. ASSUME OpenVictim(p) PROVE At(p)'
    <3>1. cmd[p] \in Installers \cup {"remove"}
      BY <2>0, <2>8 DEF OpenVictim, Installers, Commands, ControlTyped
    <3>2. \/ Ended(p)
          \/ (Moved(p, "rename") \/ Moved(p, "sweep")) /\ cmd[p] # "remove"
          \/ Moved(p, "clear") /\ victim'[p] # NoDir
      BY <2>8 DEF OpenVictim, StoreTyped
    <3> QED BY <2>0, <2>8, <3>1, <3>2 DEF OpenVictim, Moved, Ended, Installers
  <2>9. ASSUME Unlink(p) PROVE At(p)'
    BY <2>0, <2>9 DEF Unlink, job
  <2>10. ASSUME Rmdir(p) \/ ClearFails(p) PROVE At(p)'
    <3>1. cmd[p] \in Installers \cup {"remove"}
      BY <2>0, <2>10 DEF Rmdir, ClearFails, Installers, Commands, ControlTyped
    <3>2. \/ Ended(p)
          \/ (Moved(p, "rename") \/ Moved(p, "sweep")) /\ cmd[p] # "remove"
      <4>1. \E ok : AfterClear(p, ok)
        BY <2>10, Zenon DEF Rmdir, ClearFails
      <4> QED BY <4>1, AfterClearMoves, Zenon
    <3> QED BY <2>0, <2>10, <3>1, <3>2 DEF Rmdir, ClearFails, Moved, Ended, Installers
  <2>11. ASSUME Rename(p) \/ StepFails(p) \/ Sweep(p) PROVE At(p)'
    <3>1. \/ Ended(p)
          \/ /\ Moved(p, "sweep")
             /\ pc[p] \in {"write", "rename"} \/ (pc[p] = "stat" /\ cmd[p] # "remove")
      <4>1. \/ Finish(p, TRUE) \/ Finish(p, FALSE)
            \/ /\ Abort(p)
               /\ pc[p] \in {"write", "rename"} \/ (pc[p] = "stat" /\ cmd[p] # "remove")
        BY <2>11, Zenon DEF Rename, StepFails, Sweep
      <4> QED BY <4>1, FinishEnds, AbortMoves, Zenon
    <3>2. cmd[p] \in Commands
      BY DEF ControlTyped
    <3> QED BY <2>0, <2>11, <3>1, <3>2 DEF Moved, Ended, Installers, Commands
  <2>20. At(p)'
    BY <1>1, <2>1, <2>2, <2>3, <2>4, <2>5, <2>6, <2>7, <2>8, <2>9, <2>10, <2>11 DEF Step
  <2>21. \A q \in Procs \ {p} : At(q)'
    BY <1>0, <1>1, OneProcess DEF Others
  <2> QED BY <2>20, <2>21 DEF Phases
<1>2. CASE \/ \E s \in Sources : Publish(s)
           \/ UNCHANGED vars
  BY <1>2 DEF Publish, vars, job, Phases
<1> QED BY <1>1, <1>2 DEF Next

-----------------------------------------------------------------------------
(* Private directories.  The steps that touch a directory or a name are      *)
(* MakeStaging, WriteEntry, OpenVictim, Unlink, Rmdir, Rename and Sweep;     *)
(* the others at most let go of a staging directory or a victim.             *)

LetsGo ==
    /\ UNCHANGED <<visible, content, used>>
    /\ \A p \in Procs : staging'[p] \in {staging[p], NoDir}
    /\ \A p \in Procs : victim'[p] \in {victim[p], NoDir}

LEMMA LetsGoStep ==
    ASSUME ControlTyped, StoreTyped, NEW p \in Procs,
           \/ Start(p) \/ Crash(p) \/ NextTarget(p) \/ ReadMeta(p) \/ Fetch(p) \/ StatFinal(p)
           \/ ClearFails(p) \/ StepFails(p)
    PROVE  LetsGo
<1> USE DEF LetsGo, store, StoreTyped
<1>1. CASE Start(p) BY <1>1 DEF Start, StartAdd, StartUpdate, StartRemove, Begin
<1>2. CASE Crash(p) BY <1>2 DEF Crash
<1>3. CASE NextTarget(p) BY <1>3 DEF NextTarget
<1>4. CASE ReadMeta(p) \/ Fetch(p) \/ StatFinal(p) BY <1>4 DEF ReadMeta, Fetch, StatFinal
<1>5. CASE ClearFails(p) BY <1>5 DEF ClearFails
<1>6. CASE StepFails(p) BY <1>6 DEF StepFails
<1> QED BY <1>1, <1>2, <1>3, <1>4, <1>5, <1>6

LEMMA PrivateStep ==
    ASSUME ControlTyped, StoreTyped, Phases, Private, Staged, [Next]_vars
    PROVE  Private'
<1>1. ASSUME LetsGo PROVE Private'
  BY <1>1 DEF LetsGo, Private, IsBare, Bare
<1>2. ASSUME NEW p \in Procs, MakeStaging(p) PROVE Private'
  BY <1>2, NameAssumption DEF MakeStaging, Private, IsBare, StoreTyped
<1>3. ASSUME NEW p \in Procs, WriteEntry(p) PROVE Private'
  <2>1. staging[p] \in used
    BY <1>3 DEF WriteEntry, Private, Staged, Phases
  <2>2. PICK e : content' = [content EXCEPT ![staging[p]] = [@ EXCEPT ![e] = bundle[p]]]
    BY <1>3 DEF WriteEntry
  <2>3. \A d \in Dirs \ used : content'[d] = content[d]
    BY <2>1, <2>2 DEF StoreTyped
  <2> QED BY <1>3, <2>3 DEF WriteEntry, Private, IsBare
<1>4. ASSUME NEW p \in Procs, OpenVictim(p) PROVE Private'
  <2>1. name[p] \in Names
    BY <1>4 DEF OpenVictim, Phases
  <2>2. UNCHANGED <<visible, content, used, staging>>
    BY <1>4 DEF OpenVictim, store
  <2>3. \A q \in Procs : victim'[q] \in {victim[q], visible[name[p]]}
    BY <1>4 DEF OpenVictim, StoreTyped
  <2>4. \A q, r \in Procs : staging[q] # NoDir => victim'[r] # staging[q]
    BY <2>1, <2>3 DEF Private
  <2>5. \A q \in Procs : victim'[q] # NoDir => victim'[q] \in used
    BY <2>1, <2>3 DEF Private
  <2> QED BY <2>2, <2>4, <2>5 DEF Private, IsBare, Bare
<1>5. ASSUME NEW p \in Procs, Unlink(p) PROVE Private'
  <2>1. victim[p] \in used
    BY <1>5 DEF Unlink, Private, Phases
  <2>2. PICK e : content' = [content EXCEPT ![victim[p]] = [@ EXCEPT ![e] = NoBundle]]
    BY <1>5 DEF Unlink
  <2>3. \A d \in Dirs \ used : content'[d] = content[d]
    BY <2>1, <2>2 DEF StoreTyped
  <2> QED BY <1>5, <2>3 DEF Unlink, Private, IsBare
<1>6. ASSUME NEW p \in Procs, Rmdir(p) PROVE Private'
  BY <1>6 DEF Rmdir, Private, IsBare, StoreTyped
<1>7. ASSUME NEW p \in Procs, Rename(p) PROVE Private'
  <2>1. staging[p] # NoDir /\ name[p] \in Names
    BY <1>7 DEF Rename, Phases, Staged
  <2> QED BY <1>7, <2>1 DEF Rename, Private, IsBare, StoreTyped
<1>8. ASSUME NEW p \in Procs, Sweep(p) PROVE Private'
  BY <1>8 DEF Sweep, Private, IsBare, StoreTyped
<1>9. CASE (\E s \in Sources : Publish(s)) \/ UNCHANGED vars
  BY <1>9, <1>1 DEF Publish, vars, store, LetsGo
<1> QED
  BY <1>1, <1>2, <1>3, <1>4, <1>5, <1>6, <1>7, <1>8, <1>9, LetsGoStep DEF Next, Step

-----------------------------------------------------------------------------
(* What is staged, and what a reader can see. *)

LEMMA BareFull == \A b \in Bundles : Bare # Full(b)
<1> TAKE b \in Bundles
<1>1. Full(b)[Meta] = b /\ Bare[Meta] = NoBundle
  BY DEF Full, Bare, Entries
<1> QED BY <1>1, BundleAssumption

LEMMA StagedStep ==
    ASSUME ControlTyped, StoreTyped, Phases, Private, Staged, [Next]_vars
    PROVE  Staged'
<1> DEFINE Ready(q) == cmd[q] \in Installers =>
        /\ pc[q] \in {"stage", "write", "stat", "open", "clear", "rename"} =>
              bundle[q] \in Portable
        /\ pc[q] \in {"write", "stat", "open", "clear", "rename"} => staging[q] # NoDir
        /\ pc[q] = "write" => Partial(staging[q], bundle[q])
        /\ pc[q] \in {"stat", "open", "clear", "rename"} =>
              content[staging[q]] = Full(bundle[q])
<1>0. \A q \in Procs : Ready(q)
  BY DEF Staged
<1>1. ASSUME NEW q \in Procs, Ready(q), UNCHANGED <<cmd[q], pc[q], bundle[q], staging[q]>>,
             staging[q] # NoDir => content'[staging[q]] = content[staging[q]]
      PROVE  Ready(q)'
  BY <1>1 DEF Partial
<1>2. ASSUME NEW p \in Procs, Start(p) \/ Step(p) \/ Crash(p), NEW q \in Procs \ {p}
      PROVE  Ready(q)'
  <2>1. UNCHANGED <<cmd[q], pc[q], bundle[q], staging[q]>>
    BY <1>2, OneProcess DEF Others
  <2>2. staging[q] # NoDir => content'[staging[q]] = content[staging[q]]
    <3>1. CASE Unlink(p)
      BY <3>1 DEF Unlink, Private, StoreTyped
    <3>2. CASE WriteEntry(p)
      BY <3>2 DEF WriteEntry, Private, StoreTyped
    <3>3. CASE Sweep(p)
      BY <3>3 DEF Sweep, Private, StoreTyped
    <3>4. CASE ~(Unlink(p) \/ WriteEntry(p) \/ Sweep(p))
      BY <1>2, <3>4, LetsGoStep DEF Step, MakeStaging, OpenVictim, Rmdir, Rename, LetsGo, store
    <3> QED BY <3>1, <3>2, <3>3, <3>4
  <2> QED BY <1>0, <1>1, <2>1, <2>2
<1>3. ASSUME NEW p \in Procs, Ended(p) PROVE Ready(p)'
  BY <1>3 DEF Ended
<1>4. ASSUME NEW p \in Procs, NEW l, Moved(p, l), pc[p] \in {"write", "stat", "open", "clear"},
             l \in {"open", "clear", "rename", "sweep"},
             cmd[p] # "remove" \/ l \in {"open", "clear"},
             pc[p] # "write" \/ l = "sweep",
             UNCHANGED <<content, staging>>
      PROVE  Ready(p)'
  BY <1>0, <1>4 DEF Moved
<1>5. ASSUME NEW p \in Procs, Start(p) \/ Step(p) \/ Crash(p) PROVE Ready(p)'
  <2> USE AbortMoves, ProceedMoves, FinishEnds, AfterClearMoves
  <2>1. CASE Start(p) \/ Crash(p)
    BY <2>1 DEF Start, StartAdd, StartUpdate, StartRemove, Begin, Crash, Goto, ControlTyped,
                Installers
  <2>2. CASE NextTarget(p)
    BY <2>2 DEF NextTarget, Goto, ControlTyped
  <2>3. CASE ReadMeta(p)
    <3>1. Ended(p) \/ pc'[p] = "fetch"
      BY <2>3 DEF ReadMeta, Goto, ControlTyped
    <3> QED BY <3>1 DEF Ended
  <2>4. CASE Fetch(p)
    <3>1. \/ Ended(p)
          \/ pc'[p] = "stage" /\ bundle'[p] \in Portable
      BY <2>4 DEF Fetch, Goto, ControlTyped
    <3> QED BY <3>1 DEF Ended
  <2>5. CASE MakeStaging(p)
    <3>1. PICK d \in Dirs \ used : staging' = [staging EXCEPT ![p] = d]
      BY <2>5 DEF MakeStaging
    <3>2. /\ Moved(p, "write") /\ content' = content
          /\ staging'[p] = d /\ d # NoDir /\ content[d] = Bare
      BY <2>5, <3>1, NameAssumption DEF MakeStaging, StoreTyped, Private, IsBare
    <3>3. pc[p] = "stage"
      BY <2>5 DEF MakeStaging
    <3> QED BY <1>0, <3>2, <3>3 DEF Moved, Partial, Bare
  <2>6. CASE WriteEntry(p)
    <3> DEFINE s == staging[p]
               b == bundle[p]
               missing == {f \in Members[b] : content[s][f] = NoBundle}
    <3>1. /\ cmd[p] \in Installers /\ pc[p] = "write" /\ b \in Portable
          /\ s \in Dirs /\ Partial(s, b)
      BY <1>0, <2>6 DEF WriteEntry, Phases, StoreTyped
    <3>2. PICK e \in IF missing # {} THEN missing ELSE {Meta} :
             /\ content' = [content EXCEPT ![s] = [@ EXCEPT ![e] = b]]
             /\ Moved(p, IF e = Meta THEN "stat" ELSE "write")
      BY <2>6, ProceedMoves DEF WriteEntry
    <3>3. b \in Bundles /\ Members[b] \subseteq Files /\ b # NoBundle
      BY <3>1, BundleAssumption
    <3>4. e \in Entries /\ Full(b)[e] = b
      BY <3>2, <3>3 DEF Entries, Full
    <3>5. /\ content'[s] = [content[s] EXCEPT ![e] = b]
          /\ content[s] \in [Entries -> Bundles \cup {NoBundle}]
      BY <3>1, <3>2 DEF StoreTyped
    <3>6. staging'[p] = s
      BY <2>6 DEF WriteEntry
    <3>7. CASE missing # {}
      <4>1. e # Meta
        BY <3>2, <3>3, <3>7, NameAssumption
      <4>2. \A x \in Entries : content'[s][x] \in {Full(b)[x], NoBundle}
        BY <3>1, <3>4, <3>5 DEF Partial
      <4> QED BY <3>1, <3>2, <3>6, <4>1, <4>2, NameAssumption DEF Moved, Partial
    <3>8. CASE missing = {}
      <4>1. e = Meta
        BY <3>2, <3>8
      <4>2. \A x \in Entries : content'[s][x] = Full(b)[x]
        BY <3>1, <3>3, <3>4, <3>5, <3>8, <4>1 DEF Partial, Full
      <4>3. content'[s] = Full(b)
        BY <3>5, <4>2 DEF Full
      <4> QED BY <3>1, <3>2, <3>6, <4>1, <4>3, NameAssumption DEF Moved
    <3> QED BY <3>7, <3>8
  <2>7. CASE StatFinal(p)
    <3>1. \/ Ended(p) \/ Moved(p, "open")
          \/ cmd[p] # "remove" /\ (Moved(p, "rename") \/ Moved(p, "sweep"))
      BY <2>7 DEF StatFinal
    <3>2. pc[p] = "stat" /\ UNCHANGED <<content, staging>>
      BY <2>7 DEF StatFinal, store
    <3> QED BY <1>3, <1>4, <3>1, <3>2
  <2>8. CASE OpenVictim(p)
    <3>1. \/ Ended(p) \/ Moved(p, "clear")
          \/ cmd[p] # "remove" /\ (Moved(p, "rename") \/ Moved(p, "sweep"))
      BY <2>8 DEF OpenVictim
    <3>2. pc[p] = "open" /\ UNCHANGED <<content, staging>>
      BY <2>8 DEF OpenVictim, store
    <3> QED BY <1>3, <1>4, <3>1, <3>2
  <2>9. CASE Unlink(p)
    <3>1. staging[p] # NoDir => content'[staging[p]] = content[staging[p]]
      BY <2>9 DEF Unlink, Private, StoreTyped
    <3> QED BY <1>0, <1>1, <2>9, <3>1 DEF Unlink, job
  <2>10. CASE Rmdir(p) \/ ClearFails(p)
    <3>1. \E ok : AfterClear(p, ok)
      BY <2>10, Zenon DEF Rmdir, ClearFails
    <3>2. \/ Ended(p)
          \/ cmd[p] # "remove" /\ (Moved(p, "rename") \/ Moved(p, "sweep"))
      BY <3>1, Zenon
    <3>3. pc[p] \in {"open", "clear"} /\ UNCHANGED <<content, staging>>
      BY <2>10 DEF Rmdir, ClearFails, store
    <3> QED BY <1>3, <1>4, <3>2, <3>3
  <2>11. CASE Rename(p) \/ StepFails(p) \/ Sweep(p)
    <3>1. Finish(p, TRUE) \/ Finish(p, FALSE) \/ Abort(p)
      BY <2>11, Zenon DEF Rename, StepFails, Sweep
    <3>2. Ended(p) \/ Moved(p, "sweep")
      BY <3>1, Zenon
    <3> QED BY <1>3, <3>2 DEF Moved
  <2> QED BY <1>5, <2>1, <2>2, <2>3, <2>4, <2>5, <2>6, <2>7, <2>8, <2>9, <2>10, <2>11 DEF Step
<1>6. CASE (\E s \in Sources : Publish(s)) \/ UNCHANGED vars
  BY <1>6, <1>0 DEF Publish, vars, store, job, Staged, Partial
<1>7. ASSUME NEW p \in Procs, Start(p) \/ Step(p) \/ Crash(p) PROVE Staged'
  <2>1. \A q \in Procs : Ready(q)'
    BY <1>2, <1>5, <1>7
  <2> QED BY <2>1 DEF Staged
<1> QED BY <1>6, <1>7 DEF Next

LEMMA InstalledStep ==
    ASSUME ControlTyped, StoreTyped, Phases, Private, Staged, OneBundlePerCatalog, [Next]_vars
    PROVE  OneBundlePerCatalog'
<1> DEFINE Pure(d) == \E b \in Portable : Partial(d, b)
<1>0. \A n \in Names : visible[n] # NoDir => Pure(visible[n])
  BY DEF OneBundlePerCatalog, Partial
<1>1. ASSUME UNCHANGED visible, \A n \in Names : visible[n] # NoDir => Pure(visible[n])'
      PROVE  OneBundlePerCatalog'
  BY <1>1 DEF OneBundlePerCatalog, Partial
<1>2. ASSUME UNCHANGED visible,
             \A n \in Names : visible[n] # NoDir => content'[visible[n]] = content[visible[n]]
      PROVE  OneBundlePerCatalog'
  BY <1>0, <1>2 DEF OneBundlePerCatalog, Partial
<1>3. ASSUME NEW p \in Procs, Unlink(p) PROVE OneBundlePerCatalog'
  <2>1. ASSUME NEW n \in Names, visible[n] # NoDir, NEW e \in Entries
        PROVE  content'[visible[n]][e] \in {content[visible[n]][e], NoBundle}
    BY <1>3, <2>1 DEF Unlink, StoreTyped
  <2>2. UNCHANGED visible
    BY <1>3 DEF Unlink
  <2> QED BY <1>0, <2>1, <2>2 DEF OneBundlePerCatalog, Partial
<1>4. ASSUME NEW p \in Procs, WriteEntry(p) \/ Sweep(p) PROVE OneBundlePerCatalog'
  <2>1. \A n \in Names : visible[n] # NoDir => content'[visible[n]] = content[visible[n]]
    BY <1>4 DEF WriteEntry, Sweep, Private, StoreTyped
  <2> QED BY <1>2, <1>4, <2>1 DEF WriteEntry, Sweep
<1>5. ASSUME NEW p \in Procs, Rmdir(p) PROVE OneBundlePerCatalog'
  BY <1>0, <1>5 DEF Rmdir, OneBundlePerCatalog, Partial, StoreTyped
<1>6. ASSUME NEW p \in Procs, Rename(p) PROVE OneBundlePerCatalog'
  <2>1. /\ name[p] \in Names /\ bundle[p] \in Portable
        /\ content[staging[p]] = Full(bundle[p])
    BY <1>6 DEF Rename, Phases, Staged
  <2> QED BY <1>0, <1>6, <2>1 DEF Rename, OneBundlePerCatalog, Partial, StoreTyped
<1>7. ASSUME NEW p \in Procs, MakeStaging(p) \/ OpenVictim(p) PROVE OneBundlePerCatalog'
  BY <1>2, <1>7 DEF MakeStaging, OpenVictim, store
<1>8. CASE (\E s \in Sources : Publish(s)) \/ UNCHANGED vars
  BY <1>2, <1>8 DEF Publish, vars, store
<1>9. CASE LetsGo
  BY <1>2, <1>9 DEF LetsGo
<1> QED
  BY <1>3, <1>4, <1>5, <1>6, <1>7, <1>8, <1>9, LetsGoStep DEF Next, Step

-----------------------------------------------------------------------------
(* Theorems. *)

LEMMA TypeParts == TypeOK <=> ControlTyped /\ StoreTyped
  BY DEF TypeOK, ControlTyped, StoreTyped

\* The inductive invariant behind every theorem below.
THEOREM Inductive == Spec => []IInv
<1>1. IInv /\ [Next]_vars => IInv'
  BY TypeParts, ControlStep, StoreTypedStep, PhasesStep, PrivateStep, StagedStep, InstalledStep
     DEF IInv, ControlTyped, StoreTyped, TypeOK
<1> QED
  BY TypeInit, <1>1, PTL DEF Spec

\* Every reachable state is well typed.
THEOREM TypeCorrect == Spec => []TypeOK
<1>1. IInv => TypeOK
  BY DEF IInv
<1> QED BY <1>1, Inductive, PTL

\* However many processes install, update and remove, fail and die: a catalog
\* that a reader can see never holds entries of two bundles, or of one that the
\* install-time gate has not accepted.
THEOREM CatalogsAreNeverMixed == Spec => []OneBundlePerCatalog
<1>1. IInv => OneBundlePerCatalog
  BY DEF IInv
<1> QED BY <1>1, Inductive, PTL

LEMMA LeftOversStay ==
    ASSUME IInv, [Next]_vars, NEW d \in Dirs, IsLeftOver(d)
    PROVE  IsLeftOver(d)' /\ content'[d] = content[d]
<1> USE DEF IInv, IsLeftOver
<1>0. ControlTyped /\ StoreTyped
  BY TypeParts
<1>1. CASE LetsGo
  BY <1>1, NameAssumption DEF LetsGo
<1>2. ASSUME NEW p \in Procs, MakeStaging(p) PROVE IsLeftOver(d)' /\ content'[d] = content[d]
  BY <1>0, <1>2 DEF MakeStaging, StoreTyped
<1>3. ASSUME NEW p \in Procs, WriteEntry(p) \/ Sweep(p)
      PROVE  IsLeftOver(d)' /\ content'[d] = content[d]
  BY <1>0, <1>3, NameAssumption DEF WriteEntry, Sweep, StoreTyped
<1>4. ASSUME NEW p \in Procs, OpenVictim(p) PROVE IsLeftOver(d)' /\ content'[d] = content[d]
  BY <1>0, <1>4 DEF OpenVictim, Phases, StoreTyped, store
<1>5. ASSUME NEW p \in Procs, Unlink(p) PROVE IsLeftOver(d)' /\ content'[d] = content[d]
  BY <1>0, <1>5 DEF Unlink, StoreTyped
<1>6. ASSUME NEW p \in Procs, Rmdir(p) \/ Rename(p)
      PROVE  IsLeftOver(d)' /\ content'[d] = content[d]
  BY <1>0, <1>6, NameAssumption DEF Rmdir, Rename, StoreTyped
<1>7. CASE (\E s \in Sources : Publish(s)) \/ UNCHANGED vars
  BY <1>7 DEF Publish, vars, store
<1> QED
  BY <1>0, <1>1, <1>2, <1>3, <1>4, <1>5, <1>6, <1>7, LetsGoStep DEF Next, Step

\* A staging directory belongs to one running install and is no catalog, no directory
\* is two catalogs, and one that a crash leaves behind is never taken up again.
THEOREM StagingStaysPrivate == Spec => StagingIsPrivate
<1>1. IInv => /\ \A m, n \in Names : visible[m] = visible[n] /\ visible[m] # NoDir => m = n
              /\ \A p \in Procs, n \in Names : staging[p] # NoDir => staging[p] # visible[n]
  BY DEF IInv, Private
<1>2. IInv /\ [Next]_vars =>
        [\A d \in Dirs : IsLeftOver(d) => IsLeftOver(d)' /\ content'[d] = content[d]]_vars
  BY LeftOversStay
<1> QED BY <1>1, <1>2, Inductive, PTL DEF Spec, StagingIsPrivate

-----------------------------------------------------------------------------
(* What a step may do to the catalogs a reader sees.                         *)

\* Every step leaves each visible catalog alone or does one of three things to it.
Arrives(n) ==
    /\ visible[n] \in Vacant
    /\ \E p \in Procs :
        /\ visible' = [visible EXCEPT ![n] = staging[p]]
        /\ staging[p] \in Dirs /\ bundle[p] \in Portable
        /\ content[staging[p]] = Full(bundle[p])
    /\ content' = content

Leaves(n) ==
    /\ visible[n] \in Vacant
    /\ visible' = [visible EXCEPT ![n] = NoDir]
    /\ content' = content

Loses ==
    /\ visible' = visible
    /\ \E p \in Procs, e \in Entries :
        /\ pc[p] = "clear" /\ victim[p] \in Dirs
        /\ content[victim[p]][e] # NoBundle
        /\ content' = [content EXCEPT ![victim[p]] = [@ EXCEPT ![e] = NoBundle]]

Untouched ==
    /\ visible' = visible
    /\ \A n \in Names : visible[n] # NoDir => content'[visible[n]] = content[visible[n]]

LEMMA Effects ==
    ASSUME IInv, [Next]_vars
    PROVE  Untouched \/ Loses \/ \E n \in Names : Arrives(n) \/ Leaves(n)
<1> USE DEF IInv
<1>0. ControlTyped /\ StoreTyped
  BY TypeParts
<1>1. ASSUME NEW p \in Procs, Unlink(p) PROVE Loses
  BY <1>0, <1>1 DEF Unlink, Loses, StoreTyped, Phases
<1>2. ASSUME NEW p \in Procs, Rename(p) PROVE \E n \in Names : Arrives(n)
  <2>1. /\ name[p] \in Names /\ bundle[p] \in Portable /\ staging[p] \in Dirs
        /\ content[staging[p]] = Full(bundle[p])
    BY <1>0, <1>2 DEF Rename, Phases, Staged, StoreTyped
  <2> QED BY <1>2, <2>1 DEF Rename, Arrives
<1>3. ASSUME NEW p \in Procs, Rmdir(p) PROVE Untouched \/ \E n \in Names : Leaves(n)
  BY <1>3 DEF Rmdir, Leaves, Untouched, Phases
<1>4. ASSUME NEW p \in Procs, WriteEntry(p) \/ Sweep(p) PROVE Untouched
  BY <1>0, <1>4 DEF WriteEntry, Sweep, Private, StoreTyped, Untouched
<1>5. ASSUME NEW p \in Procs, MakeStaging(p) \/ OpenVictim(p) PROVE Untouched
  BY <1>5 DEF MakeStaging, OpenVictim, store, Untouched
<1>6. CASE (\E s \in Sources : Publish(s)) \/ UNCHANGED vars
  BY <1>6 DEF Publish, vars, store, Untouched
<1>7. CASE LetsGo
  BY <1>7 DEF LetsGo, Untouched
<1> QED
  BY <1>0, <1>1, <1>2, <1>3, <1>4, <1>5, <1>6, <1>7, LetsGoStep DEF Next, Step

LEMMA WholeStep == IInv /\ [Next]_vars =>
    \A n \in Names : visible'[n] \notin {visible[n], NoDir} => IsWhole(visible'[n])
  BY Effects, TypeParts DEF Untouched, Loses, Arrives, Leaves, IsWhole, IInv, StoreTyped

LEMMA OpenerStep == IInv /\ [Next]_vars =>
    \A n \in Names : visible[n] # NoDir /\ content'[visible[n]] # content[visible[n]] =>
        \E p \in Procs : victim[p] = visible[n]
  BY Effects, TypeParts DEF Untouched, Loses, Arrives, Leaves, IInv, StoreTyped

\* A catalog that appears is complete, whatever the other processes do.
THEOREM CatalogsArriveWhole == Spec => WholeOnArrival
<1>1. IInv /\ [Next]_vars => [\A n \in Names :
          visible'[n] \notin {visible[n], NoDir} => IsWhole(visible'[n])]_vars
  BY WholeStep
<1> QED BY <1>1, Inductive, PTL DEF Spec, WholeOnArrival

\* Only a process that has opened a directory removes entries from it.
THEOREM OnlyOpenersEmpty == Spec => OnlyItsOpenerEmptiesACatalog
<1>1. IInv /\ [Next]_vars => [\A n \in Names :
          visible[n] # NoDir /\ content'[visible[n]] # content[visible[n]] =>
              \E p \in Procs : victim[p] = visible[n]]_vars
  BY OpenerStep
<1> QED BY <1>1, Inductive, PTL DEF Spec, OnlyItsOpenerEmptiesACatalog

LEMMA WholeIsNotVacant ==
    ASSUME NEW d \in Dirs, IsWhole(d)
    PROVE  d \notin Vacant
  BY BareFull, BundleAssumption, NameAssumption DEF IsWhole, Vacant, IsBare

LEMMA PlainAddStep == IInv /\ [Next]_vars =>
    ((\A p \in Procs : cmd[p] \in {"none", "add"}) =>
        \A n \in Names : visible[n] # NoDir /\ IsWhole(visible[n]) =>
            visible'[n] = visible[n] /\ content'[visible[n]] = content[visible[n]])
<1> SUFFICES ASSUME IInv, [Next]_vars,
                    \A p \in Procs : cmd[p] \in {"none", "add"},
                    NEW n \in Names, visible[n] # NoDir, IsWhole(visible[n])
             PROVE  visible'[n] = visible[n] /\ content'[visible[n]] = content[visible[n]]
  OBVIOUS
<1>1. StoreTyped /\ visible[n] \in Dirs
  BY TypeParts DEF IInv, StoreTyped
<1>2. visible[n] \notin Vacant
  BY <1>1, WholeIsNotVacant
<1>3. ~Loses
  BY DEF Loses, IInv, Phases
<1>4. ASSUME NEW m \in Names, Arrives(m) \/ Leaves(m)
      PROVE  visible'[n] = visible[n] /\ content' = content
  BY <1>1, <1>2, <1>4 DEF Arrives, Leaves, StoreTyped
<1> QED BY <1>3, <1>4, Effects DEF Untouched

\* A complete catalog survives any number of concurrent installs without --force.
THEOREM PlainAddsReplaceNothing == Spec => PlainAddNeverReplaces
<1>1. IInv /\ [Next]_vars => [(\A p \in Procs : cmd[p] \in {"none", "add"}) =>
        \A n \in Names : visible[n] # NoDir /\ IsWhole(visible[n]) =>
            visible'[n] = visible[n] /\ content'[visible[n]] = content[visible[n]]]_vars
  BY PlainAddStep
<1> QED BY <1>1, Inductive, PTL DEF Spec, PlainAddNeverReplaces

-----------------------------------------------------------------------------
(* Refinement of CatalogLifecycle. *)

LEMMA FullIsInjective ==
    ASSUME NEW b \in Bundles, NEW c \in Bundles, Full(b) = Full(c)
    PROVE  b = c
<1>1. Full(b)[Meta] = b /\ Full(c)[Meta] = c
  BY DEF Full, Entries
<1> QED BY <1>1

LEMMA StatusOfWhole ==
    ASSUME NEW n \in Names, visible[n] # NoDir, NEW b \in Portable,
           content[visible[n]] = Full(b)
    PROVE  Status(n) = Lifecycle!Whole(b)
<1>1. IsWhole(visible[n])
  BY DEF IsWhole
<1>2. (CHOOSE c \in Portable : content[visible[n]] = Full(c)) = b
  BY FullIsInjective, BundleAssumption
<1> QED BY <1>1, <1>2 DEF Status, Lifecycle!Whole

LEMMA StatusOfVacant ==
    ASSUME StoreTyped, NEW n \in Names, visible[n] \in Vacant
    PROVE  Status(n) \in {Lifecycle!Absent, Lifecycle!Torn}
  BY WholeIsNotVacant DEF Status, Lifecycle!Absent, Lifecycle!Torn, StoreTyped

LEMMA LossTears ==
    ASSUME IInv, StoreTyped, NEW n \in Names, visible[n] # NoDir, visible' = visible,
           NEW e \in Entries, content[visible[n]][e] # NoBundle,
           content' = [content EXCEPT ![visible[n]] = [@ EXCEPT ![e] = NoBundle]]
    PROVE  /\ Status(n)' = Lifecycle!Torn
           /\ Status(n) # Lifecycle!Absent
<1> DEFINE d == visible[n]
<1>1. d \in Dirs /\ content[d] \in [Entries -> Bundles \cup {NoBundle}]
  BY DEF StoreTyped
<1>2. PICK b \in Portable : \A x \in Entries : content[d][x] \in {Full(b)[x], NoBundle}
  BY DEF IInv, OneBundlePerCatalog
<1>3. /\ content'[d][e] = NoBundle
      /\ \A x \in Entries : content'[d][x] \in {Full(b)[x], NoBundle}
  BY <1>1, <1>2 DEF StoreTyped
<1>4. ASSUME NEW c \in Portable, content'[d] = Full(c) PROVE FALSE
  <2>1. Full(c)[Meta] = c /\ Full(b)[Meta] = b /\ Meta \in Entries
    BY DEF Full, Entries
  <2>2. c = b
    BY <1>3, <1>4, <2>1, BundleAssumption
  <2>3. Full(b)[e] # NoBundle
    BY <1>2
  <2> QED BY <1>3, <1>4, <2>2, <2>3
<1>5. ~ IsWhole(visible[n])'
  BY <1>4 DEF IsWhole
<1> QED BY <1>5 DEF Status, Lifecycle!Torn, Lifecycle!Absent

LEMMA SameStatus ==
    ASSUME NEW n \in Names, visible'[n] = visible[n],
           visible[n] # NoDir => content'[visible[n]] = content[visible[n]]
    PROVE  Status(n)' = Status(n)
  BY DEF Status, IsWhole

LEMMA StatusValues ==
    ASSUME IInv, NEW n \in Names
    PROVE  Status(n) \in Lifecycle!Statuses
<1>1. CASE visible[n] # NoDir /\ IsWhole(visible[n])
  <2>1. PICK b \in Portable : content[visible[n]] = Full(b)
    BY <1>1 DEF IsWhole
  <2> QED BY <1>1, <2>1, StatusOfWhole DEF Lifecycle!Statuses
<1>2. CASE ~(visible[n] # NoDir /\ IsWhole(visible[n]))
  BY <1>2 DEF Status, Lifecycle!Statuses, Lifecycle!Absent, Lifecycle!Torn
<1> QED BY <1>1, <1>2

LEMMA LifecycleStep ==
    ASSUME IInv, [Next]_vars
    PROVE  [Lifecycle!Next]_[n \in Names |-> Status(n)]
<1> DEFINE S == [n \in Names |-> Status(n)]
<1>0. StoreTyped
  BY TypeParts DEF IInv
<1>1. CASE Untouched
  <2>1. \A n \in Names : Status(n)' = Status(n)
    BY <1>1, SameStatus DEF Untouched
  <2> QED BY <2>1
<1>2. CASE Loses
  <2>1. PICK p \in Procs, e \in Entries :
            /\ victim[p] \in Dirs
            /\ content[victim[p]][e] # NoBundle
            /\ content' = [content EXCEPT ![victim[p]] = [@ EXCEPT ![e] = NoBundle]]
    BY <1>2 DEF Loses
  <2>2. visible' = visible
    BY <1>2 DEF Loses
  <2>3. CASE \A n \in Names : visible[n] # victim[p]
    <3>1. \A n \in Names : Status(n)' = Status(n)
      BY <1>0, <2>1, <2>2, <2>3, SameStatus DEF StoreTyped
    <3> QED BY <3>1
  <2>4. ASSUME NEW n \in Names, visible[n] = victim[p]
        PROVE  [Lifecycle!Next]_S
    <3>1. visible[n] # NoDir
      BY <2>1, <2>4, NameAssumption
    <3>2. Status(n)' = Lifecycle!Torn /\ Status(n) # Lifecycle!Absent
      BY <1>0, <2>1, <2>2, <2>4, <3>1, LossTears
    <3>3. \A m \in Names \ {n} : Status(m)' = Status(m)
      <4>1. \A m \in Names \ {n} : visible[m] # victim[p]
        BY <2>4, <3>1 DEF IInv, Private
      <4> QED BY <1>0, <2>1, <2>2, <4>1, SameStatus DEF StoreTyped
    <3>4. S' = [S EXCEPT ![n] = Lifecycle!Torn]
      BY <3>2, <3>3
    <3>5. CASE Status(n) = Lifecycle!Torn
      <4>1. S' = S
        BY <3>2, <3>3, <3>5
      <4> QED BY <4>1
    <3>6. CASE Status(n) # Lifecycle!Torn
      <4>1. Lifecycle!Tear(n)
        BY <3>2, <3>4, <3>6 DEF Lifecycle!Tear
      <4> QED BY <4>1 DEF Lifecycle!Next
    <3> QED BY <3>5, <3>6
  <2> QED BY <2>3, <2>4
<1>3. ASSUME NEW n \in Names, Arrives(n) PROVE [Lifecycle!Next]_S
  <2>1. PICK p \in Procs :
            /\ visible' = [visible EXCEPT ![n] = staging[p]]
            /\ staging[p] \in Dirs /\ bundle[p] \in Portable
            /\ content[staging[p]] = Full(bundle[p])
    BY <1>3 DEF Arrives
  <2>2. content' = content /\ visible[n] \in Vacant
    BY <1>3 DEF Arrives
  <2>3. visible'[n] = staging[p] /\ visible'[n] # NoDir
    BY <1>0, <2>1, NameAssumption DEF StoreTyped
  <2>4. Status(n)' = Lifecycle!Whole(bundle[p])
    <3>1. IsWhole(visible[n])'
      BY <2>1, <2>2, <2>3 DEF IsWhole
    <3>2. (CHOOSE c \in Portable : content[visible[n]] = Full(c))' = bundle[p]
      BY <2>1, <2>2, <2>3, FullIsInjective, BundleAssumption
    <3> QED BY <2>3, <3>1, <3>2 DEF Status, Lifecycle!Whole
  <2>5. \A m \in Names \ {n} : Status(m)' = Status(m)
    BY <1>0, <2>1, <2>2, SameStatus DEF StoreTyped
  <2>6. S' = [S EXCEPT ![n] = Lifecycle!Whole(bundle[p])]
    BY <2>4, <2>5
  <2>7. S[n] \in {Lifecycle!Absent, Lifecycle!Torn}
    BY <1>0, <2>2, StatusOfVacant
  <2>8. Lifecycle!Install(n, bundle[p])
    BY <2>6, <2>7 DEF Lifecycle!Install
  <2> QED BY <2>1, <2>8 DEF Lifecycle!Next
<1>4. ASSUME NEW n \in Names, Leaves(n) PROVE [Lifecycle!Next]_S
  <2>1. content' = content /\ visible[n] \in Vacant /\ visible' = [visible EXCEPT ![n] = NoDir]
    BY <1>4 DEF Leaves
  <2>2. Status(n)' = Lifecycle!Absent
    BY <1>0, <2>1 DEF Status, Lifecycle!Absent, StoreTyped
  <2>3. \A m \in Names \ {n} : Status(m)' = Status(m)
    BY <1>0, <2>1, SameStatus DEF StoreTyped
  <2>4. S' = [S EXCEPT ![n] = Lifecycle!Absent]
    BY <2>2, <2>3
  <2>5. CASE Status(n) = Lifecycle!Absent
    <3>1. S' = S
      BY <2>2, <2>3, <2>5
    <3> QED BY <3>1
  <2>6. CASE Status(n) = Lifecycle!Torn
    <3>1. Lifecycle!Vanish(n)
      BY <2>4, <2>6 DEF Lifecycle!Vanish
    <3> QED BY <3>1 DEF Lifecycle!Next
  <2> QED BY <1>0, <2>1, <2>5, <2>6, StatusOfVacant
<1> QED BY <1>1, <1>2, <1>3, <1>4, Effects

\* The store implements the life cycle: every system call of every process maps to
\* one transition of one catalog, or to a stutter.
THEOREM StoreImplementsLifecycle == Spec => ImplementsLifecycle
<1>1. Init => Lifecycle!Init
  BY DEF Init, Lifecycle!Init, Status, Lifecycle!Absent
<1>2. IInv /\ [Next]_vars => [Lifecycle!Next]_[n \in Names |-> Status(n)]
  BY LifecycleStep
<1> QED BY <1>1, <1>2, Inductive, PTL DEF Spec, ImplementsLifecycle, Lifecycle!Spec

-----------------------------------------------------------------------------
(* A load beside the store (CatalogLoad).                                  *)

\* What a load may count on as long as a catalog has lost nothing.
Reads(n) ==
    /\ phase = "list" => loaded[n] = Nothing[n]
    /\ phase \in {"catalogs", "files"} /\ n \in pending =>
          visible[n] # NoDir /\ loaded[n] = Nothing[n]
    /\ phase = "files" /\ n = at =>
          /\ visible[n] # NoDir
          /\ \A f \in Files :
                /\ f \in left => content[visible[n]][f] # NoBundle
                /\ loaded[n][f] = IF f \in left THEN NoBundle ELSE content[visible[n]][f]
    /\ phase \in {"catalogs", "files", "done"} /\ n \notin pending /\ (phase = "files" => n # at) =>
          \/ loaded[n] = Nothing[n]
          \/ /\ visible[n] # NoDir
             /\ \A f \in Files : loaded[n][f] = content[visible[n]][f]

LoadInv ==
    /\ LoadTypeOK
    /\ phase = "files" => at \in Names /\ at \notin pending
    /\ phase = "done" => pending = {}
    /\ FailsOnlyWhenDisturbed
    /\ \A n \in Names \ disturbed : Reads(n)

LEMMA LoadInitHolds == LoadInit => LoadInv /\ OnlyAcceptedManifests
BY DEF LoadInit, LoadInv, LoadTypeOK, FailsOnlyWhenDisturbed, Reads, Nothing, OnlyAcceptedManifests

LEMMA LoadIsTyped == ASSUME TypeOK, LoadInv, [LoadNext]_loadVars PROVE LoadTypeOK'
<1>1. CASE StoreStep \/ UNCHANGED loadVars
  BY <1>1 DEF LoadInv, LoadTypeOK, StoreStep, reader, loadVars
<1>2. CASE BeginLoad
  BY <1>2 DEF LoadTypeOK, BeginLoad, Nothing
<1>3. CASE ListCatalogs
  BY <1>3 DEF LoadInv, LoadTypeOK, ListCatalogs
<1>4. ASSUME NEW n \in Names, ListManifests(n) PROVE LoadTypeOK'
  BY <1>4 DEF LoadInv, LoadTypeOK, ListManifests
<1>5. ASSUME NEW f \in Files, ReadManifest(f) PROVE LoadTypeOK'
  <2>1. CASE UNCHANGED loaded
    BY <1>5, <2>1 DEF LoadInv, LoadTypeOK, ReadManifest
  <2>2. CASE ~UNCHANGED loaded
    <3>1. /\ at \in Names /\ visible[at] \in Dirs
          /\ loaded' = [loaded EXCEPT ![at] = [@ EXCEPT ![f] = content[visible[at]][f]]]
      BY <1>5, <2>2 DEF LoadInv, TypeOK, ReadManifest
    <3>2. content[visible[at]][f] \in Bundles \cup {NoBundle}
      BY <3>1 DEF TypeOK, Entries
    <3>3. loaded' \in [Names -> [Files -> Bundles \cup {NoBundle}]]
      BY <3>1, <3>2 DEF LoadInv, LoadTypeOK
    <3> QED BY <1>5, <3>3 DEF LoadInv, LoadTypeOK, ReadManifest
  <2> QED BY <2>1, <2>2
<1>6. CASE NextCatalog \/ EndLoad
  BY <1>6 DEF LoadInv, LoadTypeOK, NextCatalog, EndLoad
<1> QED BY <1>1, <1>2, <1>3, <1>4, <1>5, <1>6 DEF LoadNext, ReaderNext

LEMMA LoadStep == ASSUME TypeOK, LoadInv, [LoadNext]_loadVars PROVE LoadInv'
<1>1. LoadTypeOK'
  BY LoadIsTyped
<1>2. CASE UNCHANGED loadVars
  BY <1>2 DEF LoadInv, LoadTypeOK, FailsOnlyWhenDisturbed, Reads, loadVars, vars, reader
<1>3. CASE StoreStep
  <2>1. /\ UNCHANGED <<phase, pending, at, left, loaded>> /\ disturbed \subseteq disturbed'
        /\ \A n \in Names \ disturbed' : visible[n] # NoDir =>
              visible'[n] = visible[n] /\ content'[visible[n]] = content[visible[n]]
    BY <1>3 DEF StoreStep, reader, LosesSomething
  <2>2. ASSUME NEW n \in Names \ disturbed' PROVE Reads(n)'
    <3>1. Reads(n)
      BY <2>1 DEF LoadInv
    <3> QED BY <2>1, <3>1 DEF Reads, Nothing
  <2> QED BY <1>1, <2>1, <2>2 DEF LoadInv, FailsOnlyWhenDisturbed
<1>4. CASE BeginLoad
  BY <1>1, <1>4 DEF LoadInv, FailsOnlyWhenDisturbed, Reads, BeginLoad, Nothing
<1>5. CASE ListCatalogs
  BY <1>1, <1>5 DEF LoadInv, FailsOnlyWhenDisturbed, Reads, ListCatalogs, Nothing, vars
<1>6. ASSUME NEW n \in Names, ListManifests(n) PROVE LoadInv'
  <2>1. UNCHANGED <<visible, content, loaded, disturbed>> /\ at' = n /\ phase = "catalogs" /\ n \in pending
    BY <1>6 DEF ListManifests, vars
  <2>2. CASE visible[n] = NoDir
    <3>1. phase' = "failed" /\ n \in disturbed
      BY <1>6, <2>1, <2>2 DEF ListManifests, LoadInv, Reads
    <3> QED BY <1>1, <2>1, <3>1 DEF LoadInv, FailsOnlyWhenDisturbed, Reads
  <2>3. CASE visible[n] # NoDir
    <3>1. /\ phase' = "files" /\ pending' = pending \ {n}
          /\ left' = {f \in Files : content[visible[n]][f] # NoBundle}
      BY <1>6, <2>3 DEF ListManifests
    <3>2. ASSUME NEW m \in Names \ disturbed' PROVE Reads(m)'
      BY <2>1, <2>3, <3>1 DEF LoadInv, Reads, Nothing
    <3> QED BY <1>1, <2>1, <3>1, <3>2 DEF LoadInv, FailsOnlyWhenDisturbed
  <2> QED BY <2>2, <2>3
<1>7. ASSUME NEW f \in Files, ReadManifest(f) PROVE LoadInv'
  <2>1. UNCHANGED <<visible, content, pending, at, disturbed>> /\ phase = "files" /\ f \in left /\ at \in Names
    BY <1>7 DEF ReadManifest, LoadInv, vars
  <2>2. CASE visible[at] = NoDir \/ content[visible[at]][f] = NoBundle
    <3>1. phase' = "failed" /\ at \in disturbed
      BY <1>7, <2>1, <2>2 DEF ReadManifest, LoadInv, Reads
    <3> QED BY <1>1, <2>1, <3>1 DEF LoadInv, FailsOnlyWhenDisturbed, Reads
  <2>3. CASE visible[at] # NoDir /\ content[visible[at]][f] # NoBundle
    <3>1. /\ phase' = phase /\ left' = left \ {f}
          /\ loaded' = [loaded EXCEPT ![at] = [@ EXCEPT ![f] = content[visible[at]][f]]]
      BY <1>7, <2>3 DEF ReadManifest
    <3>2. /\ \A m \in Names \ {at} : loaded'[m] = loaded[m]
          /\ \A g \in Files : loaded'[at][g] = IF g = f THEN content[visible[at]][f] ELSE loaded[at][g]
      BY <2>1, <3>1 DEF LoadInv, LoadTypeOK
    <3>3. ASSUME NEW m \in Names \ disturbed' PROVE Reads(m)'
      <4>1. Reads(m)
        BY <2>1 DEF LoadInv
      <4> QED BY <2>1, <3>1, <3>2, <4>1 DEF LoadInv, Reads, Nothing
    <3> QED BY <1>1, <2>1, <3>1, <3>3 DEF LoadInv, FailsOnlyWhenDisturbed
  <2> QED BY <2>2, <2>3
<1>8. CASE NextCatalog
  BY <1>1, <1>8 DEF LoadInv, FailsOnlyWhenDisturbed, Reads, NextCatalog, vars
<1>9. CASE EndLoad
  BY <1>1, <1>9 DEF LoadInv, FailsOnlyWhenDisturbed, Reads, EndLoad, vars
<1> QED BY <1>2, <1>3, <1>4, <1>5, <1>6, <1>7, <1>8, <1>9 DEF LoadNext, ReaderNext

LEMMA AcceptedStep ==
    ASSUME IInv, LoadInv, OnlyAcceptedManifests, [LoadNext]_loadVars
    PROVE  OnlyAcceptedManifests'
<1>1. CASE UNCHANGED loaded
  BY <1>1 DEF OnlyAcceptedManifests
<1>2. CASE BeginLoad
  BY <1>2 DEF OnlyAcceptedManifests, BeginLoad, Nothing
<1>3. ASSUME NEW f \in Files, ReadManifest(f), ~UNCHANGED loaded PROVE OnlyAcceptedManifests'
  <2>1. /\ at \in Names /\ visible[at] # NoDir /\ content[visible[at]][f] # NoBundle
        /\ loaded' = [loaded EXCEPT ![at] = [@ EXCEPT ![f] = content[visible[at]][f]]]
    BY <1>3 DEF ReadManifest, LoadInv
  <2>2. PICK b \in Portable : content[visible[at]][f] \in {Full(b)[f], NoBundle}
    BY <2>1 DEF IInv, OneBundlePerCatalog, Entries
  <2>3. content[visible[at]][f] = b /\ f \in Members[b]
    BY <2>1, <2>2, NameAssumption DEF Full, Entries
  <2>4. \A n \in Names, g \in Files :
           loaded'[n][g] = IF n = at /\ g = f THEN b ELSE loaded[n][g]
    BY <2>1, <2>3 DEF LoadInv, LoadTypeOK
  <2> QED BY <2>2, <2>3, <2>4 DEF OnlyAcceptedManifests
<1>4. (\E f \in Files : ReadManifest(f)) \/ BeginLoad \/ UNCHANGED loaded
  BY DEF LoadNext, ReaderNext, ListCatalogs, ListManifests, NextCatalog, EndLoad, StoreStep,
         loadVars, reader
<1> QED BY <1>1, <1>2, <1>3, <1>4

\* A load leaves the store alone, so all that holds of the store holds beside loads.
LEMMA LoadsAreHarmless == LoadSpec => Spec
<1>1. LoadInit => Init
  BY DEF LoadInit
<1>2. [LoadNext]_loadVars => [Next]_vars
  BY DEF LoadNext, ReaderNext, BeginLoad, ListCatalogs, ListManifests, ReadManifest, NextCatalog,
         EndLoad, StoreStep, loadVars
<1> QED BY <1>1, <1>2, PTL DEF LoadSpec, Spec

\* The inductive invariant of a load: what it may count on of a catalog that lost nothing.
THEOREM LoadInductive == LoadSpec => []LoadInv
<1>1. IInv => TypeOK
  BY DEF IInv
<1>2. LoadInit => LoadInv
  BY LoadInitHolds
<1>3. TypeOK /\ LoadInv /\ [LoadNext]_loadVars => LoadInv'
  BY LoadStep
<1> QED BY <1>1, <1>2, <1>3, LoadsAreHarmless, Inductive, PTL DEF LoadSpec

\* Beside any number of processes that work on the store, no load takes a manifest that
\* the gate has not accepted.
THEOREM LoadsTakeAcceptedManifests == LoadSpec => []OnlyAcceptedManifests
<1>1. LoadInit => OnlyAcceptedManifests
  BY LoadInitHolds
<1>2. IInv /\ LoadInv /\ OnlyAcceptedManifests /\ [LoadNext]_loadVars => OnlyAcceptedManifests'
  BY AcceptedStep
<1> QED BY <1>1, <1>2, LoadsAreHarmless, Inductive, LoadInductive, PTL DEF LoadSpec

\* A load fails only at a catalog that lost something meanwhile.
THEOREM UndisturbedLoadsSucceed == LoadSpec => []FailsOnlyWhenDisturbed
<1>1. LoadInv => FailsOnlyWhenDisturbed
  BY DEF LoadInv
<1> QED BY <1>1, LoadInductive, PTL

\* Of any other catalog it reads all or nothing.
THEOREM LoadsAreExact == LoadSpec => []UndisturbedCatalogsAreReadExactly
<1>1. LoadInv => UndisturbedCatalogsAreReadExactly
  BY DEF LoadInv, Reads, UndisturbedCatalogsAreReadExactly
<1> QED BY <1>1, LoadInductive, PTL
=============================================================================
