-------------------------- MODULE SelfUpdateProofs --------------------------
(***************************************************************************)
(* Theorems about SelfUpdate, for any processes, tags, flags and builds.   *)
(***************************************************************************)
EXTENDS SelfUpdate, TLAPS

-----------------------------------------------------------------------------
\* A digest that is served has been published, and belongs to its release.
DigestsServed ==
    \A t \in Tags : assets[t].sum \in published /\ assets[t].sum[1] = t

\* Likewise a binary belongs to its release.
BinariesServed == \A t \in Tags : assets[t].bin[1] = t

Resolved == {"decide", "binary", "digest", "verify", "create", "write", "chmod", "rename", "replaced", "ok"}
Decided == Resolved \ {"decide"}
Verified == {"create", "write", "chmod", "rename"}

\* What a process knows at each of its program points.
Known(p) ==
    /\ pc[p] \in Resolved => rel[p] \in Tags /\ opts[p].version \in {Latest, rel[p]}
    /\ pc[p] \in Decided => ~opts[p].check /\ (rel[p] # current[p] \/ opts[p].force)
    /\ pc[p] \in {"verify"} \cup Verified => digest[p] \in published /\ digest[p][1] = rel[p]
    /\ pc[p] \in Verified => bytes[p] = digest[p]
    /\ pc[p] \in {"replaced", "ok"} => wrote[p] # None
    /\ wrote[p] # None => /\ pc[p] \in {"replaced", "ok", "dead"}
                          /\ wrote[p][1] = rel[p] /\ ~opts[p].check
                          /\ rel[p] # current[p] \/ opts[p].force
                          /\ opts[p].version \in {Latest, rel[p]}

\* The temporary file at each program point.
Written(p) ==
    /\ pc[p] \notin {"write", "chmod", "rename", "dead"} => tmp[p] = "none"
    /\ pc[p] = "rename" => tmp[p] = "ready"
    /\ tmp[p] # "none" => ~opts[p].check /\ wrote[p] = None

IInv ==
    /\ TypeOK /\ DigestsServed /\ BinariesServed /\ InstalledBinaryIsVerified
    /\ \A p \in Procs : Known(p) /\ Written(p)

-----------------------------------------------------------------------------
\* A step of p leaves the other processes where they are.
Alone(p) ==
    \A q \in Procs \ {p} :
        /\ pc'[q] = pc[q] /\ opts'[q] = opts[q] /\ current'[q] = current[q] /\ rel'[q] = rel[q]
        /\ bytes'[q] = bytes[q] /\ digest'[q] = digest[q] /\ tmp'[q] = tmp[q]
        /\ wrote'[q] = wrote[q]

\* What is left to show of a step of p that leaves the publisher alone.
LEMMA AloneKeeps ==
    ASSUME IInv, NEW p \in Procs, Alone(p), UNCHANGED world,
           TypeOK', InstalledBinaryIsVerified', Known(p)', Written(p)'
    PROVE  IInv'
<1>1. DigestsServed' /\ BinariesServed'
  BY DEF IInv, DigestsServed, BinariesServed, world
<1>2. ASSUME NEW q \in Procs \ {p} PROVE Known(q)' /\ Written(q)'
  BY DEF IInv, Alone, Known, Written, world
<1> QED BY <1>1, <1>2 DEF IInv

\* The same for a step that leaves the installed binary alone too.
LEMMA ExeKept ==
    ASSUME IInv, NEW p \in Procs, Alone(p), UNCHANGED <<world, exe>>,
           TypeOK', Known(p)', Written(p)'
    PROVE  IInv'
<1>1. InstalledBinaryIsVerified'
  BY DEF IInv, InstalledBinaryIsVerified, world
<1> QED BY <1>1, AloneKeeps DEF world

LEMMA InitHolds == Init => IInv
<1> SUFFICES ASSUME Init PROVE IInv
  OBVIOUS
<1>1. \A t \in Tags : <<t, 1>> \in Builds
  BY BuildAssumption DEF Builds
<1>2. TypeOK
  BY <1>1, DevAssumption, FlagAssumption DEF Init, TypeOK, States, Working, FileStates
<1>3. DigestsServed /\ BinariesServed
  BY <1>1 DEF Init, DigestsServed, BinariesServed
<1>4. InstalledBinaryIsVerified
  BY DEF Init, InstalledBinaryIsVerified
<1>5. ASSUME NEW p \in Procs PROVE Known(p) /\ Written(p)
  BY DEF Init, Known, Written, Resolved, Decided, Verified
<1> QED BY <1>2, <1>3, <1>4, <1>5 DEF IInv

-----------------------------------------------------------------------------
(* The steps of a process.                                                *)

LEMMA StartKeeps == ASSUME IInv, NEW p \in Procs, Start(p) PROVE IInv'
<1>1. TypeOK'
  <2>1. exe.bytes[1] \in Tags \cup {Dev}
    BY DEF IInv, TypeOK, InstalledBinaryIsVerified, Builds, Local
  <2> QED
    BY <2>1, FlagAssumption DEF IInv, TypeOK, Start, Keep, Goto, End, world, States, Working, FileStates
<1>2. Alone(p) /\ UNCHANGED <<world, exe>>
  BY DEF IInv, TypeOK, Start, Keep, Goto, End, world, Alone
<1>3. Known(p)'
  BY NoneAssumption, FlagAssumption DEF IInv, TypeOK, Start, Keep, Goto, End, world, Known, Resolved, Decided, Verified, Working
<1>4. Written(p)'
  BY DEF IInv, TypeOK, Start, Keep, Goto, End, world, Written, Known, Resolved, Decided, Verified
<1> QED BY <1>1, <1>2, <1>3, <1>4, ExeKept

LEMMA DownloadFailsKeeps == ASSUME IInv, NEW p \in Procs, DownloadFails(p) PROVE IInv'
<1>1. TypeOK'
  BY FlagAssumption DEF IInv, TypeOK, DownloadFails, Keep, Goto, End, world, States, Working, FileStates
<1>2. Alone(p) /\ UNCHANGED <<world, exe>>
  BY DEF IInv, TypeOK, DownloadFails, Keep, Goto, End, world, Alone
<1>3. Known(p)'
  BY NoneAssumption, FlagAssumption DEF IInv, TypeOK, DownloadFails, Keep, Goto, End, world, Known, Resolved, Decided, Verified, Working
<1>4. Written(p)'
  BY DEF IInv, TypeOK, DownloadFails, Keep, Goto, End, world, Written, Known, Resolved, Decided, Verified
<1> QED BY <1>1, <1>2, <1>3, <1>4, ExeKept

LEMMA ResolveKeeps == ASSUME IInv, NEW p \in Procs, Resolve(p) PROVE IInv'
<1>1. TypeOK'
  BY FlagAssumption DEF IInv, TypeOK, Resolve, Keep, Goto, End, world, States, Working, FileStates
<1>2. Alone(p) /\ UNCHANGED <<world, exe>>
  BY DEF IInv, TypeOK, Resolve, Keep, Goto, End, world, Alone
<1>3. Known(p)'
  BY NoneAssumption, FlagAssumption DEF IInv, TypeOK, Resolve, Keep, Goto, End, world, Known, Resolved, Decided, Verified, Working
<1>4. Written(p)'
  BY DEF IInv, TypeOK, Resolve, Keep, Goto, End, world, Written, Known, Resolved, Decided, Verified
<1> QED BY <1>1, <1>2, <1>3, <1>4, ExeKept

LEMMA DecideKeeps == ASSUME IInv, NEW p \in Procs, Decide(p) PROVE IInv'
<1>1. TypeOK'
  BY FlagAssumption DEF IInv, TypeOK, Decide, Keep, Goto, End, world, States, Working, FileStates, UpToDate
<1>2. Alone(p) /\ UNCHANGED <<world, exe>>
  BY DEF IInv, TypeOK, Decide, Keep, Goto, End, world, Alone, UpToDate
<1>3. Known(p)'
  BY NoneAssumption, DevAssumption, FlagAssumption DEF IInv, TypeOK, Decide, Keep, Goto, End, world, Known, Resolved, Decided, Verified, Working, UpToDate
<1>4. Written(p)'
  BY DEF IInv, TypeOK, Decide, Keep, Goto, End, world, Written, UpToDate, Known, Resolved, Decided, Verified
<1> QED BY <1>1, <1>2, <1>3, <1>4, ExeKept

LEMMA DownloadBinaryKeeps == ASSUME IInv, NEW p \in Procs, DownloadBinary(p) PROVE IInv'
<1>1. TypeOK'
  <2>1. rel[p] \in Tags
    BY DEF IInv, Known, Resolved, DownloadBinary
  <2> QED
    BY <2>1, FlagAssumption DEF IInv, TypeOK, DownloadBinary, Keep, Goto, End, world, States, Working, FileStates
<1>2. Alone(p) /\ UNCHANGED <<world, exe>>
  BY DEF IInv, TypeOK, DownloadBinary, Keep, Goto, End, world, Alone
<1>3. Known(p)'
  BY NoneAssumption, FlagAssumption DEF IInv, TypeOK, DownloadBinary, Keep, Goto, End, world, Known, Resolved, Decided, Verified, Working
<1>4. Written(p)'
  BY DEF IInv, TypeOK, DownloadBinary, Keep, Goto, End, world, Written, Known, Resolved, Decided, Verified
<1> QED BY <1>1, <1>2, <1>3, <1>4, ExeKept

LEMMA DownloadDigestKeeps == ASSUME IInv, NEW p \in Procs, DownloadDigest(p) PROVE IInv'
<1>1. TypeOK'
  <2>1. rel[p] \in Tags
    BY DEF IInv, Known, Resolved, DownloadDigest
  <2> QED
    BY <2>1, FlagAssumption DEF IInv, TypeOK, DownloadDigest, Keep, Goto, End, world, States, Working, FileStates
<1>2. Alone(p) /\ UNCHANGED <<world, exe>>
  BY DEF IInv, TypeOK, DownloadDigest, Keep, Goto, End, world, Alone
<1>3. Known(p)'
  BY NoneAssumption, FlagAssumption DEF IInv, TypeOK, DownloadDigest, Keep, Goto, End, world, Known, Resolved, Decided, Verified, Working, DigestsServed
<1>4. Written(p)'
  BY DEF IInv, TypeOK, DownloadDigest, Keep, Goto, End, world, Written, Known, Resolved, Decided, Verified
<1> QED BY <1>1, <1>2, <1>3, <1>4, ExeKept

LEMMA VerifyKeeps == ASSUME IInv, NEW p \in Procs, Verify(p) PROVE IInv'
<1>1. TypeOK'
  BY FlagAssumption DEF IInv, TypeOK, Verify, Keep, Goto, End, world, States, Working, FileStates
<1>2. Alone(p) /\ UNCHANGED <<world, exe>>
  BY DEF IInv, TypeOK, Verify, Keep, Goto, End, world, Alone
<1>3. Known(p)'
  BY NoneAssumption, FlagAssumption DEF IInv, TypeOK, Verify, Keep, Goto, End, world, Known, Resolved, Decided, Verified, Working
<1>4. Written(p)'
  BY DEF IInv, TypeOK, Verify, Keep, Goto, End, world, Written, Known, Resolved, Decided, Verified
<1> QED BY <1>1, <1>2, <1>3, <1>4, ExeKept

LEMMA CreateTempKeeps == ASSUME IInv, NEW p \in Procs, CreateTemp(p) PROVE IInv'
<1>1. TypeOK'
  BY FlagAssumption DEF IInv, TypeOK, CreateTemp, Keep, Goto, End, world, States, Working, FileStates
<1>2. Alone(p) /\ UNCHANGED <<world, exe>>
  BY DEF IInv, TypeOK, CreateTemp, Keep, Goto, End, world, Alone
<1>3. Known(p)'
  BY NoneAssumption, FlagAssumption DEF IInv, TypeOK, CreateTemp, Keep, Goto, End, world, Known, Resolved, Decided, Verified, Working
<1>4. Written(p)'
  BY DEF IInv, TypeOK, CreateTemp, Keep, Goto, End, world, Written, Known, Resolved, Decided, Verified
<1> QED BY <1>1, <1>2, <1>3, <1>4, ExeKept

LEMMA WriteTempKeeps == ASSUME IInv, NEW p \in Procs, WriteTemp(p) PROVE IInv'
<1>1. TypeOK'
  BY FlagAssumption DEF IInv, TypeOK, WriteTemp, Keep, Goto, End, world, States, Working, FileStates
<1>2. Alone(p) /\ UNCHANGED <<world, exe>>
  BY DEF IInv, TypeOK, WriteTemp, Keep, Goto, End, world, Alone
<1>3. Known(p)'
  BY NoneAssumption, FlagAssumption DEF IInv, TypeOK, WriteTemp, Keep, Goto, End, world, Known, Resolved, Decided, Verified, Working
<1>4. Written(p)'
  BY DEF IInv, TypeOK, WriteTemp, Keep, Goto, End, world, Written, Known, Resolved, Decided, Verified
<1> QED BY <1>1, <1>2, <1>3, <1>4, ExeKept

LEMMA ChmodTempKeeps == ASSUME IInv, NEW p \in Procs, ChmodTemp(p) PROVE IInv'
<1>1. TypeOK'
  BY FlagAssumption DEF IInv, TypeOK, ChmodTemp, Keep, Goto, End, world, States, Working, FileStates
<1>2. Alone(p) /\ UNCHANGED <<world, exe>>
  BY DEF IInv, TypeOK, ChmodTemp, Keep, Goto, End, world, Alone
<1>3. Known(p)'
  BY NoneAssumption, FlagAssumption DEF IInv, TypeOK, ChmodTemp, Keep, Goto, End, world, Known, Resolved, Decided, Verified, Working
<1>4. Written(p)'
  BY DEF IInv, TypeOK, ChmodTemp, Keep, Goto, End, world, Written, Known, Resolved, Decided, Verified
<1> QED BY <1>1, <1>2, <1>3, <1>4, ExeKept

LEMMA StepFailsKeeps == ASSUME IInv, NEW p \in Procs, StepFails(p) PROVE IInv'
<1>1. TypeOK'
  BY FlagAssumption DEF IInv, TypeOK, StepFails, Keep, Goto, End, world, States, Working, FileStates
<1>2. Alone(p) /\ UNCHANGED <<world, exe>>
  BY DEF IInv, TypeOK, StepFails, Keep, Goto, End, world, Alone
<1>3. Known(p)'
  BY NoneAssumption, FlagAssumption DEF IInv, TypeOK, StepFails, Keep, Goto, End, world, Known, Resolved, Decided, Verified, Working
<1>4. Written(p)'
  BY DEF IInv, TypeOK, StepFails, Keep, Goto, End, world, Written, Known, Resolved, Decided, Verified
<1> QED BY <1>1, <1>2, <1>3, <1>4, ExeKept

LEMMA DieKeeps == ASSUME IInv, NEW p \in Procs, Die(p) PROVE IInv'
<1>1. TypeOK'
  BY FlagAssumption DEF IInv, TypeOK, Die, Keep, Goto, End, world, States, Working, FileStates
<1>2. Alone(p) /\ UNCHANGED <<world, exe>>
  BY DEF IInv, TypeOK, Die, Keep, Goto, End, world, Alone
<1>3. Known(p)'
  BY NoneAssumption, FlagAssumption DEF IInv, TypeOK, Die, Keep, Goto, End, world, Known, Resolved, Decided, Verified, Working
<1>4. Written(p)'
  BY DEF IInv, TypeOK, Die, Keep, Goto, End, world, Written, Known, Resolved, Decided, Verified
<1> QED BY <1>1, <1>2, <1>3, <1>4, ExeKept

LEMMA SucceedKeeps == ASSUME IInv, NEW p \in Procs, Succeed(p) PROVE IInv'
<1>1. TypeOK'
  BY FlagAssumption DEF IInv, TypeOK, Succeed, Keep, Goto, End, world, States, Working, FileStates
<1>2. Alone(p) /\ UNCHANGED <<world, exe>>
  BY DEF IInv, TypeOK, Succeed, Keep, Goto, End, world, Alone
<1>3. Known(p)'
  BY NoneAssumption, FlagAssumption DEF IInv, TypeOK, Succeed, Keep, Goto, End, world, Known, Resolved, Decided, Verified, Working
<1>4. Written(p)'
  BY DEF IInv, TypeOK, Succeed, Keep, Goto, End, world, Written, Known, Resolved, Decided, Verified
<1> QED BY <1>1, <1>2, <1>3, <1>4, ExeKept

\* What is renamed is verified, whole and executable.
LEMMA RenameKeeps == ASSUME IInv, NEW p \in Procs, Rename(p) PROVE IInv'
<1>1. /\ bytes[p] \in published /\ bytes[p][1] = rel[p]
      /\ tmp[p] = "ready" /\ pc[p] = "rename"
  BY DEF IInv, Rename, Known, Written, Verified
<1>2. bytes[p] \in Builds /\ bytes[p] # None
  BY <1>1, NoneAssumption DEF IInv, TypeOK
<1>3. TypeOK'
  BY <1>1, <1>2 DEF IInv, TypeOK, Rename, Goto, End, world, States, Working, FileStates
<1>4. InstalledBinaryIsVerified'
  BY <1>1 DEF InstalledBinaryIsVerified, Rename, world
<1>5. Alone(p) /\ UNCHANGED world
  BY DEF IInv, TypeOK, Rename, Goto, End, world, Alone
<1>6. Known(p)'
  BY <1>1, <1>2 DEF IInv, TypeOK, Rename, Goto, End, world, Known, Resolved, Decided, Verified
<1>7. Written(p)'
  BY DEF IInv, TypeOK, Rename, Goto, End, world, Written
<1> QED BY <1>3, <1>4, <1>5, <1>6, <1>7, AloneKeeps

-----------------------------------------------------------------------------
(* The steps of the publisher.                                             *)

LEMMA RebuildKeeps == ASSUME IInv, NEW t \in Tags, Rebuild(t) PROVE IInv'
<1>1. <<t, assets[t].bin[2] + 1>> \in Builds
  BY BuildAssumption DEF IInv, TypeOK, Rebuild, Builds
<1>2. TypeOK'
  <2>1. assets' \in [Tags -> [bin : Builds, sum : Builds]]
    BY <1>1 DEF IInv, TypeOK, Rebuild
  <2> QED BY <2>1 DEF IInv, TypeOK, Rebuild
<1>3. DigestsServed' /\ BinariesServed'
  BY DEF IInv, TypeOK, DigestsServed, BinariesServed, Rebuild
<1>4. InstalledBinaryIsVerified'
  BY DEF IInv, InstalledBinaryIsVerified, Rebuild
<1>5. \A p \in Procs : (Known(p) /\ Written(p))'
  BY DEF IInv, Known, Written, Rebuild
<1> QED BY <1>2, <1>3, <1>4, <1>5 DEF IInv

LEMMA PublishDigestKeeps == ASSUME IInv, NEW t \in Tags, PublishDigest(t) PROVE IInv'
<1>1. assets[t].bin \in Builds
  BY DEF IInv, TypeOK
<1>2. TypeOK'
  BY <1>1 DEF IInv, TypeOK, PublishDigest
<1>3. DigestsServed' /\ BinariesServed'
  <2>1. assets[t].bin[1] = t
    BY DEF IInv, BinariesServed
  <2> QED BY <2>1 DEF IInv, TypeOK, DigestsServed, BinariesServed, PublishDigest
<1>4. InstalledBinaryIsVerified'
  BY DEF IInv, InstalledBinaryIsVerified, PublishDigest
<1>5. \A p \in Procs : (Known(p) /\ Written(p))'
  BY DEF IInv, Known, Written, PublishDigest
<1> QED BY <1>2, <1>3, <1>4, <1>5 DEF IInv

-----------------------------------------------------------------------------
(* The theorems.                                                           *)

\* The inductive invariant of the updaters: what each knows at each program point, the
\* state of its temporary file, and that every digest served belongs to its release.
THEOREM UpdateInductive == Spec => []IInv
<1>1. Init => IInv
  BY InitHolds
<1>2. IInv /\ [Next]_vars => IInv'
  <2> SUFFICES ASSUME IInv, [Next]_vars PROVE IInv'
    OBVIOUS
  <2>1. CASE UNCHANGED vars
    BY <2>1 DEF vars, world, IInv, TypeOK, DigestsServed, BinariesServed, InstalledBinaryIsVerified, Known, Written
  <2>2. ASSUME NEW t \in Tags, Rebuild(t) \/ PublishDigest(t) PROVE IInv'
    BY <2>2, RebuildKeeps, PublishDigestKeeps
  <2>3. ASSUME NEW p \in Procs, Run(p) \/ Die(p) PROVE IInv'
    BY <2>3, StartKeeps, ResolveKeeps, DecideKeeps, DownloadBinaryKeeps, DownloadDigestKeeps,
       DownloadFailsKeeps, VerifyKeeps, CreateTempKeeps, WriteTempKeeps, ChmodTempKeeps,
       StepFailsKeeps, RenameKeeps, SucceedKeeps, DieKeeps DEF Run
  <2> QED BY <2>1, <2>2, <2>3 DEF Next
<1> QED BY <1>1, <1>2, PTL DEF Spec

\* The type invariant of the updaters.
THEOREM UpdateTypeCorrect == Spec => []TypeOK
<1>1. IInv => TypeOK
  BY DEF IInv
<1> QED BY <1>1, UpdateInductive, PTL

\* With any number of updaters, releases and builds, each dying or failing anywhere, the
\* installed binary is whole, executable and one that a digest was published for.
THEOREM BinariesAreVerified == Spec => []InstalledBinaryIsVerified
<1>1. IInv => InstalledBinaryIsVerified
  BY DEF IInv
<1> QED BY <1>1, UpdateInductive, PTL

\* No updater that fails, reports or is refused leaves a change or a file behind; one
\* that is killed leaves its temporary file or the new binary, never both; and what
\* anyone installs is the release it resolved.
THEOREM FailuresLeaveNoTrace == Spec => []OnlySuccessLeavesATrace
<1>1. IInv => OnlySuccessLeavesATrace
  BY DEF IInv, OnlySuccessLeavesATrace, Known, Written, Working, TypeOK, States
<1> QED BY <1>1, UpdateInductive, PTL
=============================================================================
