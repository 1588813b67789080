---------------------------- MODULE SelfUpdate -----------------------------
(***************************************************************************)
(* `self-update` (internal/cli/selfupdate.go): resolve a release, download *)
(* the binary and its digest, verify, and replace the running binary by a  *)
(* rename.  Several processes may update the same binary, each may fail or *)
(* die anywhere, and the publisher may rebuild a release meanwhile, the    *)
(* binary first and its digest later.                                      *)
(*                                                                         *)
(* A binary is a tag with the number of its build, or noise that some      *)
(* server or network made of it; a digest is the binary it belongs to.     *)
(***************************************************************************)
EXTENDS Naturals

CONSTANTS
    Procs,      \* processes that run self-update
    Tags,       \* release tags
    Dev,        \* the version of a local build, which is no tag
    Flags,      \* the flags they are given: [check, force, version]
    MaxBuilds,  \* bound: builds of one release
    Noise,      \* bytes that belong to no digest
    None        \* no bytes, no digest

Latest == "latest"   \* what --version is when it is not given

ASSUME BuildAssumption == MaxBuilds \in Nat \ {0}
ASSUME DevAssumption == Dev \notin Tags
ASSUME FlagAssumption ==
    Flags \subseteq [check : BOOLEAN, force : BOOLEAN, version : Tags \cup {Latest}]

Builds == Tags \X (1 .. MaxBuilds)
Local == <<Dev, 1>>

ASSUME NoneAssumption == {Noise, None} \cap (Builds \cup {Local}) = {} /\ Noise # None

VARIABLES
    assets,     \* for each tag the binary and the digest that its URLs serve
    published,  \* history: the builds whose digest has been published
    exe,        \* the installed binary: its bytes, and in which state its file was
    pc, opts,   \* each process and its flags
    current,    \* the version a process runs
    rel,        \* the tag of the release it resolved
    bytes,      \* the binary it downloaded
    digest,     \* the digest it downloaded
    tmp,        \* the state of its temporary file, "ready" when it is whole and executable
    wrote       \* history: the bytes it has replaced the binary with

world == <<assets, published>>
vars == <<world, exe, pc, opts, current, rel, bytes, digest, tmp, wrote>>

Working == {"resolve", "decide", "binary", "digest", "verify", "create", "write", "chmod",
            "rename", "replaced"}
States == Working \cup {"idle", "ok", "report", "error", "dead"}

FileStates == {"none", "empty", "partial", "whole", "ready"}

TypeOK ==
    /\ assets \in [Tags -> [bin : Builds, sum : Builds]]
    /\ published \subseteq Builds
    /\ exe \in [bytes : Builds \cup {Local, Noise}, state : FileStates]
    /\ pc \in [Procs -> States]
    /\ opts \in [Procs -> Flags]
    /\ current \in [Procs -> Tags \cup {Dev}]
    /\ rel \in [Procs -> Tags \cup {Dev}]
    /\ bytes \in [Procs -> Builds \cup {Noise, None}]
    /\ digest \in [Procs -> Builds \cup {None}]
    /\ tmp \in [Procs -> FileStates]
    /\ wrote \in [Procs -> Builds \cup {Noise, None}]

\* Every tag has a first build with its digest, and one of them or a local build is installed.
Init ==
    /\ assets = [t \in Tags |-> [bin |-> <<t, 1>>, sum |-> <<t, 1>>]]
    /\ published = {<<t, 1>> : t \in Tags}
    /\ exe \in [bytes : published \cup {Local}, state : {"ready"}]
    /\ pc = [p \in Procs |-> "idle"]
    /\ opts \in [Procs -> Flags]
    /\ current = [p \in Procs |-> Dev] /\ rel = [p \in Procs |-> Dev]
    /\ bytes = [p \in Procs |-> None] /\ digest = [p \in Procs |-> None]
    /\ tmp = [p \in Procs |-> "none"] /\ wrote = [p \in Procs |-> None]

-----------------------------------------------------------------------------
(* The publisher.  Which release is the latest may change at any moment, so *)
(* Resolve takes any.                                                      *)

\* A release is built again: its binary is replaced, and its digest after that.
Rebuild(t) ==
    /\ assets[t].bin[2] < MaxBuilds /\ assets[t].sum = assets[t].bin
    /\ assets' = [assets EXCEPT ![t].bin = <<t, @[2] + 1>>]
    /\ UNCHANGED <<published, exe, pc, opts, current, rel, bytes, digest, tmp, wrote>>

PublishDigest(t) ==
    /\ assets[t].sum # assets[t].bin
    /\ assets' = [assets EXCEPT ![t].sum = assets[t].bin]
    /\ published' = published \cup {assets[t].bin}
    /\ UNCHANGED <<exe, pc, opts, current, rel, bytes, digest, tmp, wrote>>

-----------------------------------------------------------------------------
(* One process: resolve, decide, download, verify.                         *)

Goto(p, s) == pc' = [pc EXCEPT ![p] = s]
Keep == UNCHANGED <<world, exe, opts, current>>

\* run returns, and what it held is gone.
End(p, result) ==
    /\ Goto(p, result)
    /\ bytes' = [bytes EXCEPT ![p] = None] /\ digest' = [digest EXCEPT ![p] = None]

\* The process runs the binary that is installed now.
Start(p) ==
    /\ pc[p] = "idle"
    /\ current' = [current EXCEPT ![p] = exe.bytes[1]]
    /\ Goto(p, "resolve")
    /\ UNCHANGED <<world, exe, opts, rel, bytes, digest, tmp, wrote>>

\* A request is refused for its scheme, is not answered or answered by 400 and above, or
\* its answer is no release or no digest; a release may lack the assets of the platform.
DownloadFails(p) ==
    /\ pc[p] \in {"resolve", "binary", "digest"}
    /\ End(p, "error")
    /\ Keep /\ UNCHANGED <<rel, tmp, wrote>>

Resolve(p) ==
    /\ pc[p] = "resolve"
    /\ \E t \in (IF opts[p].version = Latest THEN Tags ELSE {opts[p].version}) :
          rel' = [rel EXCEPT ![p] = t]
    /\ Goto(p, "decide")
    /\ Keep /\ UNCHANGED <<bytes, digest, tmp, wrote>>

UpToDate(p) == current[p] # Dev /\ rel[p] = current[p] /\ ~opts[p].force

\* --check and an equal tag stop here.
Decide(p) ==
    /\ pc[p] = "decide"
    /\ Goto(p, IF opts[p].check \/ UpToDate(p) THEN "report" ELSE "binary")
    /\ Keep /\ UNCHANGED <<rel, bytes, digest, tmp, wrote>>

\* Whatever the URL serves at this moment, if it is not spoilt on the way.
DownloadBinary(p) ==
    /\ pc[p] = "binary"
    /\ \E b \in {assets[rel[p]].bin, Noise} : bytes' = [bytes EXCEPT ![p] = b]
    /\ Goto(p, "digest")
    /\ Keep /\ UNCHANGED <<rel, digest, tmp, wrote>>

DownloadDigest(p) ==
    /\ pc[p] = "digest"
    /\ digest' = [digest EXCEPT ![p] = assets[rel[p]].sum]
    /\ Goto(p, "verify")
    /\ Keep /\ UNCHANGED <<rel, bytes, tmp, wrote>>

\* MUTANT of Verify: the digest has only to belong to the release.
VerifyTag(p) ==
    /\ pc[p] = "verify"
    /\ bytes[p] # Noise /\ Goto(p, "create")
    /\ Keep /\ UNCHANGED <<rel, bytes, digest, tmp, wrote>>

\* The sum is compared before the target is touched.
Verify(p) ==
    /\ pc[p] = "verify"
    /\ IF bytes[p] = digest[p]
       THEN Goto(p, "create") /\ UNCHANGED <<bytes, digest>>
       ELSE End(p, "error")
    /\ Keep /\ UNCHANGED <<rel, tmp, wrote>>

-----------------------------------------------------------------------------
(* One process: replaceBinary, a system call at a time.                    *)

CreateTemp(p) ==
    /\ pc[p] = "create"
    /\ tmp' = [tmp EXCEPT ![p] = "empty"] /\ Goto(p, "write")
    /\ Keep /\ UNCHANGED <<rel, bytes, digest, wrote>>

\* A write may stop half-way; it is closed when it is whole.
WriteTemp(p) ==
    /\ pc[p] = "write"
    /\ \/ tmp[p] = "empty" /\ tmp' = [tmp EXCEPT ![p] = "partial"] /\ UNCHANGED pc
       \/ tmp' = [tmp EXCEPT ![p] = "whole"] /\ Goto(p, "chmod")
    /\ Keep /\ UNCHANGED <<rel, bytes, digest, wrote>>

ChmodTemp(p) ==
    /\ pc[p] = "chmod"
    /\ tmp' = [tmp EXCEPT ![p] = "ready"] /\ Goto(p, "rename")
    /\ Keep /\ UNCHANGED <<rel, bytes, digest, wrote>>

\* MUTANT of StepFails: the file is not removed if the write failed.
StepFailsUncleaned(p) ==
    /\ pc[p] \in {"create", "write", "chmod", "rename"}
    /\ End(p, "error")
    /\ tmp' = [tmp EXCEPT ![p] = IF pc[p] = "write" THEN @ ELSE "none"]
    /\ Keep /\ UNCHANGED <<rel, wrote>>

\* resolveExe or CreateTemp fails, or a later call, which removes the temporary file.
StepFails(p) ==
    /\ pc[p] \in {"create", "write", "chmod", "rename"}
    /\ End(p, "error")
    /\ tmp' = [tmp EXCEPT ![p] = "none"]
    /\ Keep /\ UNCHANGED <<rel, wrote>>

Rename(p) ==
    /\ pc[p] = "rename"
    /\ exe' = [bytes |-> bytes[p], state |-> tmp[p]]
    /\ tmp' = [tmp EXCEPT ![p] = "none"] /\ wrote' = [wrote EXCEPT ![p] = bytes[p]]
    /\ Goto(p, "replaced")
    /\ UNCHANGED <<world, opts, current, rel, bytes, digest>>

\* replaceBinary returns, and the new version is reported.
Succeed(p) ==
    /\ pc[p] = "replaced"
    /\ End(p, "ok")
    /\ Keep /\ UNCHANGED <<rel, tmp, wrote>>

\* A process that is killed leaves its temporary file behind, or after the rename the
\* binary replaced and nothing said.
Die(p) ==
    /\ pc[p] \in Working
    /\ End(p, "dead")
    /\ Keep /\ UNCHANGED <<rel, tmp, wrote>>

-----------------------------------------------------------------------------
Run(p) ==
    \/ Start(p) \/ Resolve(p) \/ Decide(p) \/ DownloadBinary(p) \/ DownloadDigest(p)
    \/ DownloadFails(p) \/ Verify(p) \/ CreateTemp(p) \/ WriteTemp(p) \/ ChmodTemp(p)
    \/ StepFails(p) \/ Rename(p) \/ Succeed(p)

Next ==
    \/ \E t \in Tags : Rebuild(t) \/ PublishDigest(t)
    \/ \E p \in Procs : Run(p) \/ Die(p)

Spec == Init /\ [][Next]_vars

-----------------------------------------------------------------------------
(* Properties.                                                             *)

\* At every moment the installed binary is whole and executable, and one that the
\* publisher has given a digest for (or the local build that was there): neither a
\* release that is rebuilt between the two downloads, nor noise, nor a process that dies
\* while it writes, nor another updater puts anything else in its place (run, lines
\* 143-166, and replaceBinary).
InstalledBinaryIsVerified ==
    exe.state = "ready" /\ exe.bytes \in published \cup {Local}

\* A process that failed or only reported has changed nothing and left nothing behind;
\* one that was killed has left its temporary file or replaced the binary, never both;
\* --check never gets to touch a file; and whoever has replaced the binary has put there
\* the very release it resolved, over another one unless it was forced (run and
\* replaceBinary's cleanup).
OnlySuccessLeavesATrace ==
    \A p \in Procs :
        /\ pc[p] \in {"replaced", "ok"} => wrote[p] # None
        /\ tmp[p] # "none" => /\ pc[p] \in Working \cup {"dead"}
                              /\ ~opts[p].check /\ wrote[p] = None
        /\ wrote[p] # None => /\ pc[p] \in {"replaced", "ok", "dead"}
                              /\ wrote[p][1] = rel[p] /\ ~opts[p].check
                              /\ rel[p] # current[p] \/ opts[p].force
                              /\ opts[p].version \in {Latest, rel[p]}
=============================================================================
