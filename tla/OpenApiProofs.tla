--------------------------- MODULE OpenApiProofs ----------------------------
(***************************************************************************)
(* Theorems about the cache of OpenAPI documents, the commands inferred    *)
(* from it and the manifests generated, for any processes, documents, ages *)
(* and timeouts.                                                           *)
(***************************************************************************)
EXTENDS OpenApi, FiniteSetTheorems, WellFoundedInduction, TLAPS

\* The revisions that have been served so far, each until some time that is past.
Served(n) == n \in 1 .. rev
Past == \A n \in 1 .. rev : LastServed(n) <= clock

\* The copy was served at most the timeout of a request before the time it carries.
FileIsDated ==
    file # NoFile =>
        Served(file.rev) /\ file.at <= clock /\ file.at <= LastServed(file.rev) + Timeout

\* What a process holds at each of its program points, and how old it may be.
Holds(p) ==
    /\ looked[p] <= clock
    /\ pc[p] = "read" => file # NoFile /\ looked[p] <= file.at + Ttl
    /\ pc[p] = "reply" =>
          Served(raw[p]) /\ looked[p] <= LastServed(raw[p]) /\ clock <= looked[p] + Timeout
    /\ pc[p] = "rename" =>
          /\ Served(raw[p]) /\ looked[p] <= LastServed(raw[p])
          /\ temp[p].rev = raw[p]
          /\ temp[p].at <= clock /\ clock <= temp[p].at + Ttl
          /\ temp[p].at <= LastServed(raw[p]) + Timeout
    /\ pc[p] = "parse" =>
          Served(raw[p]) /\ looked[p] <= LastServed(raw[p]) + Ttl + Timeout

IInv == TypeOK /\ Past /\ FileIsDated /\ \A p \in Procs : Holds(p)

-----------------------------------------------------------------------------
LEMMA Numbers ==
    ASSUME TypeOK
    PROVE  /\ clock \in Nat /\ rev \in Nat \ {0} /\ rev <= Len(docs) /\ Len(docs) \in Nat
           /\ \A n \in 1 .. rev : LastServed(n) \in Nat
           /\ file.rev \in Nat /\ file.at \in Nat
           /\ \A p \in Procs : /\ raw[p] \in Nat /\ looked[p] \in Nat
                               /\ temp[p].rev \in Nat /\ temp[p].at \in Nat
<1>1. Len(docs) \in Nat \ {0} /\ DOMAIN docs = 1 .. Len(docs)
  BY HistoryAssumption DEF TypeOK
<1>2. clock \in Nat /\ rev \in 1 .. Len(docs)
  BY <1>1, TimeAssumption DEF TypeOK
<1>3. \A n \in 1 .. rev : LastServed(n) \in Nat
  BY <1>1, <1>2 DEF TypeOK, LastServed
<1> QED BY <1>1, <1>2, <1>3 DEF TypeOK

\* As long as the server and the clock stand still nothing grows older.
LEMMA WorldStands ==
    ASSUME UNCHANGED world
    PROVE  \A n : (LastServed(n)' = LastServed(n)) /\ (Served(n)' <=> Served(n))
BY DEF world, LastServed, Served

\* What p does to itself does not concern the others.
LEMMA OthersKeep ==
    ASSUME IInv, NEW p \in Procs, UNCHANGED world,
           \A q \in Procs \ {p} : /\ pc'[q] = pc[q] /\ raw'[q] = raw[q]
                                  /\ looked'[q] = looked[q] /\ temp'[q] = temp[q],
           file' = file \/ (pc[p] = "rename" /\ file' = temp[p]),
           TypeOK', Holds(p)'
    PROVE  IInv'
<1>1. Past'
  BY WorldStands DEF IInv, Past, world
<1>2. FileIsDated' /\ (file # NoFile => file' # NoFile)
  <2>1. CASE file' = file
    BY <2>1, WorldStands DEF IInv, FileIsDated, world
  <2>2. CASE pc[p] = "rename" /\ file' = temp[p]
    <3>1. /\ Served(temp[p].rev) /\ temp[p].at <= clock
          /\ temp[p].at <= LastServed(temp[p].rev) + Timeout
      BY <2>2 DEF IInv, Holds
    <3>2. temp[p] # NoFile
      BY <3>1 DEF Served, NoFile
    <3> QED BY <2>2, <3>1, <3>2, WorldStands DEF FileIsDated, world
  <2> QED BY <2>1, <2>2
<1>3. ASSUME NEW q \in Procs \ {p} PROVE Holds(q)'
  <2>1. pc'[q] = pc[q] /\ raw'[q] = raw[q] /\ looked'[q] = looked[q] /\ temp'[q] = temp[q]
    BY <1>3
  <2>2. clock' = clock
    BY DEF world
  <2>3. pc[q] = "read" => file' # NoFile /\ looked[q] <= file'.at + Ttl
    <3>1. CASE file' = file
      BY <3>1 DEF IInv, Holds
    <3>2. CASE pc[p] = "rename" /\ file' = temp[p]
      <4>1. clock <= temp[p].at + Ttl /\ looked[q] <= clock
        BY <3>2 DEF IInv, Holds
      <4>2. clock \in Nat /\ looked[q] \in Nat /\ temp[p].at \in Nat /\ Ttl \in Nat
        BY Numbers, TimeAssumption DEF IInv
      <4> QED BY <1>2, <3>2, <4>1, <4>2 DEF IInv, Holds
    <3> QED BY <3>1, <3>2
  <2>4. Holds(q)
    BY DEF IInv
  <2> QED BY <2>1, <2>2, <2>3, <2>4, WorldStands DEF Holds
<1> QED BY <1>1, <1>2, <1>3 DEF IInv

-----------------------------------------------------------------------------
(* The steps of a process.                                                 *)

Labels == {"idle", "stat", "read", "request", "reply", "rename", "parse", "loaded",
           "install", "bug"}

LEMMA InitHolds == Init => IInv
<1> SUFFICES ASSUME Init PROVE IInv
  OBVIOUS
<1>1. Len(docs) \in Nat \ {0} /\ DOMAIN docs = 1 .. Len(docs)
  BY HistoryAssumption DEF Init
<1>2. TypeOK
  BY <1>1, TimeAssumption DEF Init, TypeOK, NoFile
<1>3. Past
  BY <1>1 DEF Init, Past, LastServed
<1>4. FileIsDated
  BY DEF Init, FileIsDated
<1>5. \A p \in Procs : Holds(p)
  BY DEF Init, Holds
<1> QED BY <1>2, <1>3, <1>4, <1>5 DEF IInv

LEMMA BeginKeeps == ASSUME IInv, NEW p \in Procs, Begin(p) PROVE IInv'
<1>1. TypeOK'
  BY DEF IInv, TypeOK, Begin, Goto, world, fetch
<1>2. Holds(p)'
  BY DEF IInv, TypeOK, Holds, Begin, Goto, world, fetch
<1> QED BY <1>1, <1>2, OthersKeep DEF IInv, TypeOK, Begin, Goto, fetch

LEMMA StatCacheKeeps == ASSUME IInv, NEW p \in Procs, StatCache(p) PROVE IInv'
<1>1. clock \in Nat /\ file.at \in Nat /\ Ttl \in Nat
  BY Numbers, TimeAssumption DEF IInv
<1>2. TypeOK'
  BY <1>1 DEF IInv, TypeOK, StatCache, Goto, world
<1>3. Holds(p)'
  BY <1>1 DEF IInv, TypeOK, Holds, StatCache, Goto, world
<1> QED BY <1>2, <1>3, OthersKeep DEF IInv, TypeOK, StatCache, Goto

LEMMA ReadCacheKeeps == ASSUME IInv, NEW p \in Procs, ReadCache(p) PROVE IInv'
<1>1. TypeOK'
  BY Numbers DEF IInv, TypeOK, ReadCache, Goto, world
<1>2. Holds(p)'
  <2>1. /\ Served(file.rev) /\ file.at <= LastServed(file.rev) + Timeout
        /\ looked[p] <= file.at + Ttl /\ looked[p] <= clock
    BY DEF IInv, FileIsDated, Holds, ReadCache
  <2>2. looked[p] <= LastServed(file.rev) + Ttl + Timeout
    BY <2>1, Numbers, TimeAssumption DEF IInv, Served
  <2> QED BY <2>1, <2>2, WorldStands DEF IInv, TypeOK, Holds, ReadCache, Goto, world
<1> QED BY <1>1, <1>2, OthersKeep DEF IInv, TypeOK, ReadCache, Goto

LEMMA RespondKeeps == ASSUME IInv, NEW p \in Procs, Respond(p) PROVE IInv'
<1>1. clock \in Nat /\ rev \in 1 .. rev /\ rev \in Nat /\ LastServed(rev) = clock
  BY Numbers DEF IInv, LastServed
<1>2. TypeOK'
  BY <1>1 DEF IInv, TypeOK, Respond, Goto, world
<1>3. Holds(p)'
  <2>1. clock <= clock + Timeout
    BY <1>1, TimeAssumption
  <2> QED BY <1>1, <2>1, WorldStands DEF IInv, TypeOK, Holds, Respond, Goto, world, Served
<1> QED BY <1>2, <1>3, OthersKeep DEF IInv, TypeOK, Respond, Goto

LEMMA RequestFailsKeeps == ASSUME IInv, NEW p \in Procs, RequestFails(p) PROVE IInv'
<1>1. TypeOK'
  BY DEF IInv, TypeOK, RequestFails, Failed, Goto, world
<1>2. Holds(p)'
  BY DEF IInv, TypeOK, Holds, RequestFails, Failed, Goto, world
<1> QED BY <1>1, <1>2, OthersKeep DEF IInv, TypeOK, RequestFails, Failed, Goto

LEMMA ReceiveKeeps == ASSUME IInv, NEW p \in Procs, Receive(p) PROVE IInv'
<1> DEFINE new == [rev |-> raw[p], at |-> clock]
<1>1. /\ Served(raw[p]) /\ looked[p] <= LastServed(raw[p]) /\ looked[p] <= clock
      /\ clock <= looked[p] + Timeout
  BY DEF IInv, Holds, Receive
<1>2. new \in [rev : 0 .. Len(docs), at : Nat]
  BY <1>1, Numbers DEF IInv, Served
<1>3. TypeOK'
  BY <1>2 DEF IInv, TypeOK, Receive, Goto, world
<1>4. Holds(p)'
  <2>1. clock <= clock /\ clock <= clock + Ttl /\ clock <= LastServed(raw[p]) + Timeout
    BY <1>1, Numbers, TimeAssumption DEF IInv, Served
  <2>2. temp'[p] = new /\ pc'[p] = "rename" /\ UNCHANGED <<clock, raw, looked>>
    BY DEF IInv, TypeOK, Receive, Goto, world
  <2>3. UNCHANGED <<rev, left>>
    BY DEF Receive, world
  <2>4. new.rev = raw[p] /\ new.at = clock
    OBVIOUS
  <2> HIDE DEF new
  <2> QED BY <1>1, <2>1, <2>2, <2>3, <2>4, WorldStands DEF Holds, Receive
<1> QED BY <1>3, <1>4, OthersKeep DEF IInv, TypeOK, Receive, Goto

LEMMA RenameKeeps == ASSUME IInv, NEW p \in Procs, Rename(p) PROVE IInv'
<1>1. TypeOK'
  <2>1. /\ temp[p] \in [rev : 0 .. Len(docs), at : Nat] /\ file' \in {file, temp[p]}
        /\ NoFile \in [rev : 0 .. Len(docs), at : Nat]
    BY Numbers DEF IInv, TypeOK, Rename, NoFile
  <2>2. /\ file' \in [rev : 0 .. Len(docs), at : Nat]
        /\ temp' \in [Procs -> [rev : 0 .. Len(docs), at : Nat]]
    BY <2>1 DEF IInv, TypeOK, Rename
  <2> QED BY <2>2 DEF IInv, TypeOK, Rename, Goto, world
<1>2. Holds(p)'
  <2>1. Served(raw[p]) /\ looked[p] <= LastServed(raw[p]) /\ looked[p] <= clock
    BY DEF IInv, Holds, Rename
  <2>2. looked[p] <= LastServed(raw[p]) + Ttl + Timeout
    BY <2>1, Numbers, TimeAssumption DEF IInv, Served
  <2>3. pc'[p] = "parse" /\ UNCHANGED <<clock, raw, looked>>
    BY DEF IInv, TypeOK, Rename, Goto, world
  <2> QED BY <2>1, <2>2, <2>3, WorldStands DEF Holds, Rename
<1> QED BY <1>1, <1>2, OthersKeep DEF IInv, TypeOK, Rename, Goto

LEMMA InferKeeps == ASSUME IInv, NEW p \in Procs, Infer(p) PROVE IInv'
<1>1. TypeOK'
  BY DEF IInv, TypeOK, Infer, Goto, world, fetch
<1>2. Holds(p)'
  BY DEF IInv, TypeOK, Holds, Infer, Goto, world, fetch
<1> QED BY <1>1, <1>2, OthersKeep DEF IInv, TypeOK, Infer, Goto, fetch

LEMMA AddKeeps ==
    ASSUME IInv, NEW p \in Procs, NEW n \in DOMAIN Sources, NEW name, AddOpenAPI(p, n, name)
    PROVE  IInv'
<1>1. pc' = [pc EXCEPT ![p] = "install"] \/ pc' = [pc EXCEPT ![p] = "bug"]
  BY DEF AddOpenAPI, Goto
<1>2. n \in Nat /\ raw' = [raw EXCEPT ![p] = n] /\ UNCHANGED <<world, file, looked, temp>>
  BY SourceAssumption DEF AddOpenAPI
<1>3. TypeOK'
  BY <1>1, <1>2 DEF IInv, TypeOK, world
<1>4. Holds(p)'
  BY <1>1, <1>2 DEF IInv, TypeOK, Holds, world
<1> QED BY <1>1, <1>2, <1>3, <1>4, OthersKeep DEF IInv, TypeOK

LEMMA ExitKeeps == ASSUME IInv, NEW p \in Procs, Exit(p) PROVE IInv'
<1>1. TypeOK'
  BY DEF IInv, TypeOK, Exit, Goto, world, NoFile
<1>2. Holds(p)'
  BY Numbers DEF IInv, TypeOK, Holds, Exit, Goto, world
<1> QED BY <1>1, <1>2, OthersKeep DEF IInv, TypeOK, Exit, Goto

-----------------------------------------------------------------------------
(* The server and the clock.                                               *)

LEMMA PublishKeeps == ASSUME IInv, Publish PROVE IInv'
<1>1. /\ rev' = rev + 1 /\ left' = [left EXCEPT ![rev] = clock]
      /\ UNCHANGED <<clock, docs, file, pc, raw, looked, temp>>
  BY DEF Publish, fetch
<1>2. TypeOK /\ rev \in Nat /\ rev < Len(docs) /\ Len(docs) \in Nat /\ DOMAIN docs = 1 .. Len(docs)
  BY Numbers, HistoryAssumption DEF IInv, TypeOK, Publish
<1>3. TypeOK'
  BY <1>1, <1>2, Numbers DEF TypeOK
<1>4. \A n \in 1 .. rev : LastServed(n)' = LastServed(n)
  BY <1>1, <1>2 DEF TypeOK, LastServed
<1>5. Past'
  <2>1. \A n : n = rev + 1 => LastServed(n)' = clock
    BY <1>1 DEF LastServed
  <2>2. \A n \in 1 .. rev : LastServed(n) <= clock
    BY DEF IInv, Past
  <2>3. \A n \in 1 .. rev + 1 : LastServed(n)' <= clock
    BY <1>2, <1>4, <2>1, <2>2, Numbers DEF IInv
  <2> QED BY <1>1, <2>3 DEF Past
<1>6. FileIsDated'
  BY <1>1, <1>2, <1>4 DEF IInv, FileIsDated, Served
<1>7. ASSUME NEW p \in Procs PROVE Holds(p)'
  BY <1>1, <1>2, <1>4 DEF IInv, Holds, Served
<1> QED BY <1>3, <1>5, <1>6, <1>7 DEF IInv

LEMMA TickKeeps == ASSUME IInv, Tick PROVE IInv'
<1>1. clock' = clock + 1 /\ clock < MaxTime /\ UNCHANGED <<docs, rev, left, file, pc, raw, looked, temp>>
  BY DEF Tick, fetch
<1>2. TypeOK'
  BY <1>1, TimeAssumption DEF IInv, TypeOK
<1>3. \A n \in 1 .. rev : LastServed(n) <= LastServed(n)' /\ LastServed(n)' <= clock'
                          /\ LastServed(n)' \in Nat /\ LastServed(n) \in Nat
  <2>1. \A n \in 1 .. rev : LastServed(n)' = IF n = rev THEN clock + 1 ELSE left[n]
    BY <1>1 DEF LastServed
  <2> QED BY <1>1, <2>1, Numbers DEF IInv, Past, LastServed
<1>4. Past'
  BY <1>1, <1>3 DEF Past
<1>5. FileIsDated'
  <2>1. file # NoFile =>
            Served(file.rev) /\ file.at <= clock + 1 /\ file.at <= LastServed(file.rev)' + Timeout
    BY <1>1, <1>3, Numbers, TimeAssumption DEF IInv, FileIsDated, Served
  <2> QED BY <1>1, <2>1 DEF FileIsDated, Served
<1>6. ASSUME NEW p \in Procs PROVE Holds(p)'
  <2>1. Holds(p) /\ looked[p] <= clock + 1
    BY Numbers DEF IInv, Holds
  <2>2. PICK n : n = raw[p] /\ n = raw'[p]
    BY <1>1
  <2>3. /\ clock \in Nat /\ looked[p] \in Nat /\ temp[p].at \in Nat /\ Ttl \in Nat /\ Timeout \in Nat
        /\ pc[p] = "reply" => clock < looked[p] + Timeout
        /\ pc[p] = "rename" => clock < temp[p].at + Ttl
    BY Numbers, TimeAssumption DEF IInv, Tick
  <2>4. pc[p] = "reply" => /\ n \in 1 .. rev /\ looked[p] <= LastServed(n)'
                           /\ clock + 1 <= looked[p] + Timeout
    BY <1>3, <2>1, <2>2, <2>3 DEF Holds, Served
  <2>5. pc[p] = "rename" => /\ n \in 1 .. rev /\ looked[p] <= LastServed(n)'
                            /\ temp[p].at <= clock + 1 /\ clock + 1 <= temp[p].at + Ttl
                            /\ temp[p].at <= LastServed(n)' + Timeout
    BY <1>3, <2>1, <2>2, <2>3 DEF Holds, Served
  <2>6. pc[p] = "parse" => n \in 1 .. rev /\ looked[p] <= LastServed(n)' + Ttl + Timeout
    BY <1>3, <2>1, <2>2, <2>3 DEF Holds, Served
  <2> QED BY <1>1, <2>1, <2>2, <2>4, <2>5, <2>6 DEF Holds, Served
<1> QED BY <1>2, <1>4, <1>5, <1>6 DEF IInv

-----------------------------------------------------------------------------
(* The theorems.                                                           *)

\* The inductive invariant of the cache: how old the copy on disk, a copy on its way to
\* it and what each process has read may be.
THEOREM CopiesAreDated == Spec => []IInv
<1>1. IInv /\ [Next]_vars => IInv'
  <2> SUFFICES ASSUME IInv, [Next]_vars PROVE IInv'
    OBVIOUS
  <2>1. CASE UNCHANGED vars
    BY <2>1, WorldStands
    DEF vars, world, fetch, IInv, TypeOK, Past, FileIsDated, Holds
  <2>2. ASSUME NEW p \in Procs, Step(p) PROVE IInv'
    BY <2>2, BeginKeeps, StatCacheKeeps, ReadCacheKeeps, RespondKeeps, RequestFailsKeeps,
       ReceiveKeeps, RenameKeeps, InferKeeps, AddKeeps, ExitKeeps DEF Step
  <2> QED BY <2>1, <2>2, PublishKeeps, TickKeeps DEF Next
<1> QED BY <1>1, InitHolds, PTL DEF Spec

\* The type invariant of the cache and its processes.
THEOREM OpenApiTypeCorrect == Spec => []TypeOK
<1>1. IInv => TypeOK
  BY DEF IInv
<1> QED BY <1>1, CopiesAreDated, PTL

\* For any processes, documents, age and timeout: no process infers commands from a
\* document that the server left longer ago than the age of a copy and one timeout.
THEOREM InferenceIsFresh == Spec => []SpecsAreFresh
<1>1. IInv => SpecsAreFresh
  BY DEF IInv, Holds, SpecsAreFresh
<1> QED BY <1>1, CopiesAreDated, PTL

-----------------------------------------------------------------------------
(* What the commands of a service are.                                     *)

LEMMA LeastOf ==
    ASSUME NEW T, T \subseteq Nat, T # {}
    PROVE  \E x \in T : \A y \in T : x <= y
<1>1. PICK x \in T : \A y \in T : ~(<<y, x>> \in OpToRel(<, Nat))
  BY NatLessThanWellFounded, WFMin
<1>2. \A y \in T : ~(y < x)
  BY <1>1 DEF OpToRel
<1> QED BY <1>2

LEMMA LastOf ==
    ASSUME NEW k \in Nat, NEW T, T \subseteq 1 .. k, T # {}
    PROVE  \E x \in T : \A y \in T : y <= x
<1> DEFINE bounds == {b \in Nat : \A y \in T : y <= b}
<1>1. k \in bounds
  OBVIOUS
<1>2. PICK b \in bounds : \A c \in bounds : b <= c
  BY <1>1, LeastOf
<1>3. CASE b \in T
  BY <1>3
<1>4. CASE b \notin T
  <2>1. PICK y \in T : TRUE
    OBVIOUS
  <2>2. y <= b /\ y \in Nat \ {0} /\ b \in Nat
    BY <2>1
  <2>3. b - 1 \in Nat /\ \A z \in T : z <= b - 1
    BY <1>4, <2>2
  <2> QED BY <1>2, <2>2, <2>3
<1> QED BY <1>3, <1>4

\* An inferred command is that of the last operation of its name that the filter lets through.
LEMMA BuiltFromOps ==
    ASSUME NEW ops, NEW s, Len(ops) \in Nat, DOMAIN ops = 1 .. Len(ops),
           NEW id \in DOMAIN BuildCommands(ops, s)
    PROVE  \E n \in DOMAIN ops : /\ FilterIncludes(ops[n], s) /\ CommandKey(ops[n]) = id
                                 /\ BuildCommands(ops, s)[id] = CommandOf(ops[n])
                                 /\ \A m \in DOMAIN ops :
                                       FilterIncludes(ops[m], s) /\ CommandKey(ops[m]) = id => m <= n
<1> DEFINE chosen == {n \in DOMAIN ops : FilterIncludes(ops[n], s)}
           named == {n \in chosen : CommandKey(ops[n]) = id}
           Last(n) == n \in named /\ \A m \in named : m <= n
<1>1. id \in {CommandKey(ops[n]) : n \in chosen}
  BY DEF BuildCommands
<1>2. \E n : Last(n)
  <2>1. named # {} /\ named \subseteq 1 .. Len(ops)
    BY <1>1
  <2> QED BY <2>1, LastOf
<1> DEFINE last == CHOOSE n \in chosen : /\ CommandKey(ops[n]) = id
                                         /\ \A m \in chosen : CommandKey(ops[m]) = id => m <= n
<1>3. /\ last \in chosen /\ CommandKey(ops[last]) = id
      /\ \A m \in chosen : CommandKey(ops[m]) = id => m <= last
  BY <1>2
<1>4. BuildCommands(ops, s)[id] = CommandOf(ops[last])
  BY <1>1, Zenon DEF BuildCommands
<1> QED BY <1>3, <1>4

\* What a process has loaded, by the document it holds.
Loaded(p) ==
    pc[p] = "loaded" =>
        \/ raw[p] = 0 /\ cmds[p] = Service.commands
        \/ raw[p] \in DOMAIN docs /\ cmds[p] = CommandsFrom(docs[raw[p]])

CommandsInv == DOMAIN cmds = Procs /\ \A p \in Procs : Loaded(p)

LEMMA CommandsKept == ASSUME IInv, CommandsInv, [Next]_vars PROVE CommandsInv'
<1>1. CASE UNCHANGED vars
  BY <1>1 DEF vars, world, fetch, CommandsInv, Loaded
<1>2. CASE Publish \/ Tick
  <2>1. UNCHANGED <<docs, pc, raw, cmds>>
    BY <1>2 DEF Publish, Tick, fetch
  <2> QED BY <2>1 DEF CommandsInv, Loaded
<1>3. ASSUME NEW p \in Procs, Step(p) PROVE CommandsInv'
  <2>1. docs' = docs
    BY <1>3 DEF Step, Begin, StatCache, ReadCache, Respond, RequestFails, Receive, Rename,
               Infer, AddOpenAPI, Exit, world
  <2>2. DOMAIN cmds' = Procs
    BY <1>3 DEF CommandsInv, Step, Begin, StatCache, ReadCache, Respond, RequestFails, Receive,
               Rename, Infer, AddOpenAPI, Exit, Failed
  <2>3. \A q \in Procs \ {p} : pc'[q] = pc[q] /\ raw'[q] = raw[q] /\ cmds'[q] = cmds[q]
    BY <1>3 DEF IInv, TypeOK, CommandsInv, Step, Begin, StatCache, ReadCache, Respond,
               RequestFails, Receive, Rename, Infer, AddOpenAPI, Exit, Failed, Goto, fetch
  <2>4. Loaded(p)'
    <3>1. CASE Infer(p)
      <4>1. raw[p] \in 1 .. rev /\ rev <= Len(docs) /\ rev \in Nat /\ Len(docs) \in Nat
        BY <3>1, Numbers DEF IInv, Holds, Served, Infer
      <4>2. raw[p] \in DOMAIN docs
        BY <4>1, HistoryAssumption DEF IInv, TypeOK
      <4>3. cmds'[p] = CommandsFrom(docs[raw[p]]) /\ UNCHANGED <<raw, docs>>
        BY <3>1 DEF CommandsInv, Infer, world, fetch
      <4> QED BY <4>2, <4>3 DEF Loaded
    <3>2. CASE RequestFails(p)
      <4>1. raw'[p] = 0 /\ cmds'[p] = Service.commands
        BY <3>2 DEF IInv, TypeOK, CommandsInv, RequestFails, Failed
      <4> QED BY <4>1 DEF Loaded
    <3>3. CASE ~Infer(p) /\ ~RequestFails(p)
      <4>1. pc'[p] # "loaded"
        BY <1>3, <3>3 DEF IInv, TypeOK, Step, Begin, StatCache, ReadCache, Respond, Receive,
                         Rename, AddOpenAPI, Exit, Goto
      <4> QED BY <4>1 DEF Loaded
    <3> QED BY <3>1, <3>2, <3>3
  <2> QED BY <2>1, <2>2, <2>3, <2>4 DEF CommandsInv, Loaded
<1> QED BY <1>1, <1>2, <1>3 DEF Next

LEMMA VouchedFor ==
    ASSUME IInv, CommandsInv, NEW p \in Procs, pc[p] = "loaded"
    PROVE  LET own == DOMAIN Service.commands
               ops == IF raw[p] # 0 /\ Parses(docs[raw[p]]) THEN docs[raw[p]].ops ELSE <<>>
               Selects(pats, n) == \E pat \in pats : MatchesOp(pat, ops[n])
               admitted == {n \in DOMAIN ops : /\ ~Selects(Service.exclude, n)
                                               /\ Service.include = {} \/ Selects(Service.include, n)}
               Named(id) == {n \in admitted : CommandKey(ops[n]) = id} IN
           /\ \A id \in own : cmds[p][id] = Service.commands[id]
           /\ \A id \in DOMAIN cmds[p] \ own : \E n \in Named(id) :
                 cmds[p][id] = CommandOf(ops[n]) /\ \A m \in Named(id) : m <= n
           /\ \A n \in admitted : CommandKey(ops[n]) \in DOMAIN cmds[p]
<1> DEFINE own == DOMAIN Service.commands
           ops == IF raw[p] # 0 /\ Parses(docs[raw[p]]) THEN docs[raw[p]].ops ELSE <<>>
           Selects(pats, n) == \E pat \in pats : MatchesOp(pat, ops[n])
           admitted == {n \in DOMAIN ops : /\ ~Selects(Service.exclude, n)
                                           /\ Service.include = {} \/ Selects(Service.include, n)}
           Named(id) == {n \in admitted : CommandKey(ops[n]) = id}
<1>0. admitted = {n \in DOMAIN ops : FilterIncludes(ops[n], Service)}
  BY DEF FilterIncludes
<1>1. CASE cmds[p] = Service.commands /\ ops = <<>>
  <2>1. DOMAIN ops = {}
    BY <1>1
  <2>2. admitted = {}
    BY <2>1
  <2> HIDE DEF admitted
  <2> QED BY <1>1, <2>2
<1>2. CASE raw[p] \in DOMAIN docs /\ Parses(docs[raw[p]]) /\ cmds[p] = CommandsFrom(docs[raw[p]])
  <2>1. raw[p] # 0
    BY <1>2, HistoryAssumption DEF IInv, TypeOK
  <2>2. PICK list : list = docs[raw[p]].ops
    OBVIOUS
  <2>3. ops = list /\ Len(list) \in Nat /\ DOMAIN list = 1 .. Len(list)
    BY <1>2, <2>1, <2>2, HistoryAssumption DEF IInv, TypeOK
  <2>4. PICK built : built = BuildCommands(list, Service)
    OBVIOUS
  <2>5. /\ DOMAIN cmds[p] = own \cup DOMAIN built
        /\ \A id \in own : cmds[p][id] = Service.commands[id]
        /\ \A id \in DOMAIN built \ own : cmds[p][id] = built[id]
    BY <1>2, <2>2, <2>4 DEF CommandsFrom, MergeSpecCommands
  <2>6. admitted = {n \in DOMAIN list : FilterIncludes(list[n], Service)}
    BY <1>0, <2>3
  <2>7. ASSUME NEW id \in DOMAIN cmds[p] \ own
        PROVE  \E n \in Named(id) :
                  cmds[p][id] = CommandOf(ops[n]) /\ \A m \in Named(id) : m <= n
    <3>1. id \in DOMAIN built /\ cmds[p][id] = built[id]
      BY <2>5, <2>7
    <3>2. PICK n \in DOMAIN list :
             /\ FilterIncludes(list[n], Service) /\ CommandKey(list[n]) = id
             /\ built[id] = CommandOf(list[n])
             /\ \A m \in DOMAIN list :
                   FilterIncludes(list[m], Service) /\ CommandKey(list[m]) = id => m <= n
      BY <2>3, <2>4, <3>1, BuiltFromOps
    <3>3. n \in Named(id) /\ \A m \in Named(id) : m <= n
      <4> HIDE DEF ops
      <4> QED BY <2>3, <2>6, <3>2
    <3>4. cmds[p][id] = CommandOf(ops[n])
      BY <2>3, <3>1, <3>2
    <3> QED BY <3>3, <3>4
  <2>8. ASSUME NEW n \in admitted PROVE CommandKey(ops[n]) \in DOMAIN cmds[p]
    <3>1. CommandKey(list[n]) \in DOMAIN built
      BY <2>4, <2>6 DEF BuildCommands
    <3> QED BY <2>3, <2>5, <3>1
  <2> QED BY <2>5, <2>7, <2>8
<1>3. CASE raw[p] \in DOMAIN docs /\ ~Parses(docs[raw[p]]) /\ cmds[p] = CommandsFrom(docs[raw[p]])
  BY <1>1, <1>3 DEF CommandsFrom
<1>4. CASE raw[p] = 0 /\ cmds[p] = Service.commands
  BY <1>1, <1>4
<1> QED BY <1>2, <1>3, <1>4 DEF CommandsInv, Loaded

\* For any documents, filters and processes: a service has its own commands untouched, and
\* beside them just the operations that its filter lets through, of two that clash the later.
THEOREM CommandsHaveASource == Spec => []CommandsAreVouchedFor
<1>1. Init => CommandsInv
  BY DEF Init, CommandsInv, Loaded
<1>2. IInv /\ CommandsInv => CommandsAreVouchedFor
  BY VouchedFor DEF CommandsAreVouchedFor
<1>3. IInv /\ CommandsInv /\ [Next]_vars => CommandsInv'
  BY CommandsKept
<1> QED BY <1>1, <1>2, <1>3, CopiesAreDated, PTL DEF Spec

-----------------------------------------------------------------------------
(* What is generated.                                                      *)

\* The secrets that a block names.
NamedSecrets(auth) == UNION {SecretRefs(t) : t \in AuthTemplates(auth)}

LEMMA RefsOfTemplates ==
    /\ SecretRefs(<<>>) = {} /\ SecretRefs(<<Lit>>) = {}
    /\ \A x : SecretRefs(<<Secret(x)>>) = {x}
<1>1. Elems(<<>>) = {} /\ \A t : Elems(<<t>>) = {t}
  BY DEF Elems
<1>2. Lit.kind # "secret" /\ \A x : Secret(x).kind = "secret" /\ Secret(x).name = x
  BY DEF Lit, Secret, Token
<1>3. ASSUME NEW x PROVE SecretRefs(<<Secret(x)>>) = {x}
  <2>1. {u \in Elems(<<Secret(x)>>) : u.kind = "secret"} = {Secret(x)}
    BY <1>1, <1>2
  <2>2. SecretRefs(<<Secret(x)>>) = {t.name : t \in {Secret(x)}}
    BY <2>1 DEF SecretRefs
  <2> QED BY <1>2, <2>2
<1>4. {u \in Elems(<<>>) : u.kind = "secret"} = {} /\ {u \in Elems(<<Lit>>) : u.kind = "secret"} = {}
  BY <1>1, <1>2
<1>5. SecretRefs(<<>>) = {} /\ SecretRefs(<<Lit>>) = {}
  BY <1>4 DEF SecretRefs
<1> QED BY <1>3, <1>5

\* A scheme becomes one of five blocks, each complete; the secrets it names are those that
\* its strategy declares, unless the token URL names others.
IsComplete(auth) ==
    SecretRefs(auth.value) \subseteq DeclaredSlots(auth.strategy) =>
        /\ NamedSecrets(auth) = DeclaredSlots(auth.strategy)
        /\ \A secrets : DOMAIN secrets = DeclaredSlots(auth.strategy) => AuthOK(auth, secrets)

LEMMA Completeness ==
    ASSUME NEW auth, auth.strategy \in Strategies,
           auth.strategy = "header-key" => auth.header # "" /\ auth.value # <<>>,
           auth.strategy = "bearer" => auth.value # <<>>,
           auth.strategy = "basic" => auth.username # <<>> /\ auth.password # <<>>,
           auth.strategy = "oauth2-client-credentials" =>
              auth.value # <<>> /\ auth.username # <<>> /\ auth.password # <<>>,
           SecretRefs(auth.value) \subseteq DeclaredSlots(auth.strategy) =>
              NamedSecrets(auth) = DeclaredSlots(auth.strategy)
    PROVE  IsComplete(auth)
BY DEF IsComplete, AuthOK, NamedSecrets

LEMMA FourTemplates ==
    ASSUME NEW auth
    PROVE  NamedSecrets(auth) = SecretRefs(auth.value) \cup SecretRefs(auth.username)
                                \cup SecretRefs(auth.password) \cup SecretRefs(auth.params)
BY DEF NamedSecrets, AuthTemplates

LEMMA PlainAuthIsComplete == IsComplete(PlainAuth)
<1>1. PlainAuth.strategy = "none" /\ DeclaredSlots("none") = {}
  BY DEF PlainAuth, DeclaredSlots
<1>2. NamedSecrets(PlainAuth) = {}
  BY FourTemplates, RefsOfTemplates DEF PlainAuth
<1>3. PlainAuth.strategy \in Strategies /\ NamedSecrets(PlainAuth) = DeclaredSlots(PlainAuth.strategy)
  BY <1>1, <1>2 DEF Strategies
<1> QED BY <1>1, <1>3, Completeness

LEMMA MappedAuthIsComplete == ASSUME NEW x PROVE IsComplete(MapSecurityScheme(x))
<1>0. PICK auth : auth = MapSecurityScheme(x)
  OBVIOUS
<1>1. CASE x.type = "apikey" /\ x.where = "header"
  <2>1. auth = [PlainAuth EXCEPT !.strategy = "header-key", !.value = <<Secret("api_key")>>,
                                 !.header = IF x.header = "" THEN "X-Api-Key" ELSE x.header]
    BY <1>0, <1>1 DEF MapSecurityScheme
  <2>2. /\ auth.strategy = "header-key" /\ auth.header # "" /\ auth.value = <<Secret("api_key")>>
        /\ auth.username = <<>> /\ auth.password = <<>> /\ auth.params = <<>>
    BY <2>1 DEF PlainAuth
  <2>3. NamedSecrets(auth) = {"api_key"}
    BY <2>2, FourTemplates, RefsOfTemplates
  <2>4. DeclaredSlots(auth.strategy) = {"api_key"} /\ auth.value # <<>>
    <3>1. DeclaredSlots("header-key") = {"api_key"}
      BY DEF DeclaredSlots
    <3>2. auth.value # <<>>
      <4>1. auth.value = <<Secret("api_key")>>
        BY <2>2
      <4>2. \A y : <<y>> # <<>>
        OBVIOUS
      <4> QED BY <4>1, <4>2
    <3> QED BY <2>2, <3>1, <3>2
  <2>5. auth.strategy \in Strategies /\ NamedSecrets(auth) = DeclaredSlots(auth.strategy)
    BY <2>2, <2>3, <2>4 DEF Strategies
  <2>6. IsComplete(auth)
    BY <2>2, <2>4, <2>5, Completeness
  <2> QED BY <1>0, <2>6
<1>2. CASE x.type = "http" /\ x.where = "bearer"
  <2>1. auth = [PlainAuth EXCEPT !.strategy = "bearer", !.value = <<Secret("token")>>]
    BY <1>0, <1>2 DEF MapSecurityScheme
  <2>2. /\ auth.strategy = "bearer" /\ auth.value = <<Secret("token")>>
        /\ auth.username = <<>> /\ auth.password = <<>> /\ auth.params = <<>>
    BY <2>1 DEF PlainAuth
  <2>3. NamedSecrets(auth) = {"token"}
    BY <2>2, FourTemplates, RefsOfTemplates
  <2>4. DeclaredSlots(auth.strategy) = {"token"} /\ auth.value # <<>>
    BY <2>2 DEF DeclaredSlots
  <2>5. auth.strategy \in Strategies /\ NamedSecrets(auth) = DeclaredSlots(auth.strategy)
    BY <2>2, <2>3, <2>4 DEF Strategies
  <2>6. IsComplete(auth)
    BY <2>2, <2>4, <2>5, Completeness
  <2> QED BY <1>0, <2>6
<1>3. CASE x.type = "http" /\ x.where = "basic"
  <2>1. auth = [PlainAuth EXCEPT !.strategy = "basic", !.username = <<Secret("username")>>,
                                 !.password = <<Secret("password")>>]
    BY <1>0, <1>3 DEF MapSecurityScheme
  <2>2. /\ auth.strategy = "basic" /\ auth.value = <<>> /\ auth.params = <<>>
        /\ auth.username = <<Secret("username")>> /\ auth.password = <<Secret("password")>>
    BY <2>1 DEF PlainAuth
  <2>3. NamedSecrets(auth) = {"username", "password"}
    BY <2>2, FourTemplates, RefsOfTemplates
  <2>4. /\ DeclaredSlots(auth.strategy) = {"username", "password"}
        /\ auth.username # <<>> /\ auth.password # <<>>
    BY <2>2 DEF DeclaredSlots
  <2>5. auth.strategy \in Strategies /\ NamedSecrets(auth) = DeclaredSlots(auth.strategy)
    BY <2>2, <2>3, <2>4 DEF Strategies
  <2>6. IsComplete(auth)
    BY <2>2, <2>4, <2>5, Completeness
  <2> QED BY <1>0, <2>6
<1>4. CASE x.type = "oauth2" /\ x.where = "clientCredentials"
  <2>1. PICK url : url = IF x.tokenUrl = <<>> THEN <<Lit>> ELSE x.tokenUrl
    OBVIOUS
  <2>2. auth = [PlainAuth EXCEPT !.strategy = "oauth2-client-credentials", !.value = url,
                                 !.username = <<Secret("client_id")>>,
                                 !.password = <<Secret("client_secret")>>]
    BY <1>0, <1>4, <2>1 DEF MapSecurityScheme
  <2>3. /\ auth.strategy = "oauth2-client-credentials" /\ auth.value = url /\ auth.params = <<>>
        /\ auth.username = <<Secret("client_id")>> /\ auth.password = <<Secret("client_secret")>>
    BY <2>2 DEF PlainAuth
  <2>4. NamedSecrets(auth) = SecretRefs(auth.value) \cup {"client_id", "client_secret"}
    BY <2>3, FourTemplates, RefsOfTemplates
  <2>5. DeclaredSlots(auth.strategy) = {"client_id", "client_secret"}
    BY <2>3 DEF DeclaredSlots
  <2>6. auth.value # <<>> /\ auth.username # <<>> /\ auth.password # <<>>
    BY <2>1, <2>3
  <2>7. /\ auth.strategy \in Strategies
        /\ SecretRefs(auth.value) \subseteq DeclaredSlots(auth.strategy) =>
              NamedSecrets(auth) = DeclaredSlots(auth.strategy)
    BY <2>3, <2>4, <2>5 DEF Strategies
  <2>8. IsComplete(auth)
    BY <2>3, <2>6, <2>7, Completeness
  <2> QED BY <1>0, <2>8
<1>5. CASE /\ ~(x.type = "apikey" /\ x.where = "header")
           /\ ~(x.type = "http" /\ x.where = "bearer")
           /\ ~(x.type = "http" /\ x.where = "basic")
           /\ ~(x.type = "oauth2" /\ x.where = "clientCredentials")
  <2>1. auth = PlainAuth
    BY <1>0, <1>5 DEF MapSecurityScheme
  <2> QED BY <1>0, <2>1, PlainAuthIsComplete
<1> QED BY <1>1, <1>2, <1>3, <1>4, <1>5

LEMMA InferredAuthIsComplete == ASSUME NEW doc PROVE IsComplete(InferAuth(doc))
<1>1. CASE doc.schemes = <<>>
  BY <1>1, PlainAuthIsComplete DEF InferAuth
<1>2. CASE doc.schemes # <<>>
  BY <1>2, MappedAuthIsComplete DEF InferAuth
<1> QED BY <1>1, <1>2

\* The document of a source, in its order.
Document(doc) ==
    /\ Len(doc.ops) \in Nat /\ DOMAIN doc.ops = 1 .. Len(doc.ops)
    /\ \A n \in DOMAIN doc.ops : doc.ops[n].method # ""

NoFilter == [include |-> {}, exclude |-> {}]

\* Without a filter every operation is there, and a command is one of them.
OneForEach(built, ops) ==
    /\ \A n \in DOMAIN ops : CommandKey(ops[n]) \in DOMAIN built
    /\ \A id \in DOMAIN built : \E n \in DOMAIN ops :
          CommandKey(ops[n]) = id /\ built[id] = CommandOf(ops[n])

LEMMA GeneratedCommands ==
    ASSUME NEW ops, Len(ops) \in Nat, DOMAIN ops = 1 .. Len(ops)
    PROVE  OneForEach(BuildCommands(ops, NoFilter), ops)
<1>1. \A op : FilterIncludes(op, NoFilter)
  BY DEF FilterIncludes, NoFilter
<1>2. \A n \in DOMAIN ops : CommandKey(ops[n]) \in DOMAIN BuildCommands(ops, NoFilter)
  BY <1>1 DEF BuildCommands
<1>3. ASSUME NEW id \in DOMAIN BuildCommands(ops, NoFilter)
      PROVE  \E n \in DOMAIN ops :
                CommandKey(ops[n]) = id /\ BuildCommands(ops, NoFilter)[id] = CommandOf(ops[n])
  BY BuiltFromOps
<1> QED BY <1>2, <1>3 DEF OneForEach

LEMMA CommandOfOp ==
    ASSUME NEW op, op.method # "", op.path # <<>>, NEW m,
           m.transport = "", m.output = "", DOMAIN m.endpoints = {}
    PROVE  CommandOK(CommandOf(op), m)
<1>1. PICK c : c = CommandOf(op)
  OBVIOUS
<1>2. /\ c.method = op.method /\ c.path = op.path /\ c.steps = <<>>
      /\ c.endpoint = "" /\ c.pagination = "" /\ c.view = "" /\ c.sortDir = ""
  BY <1>1 DEF CommandOf, BlankCommand
<1>3. CommandOK(c, m)
  BY <1>2 DEF CommandOK, UIOK, Views, SortDirs, TransportOf, PaginationStyles
<1> QED BY <1>1, <1>3

\* The parts of a generated manifest.
IsMadeFrom(m, doc) ==
    /\ m.transport = "" /\ m.base = <<>> /\ m.output = "" /\ m.pagination = "" /\ m.spec = ""
    /\ m.include = {} /\ m.exclude = {} /\ m.unknownKeys = FALSE
    /\ DOMAIN m.endpoints = {} /\ m.auth = InferAuth(doc)
    /\ DOMAIN m.secrets = DeclaredSlots(m.auth.strategy)
    /\ \A x \in DOMAIN m.secrets : m.secrets[x].ref = "" /\ m.secrets[x].idiom = ""
    /\ m.commands = BuildCommands(doc.ops, NoFilter)

LEMMA PartsOfManifest == ASSUME NEW name, NEW doc PROVE IsMadeFrom(ManifestOf(name, doc), doc)
<1>1. PICK m : m = ManifestOf(name, doc)
  OBVIOUS
<1>2. PICK auth : auth = InferAuth(doc)
  OBVIOUS
<1>3. PICK slots : slots = DeclaredSlots(auth.strategy)
  OBVIOUS
<1>4. /\ m.transport = "" /\ m.base = <<>> /\ m.output = "" /\ m.pagination = "" /\ m.spec = ""
      /\ m.include = {} /\ m.exclude = {} /\ m.unknownKeys = FALSE
      /\ m.auth = auth
      /\ m.commands = BuildCommands(doc.ops, NoFilter)
      /\ m.endpoints = [e \in {} |-> BlankEndpoint]
      /\ m.secrets = [x \in slots |-> [BlankSecret EXCEPT !.env = x]]
  BY <1>1, <1>2, <1>3 DEF ManifestOf, NoFilter
<1>5. DOMAIN m.endpoints = {} /\ DOMAIN m.secrets = slots
  BY <1>4
<1>6. ASSUME NEW x \in slots PROVE m.secrets[x].ref = "" /\ m.secrets[x].idiom = ""
  <2>1. m.secrets[x] = [BlankSecret EXCEPT !.env = x]
    BY <1>4
  <2> QED BY <2>1 DEF BlankSecret
<1> QED BY <1>1, <1>2, <1>3, <1>4, <1>5, <1>6 DEF IsMadeFrom

\* Nothing but an operation with an empty path and a token URL with a secret of its own
\* keeps a generated manifest from the gate.
LEMMA MadeManifestIsValid ==
    ASSUME NEW m, NEW doc, IsMadeFrom(m, doc), Document(doc),
           \A n \in DOMAIN doc.ops : doc.ops[n].path # <<>>,
           SecretRefs(m.auth.value) \subseteq DOMAIN m.secrets
    PROVE  Valid(m)
<1>1. AuthOK(m.auth, m.secrets)
  BY InferredAuthIsComplete DEF IsMadeFrom, IsComplete
<1>2. ASSUME NEW id \in DOMAIN m.commands PROVE CommandOK(m.commands[id], m)
  <2>1. m.commands = BuildCommands(doc.ops, NoFilter)
    BY DEF IsMadeFrom
  <2>2. OneForEach(m.commands, doc.ops)
    BY <2>1, GeneratedCommands DEF Document
  <2>3. PICK n \in DOMAIN doc.ops : m.commands[id] = CommandOf(doc.ops[n])
    BY <2>2 DEF OneForEach
  <2>4. doc.ops[n].method # "" /\ doc.ops[n].path # <<>>
    BY DEF Document
  <2>5. m.transport = "" /\ m.output = "" /\ DOMAIN m.endpoints = {}
    BY DEF IsMadeFrom
  <2> QED BY <2>3, <2>4, <2>5, CommandOfOp
<1>3. NoBinding(m) /\ SpecOK(m) /\ TransportOf(m.transport) \in Transports
  BY DEF IsMadeFrom, NoBinding, SpecOK, TransportOf, Transports
<1>4. /\ m.output \in OutputModes /\ m.pagination \in PaginationStyles
      /\ \A x \in DOMAIN m.secrets : m.secrets[x].idiom \in Idioms
  BY DEF IsMadeFrom, OutputModes, PaginationStyles, Idioms
<1> QED BY <1>1, <1>2, <1>3, <1>4 DEF Valid

\* With keys of their own the operations and the commands are as many.
LEMMA EveryOperationHasItsCommand ==
    ASSUME NEW ops, NEW k \in Nat, DOMAIN ops = 1 .. k, KeysAreUnique(ops),
           NEW built, OneForEach(built, ops)
    PROVE  /\ Cardinality(DOMAIN built) = k
           /\ \A n \in DOMAIN ops : \E id \in DOMAIN built : built[id] = CommandOf(ops[n])
<1> DEFINE f == [n \in 1 .. k |-> CommandKey(ops[n])]
<1>1. \A n, m \in 1 .. k : CommandKey(ops[n]) = CommandKey(ops[m]) => n = m
  BY DEF KeysAreUnique
<1>2. f \in Bijection(1 .. k, DOMAIN built)
  <2>1. f \in [1 .. k -> DOMAIN built]
    BY DEF OneForEach
  <2>2. \A n, m \in 1 .. k : f[n] = f[m] => n = m
    BY <1>1
  <2>3. \A id \in DOMAIN built : \E n \in 1 .. k : f[n] = id
    BY DEF OneForEach
  <2> HIDE DEF f
  <2> QED BY <2>1, <2>2, <2>3 DEF Bijection, Injection, Surjection, IsInjective
<1>3. Cardinality(DOMAIN built) = k
  <2>1. IsFiniteSet(1 .. k) /\ Cardinality(1 .. k) = k
    BY FS_Interval
  <2>2. ExistsBijection(1 .. k, DOMAIN built)
    BY <1>2 DEF ExistsBijection
  <2> QED BY <2>1, <2>2, FS_Bijection
<1>4. ASSUME NEW n \in DOMAIN ops PROVE \E id \in DOMAIN built : built[id] = CommandOf(ops[n])
  <2>1. PICK m \in DOMAIN ops : /\ CommandKey(ops[m]) = CommandKey(ops[n])
                                /\ built[CommandKey(ops[n])] = CommandOf(ops[m])
    BY DEF OneForEach
  <2>2. m = n
    BY <1>1, <2>1
  <2> QED BY <2>1, <2>2 DEF OneForEach
<1> QED BY <1>3, <1>4

\* What a process has made, by the document it was made from.
Made(p) ==
    pc[p] \in {"install", "bug"} =>
        /\ raw[p] \in DOMAIN Sources /\ KeysAreUnique(Sources[raw[p]].ops)
        /\ \E name : made[p] = ManifestOf(name, Sources[raw[p]])
        /\ pc[p] = "install" <=> Valid(made[p])

MadeInv == DOMAIN made = Procs /\ \A p \in Procs : Made(p)

LEMMA MadeKept == ASSUME IInv, MadeInv, [Next]_vars PROVE MadeInv'
<1>1. CASE UNCHANGED vars
  BY <1>1 DEF vars, world, fetch, MadeInv, Made
<1>2. CASE Publish \/ Tick
  <2>1. UNCHANGED <<pc, raw, made>>
    BY <1>2 DEF Publish, Tick, fetch
  <2> QED BY <2>1 DEF MadeInv, Made
<1>3. ASSUME NEW p \in Procs, Step(p) PROVE MadeInv'
  <2>1. DOMAIN made' = Procs
    BY <1>3 DEF MadeInv, Step, Begin, StatCache, ReadCache, Respond, RequestFails, Receive,
               Rename, Infer, AddOpenAPI, Exit
  <2>2. \A q \in Procs \ {p} : pc'[q] = pc[q] /\ raw'[q] = raw[q] /\ made'[q] = made[q]
    BY <1>3 DEF IInv, TypeOK, MadeInv, Step, Begin, StatCache, ReadCache, Respond,
               RequestFails, Receive, Rename, Infer, AddOpenAPI, Exit, Failed, Goto, fetch
  <2>3. Made(p)'
    <3>1. ASSUME NEW n \in DOMAIN Sources, NEW name \in {"", "given"}, AddOpenAPI(p, n, name)
          PROVE  Made(p)'
      <4> DEFINE doc == Sources[n]
                 chosen == IF name = "" THEN doc.title ELSE name
      <4>1. /\ KeysAreUnique(doc.ops)
            /\ made' = [made EXCEPT ![p] = ManifestOf(chosen, doc)]
            /\ pc' = [pc EXCEPT ![p] = IF Valid(made'[p]) THEN "install" ELSE "bug"]
            /\ raw' = [raw EXCEPT ![p] = n]
        BY <3>1 DEF AddOpenAPI, Goto
      <4>2. pc'[p] = (IF Valid(made'[p]) THEN "install" ELSE "bug") /\ raw'[p] = n
        BY <4>1 DEF IInv, TypeOK
      <4>3. made'[p] = ManifestOf(chosen, doc)
        BY <4>1 DEF MadeInv
      <4>4. pc'[p] = "install" <=> Valid(made'[p])
        BY <4>2
      <4>5. \E other : made'[p] = ManifestOf(other, Sources[raw'[p]])
        BY <4>2, <4>3
      <4> QED BY <4>1, <4>2, <4>4, <4>5 DEF Made
    <3>2. CASE ~\E n \in DOMAIN Sources, name \in {"", "given"} : AddOpenAPI(p, n, name)
      <4>1. pc'[p] \notin {"install", "bug"}
        BY <1>3, <3>2 DEF IInv, TypeOK, Step, Begin, StatCache, ReadCache, Respond, RequestFails,
                         Receive, Rename, Infer, Exit, Failed, Goto
      <4> QED BY <4>1 DEF Made
    <3> QED BY <3>1, <3>2
  <2> QED BY <2>1, <2>2, <2>3 DEF MadeInv, Made
<1> QED BY <1>1, <1>2, <1>3 DEF Next

\* For any documents: what `catalog add --openapi` generates has every operation, is valid
\* and declares the secrets of its credential, and what it is refused for is an empty path
\* or a secret that the token URL names.  Secrets in the paths are not looked at.
THEOREM GenerationIsSound == Spec => []GeneratedManifestsAreSound
<1>1. Init => MadeInv
  BY DEF Init, MadeInv, Made
<1>2. MadeInv => GeneratedManifestsAreSound
  <2> SUFFICES ASSUME MadeInv, NEW p \in Procs, pc[p] \in {"install", "bug"}
               PROVE  LET ops == Sources[raw[p]].ops
                          m == made[p] IN
                      /\ pc[p] = "bug" =>
                            \/ \E n \in DOMAIN ops : ops[n].path = <<>>
                            \/ ~(SecretRefs(m.auth.value) \subseteq DOMAIN m.secrets)
                      /\ pc[p] = "install" =>
                            /\ Cardinality(DOMAIN m.commands) = Len(ops)
                            /\ \A n \in DOMAIN ops : \E id \in DOMAIN m.commands :
                                  m.commands[id] = CommandOf(ops[n])
                            /\ Lints(m) /\ m.spec = ""
                            /\ DOMAIN m.secrets = UNION {SecretRefs(t) : t \in AuthTemplates(m.auth)}
    BY DEF GeneratedManifestsAreSound
  <2>1. PICK doc : doc = Sources[raw[p]]
    OBVIOUS
  <2>2. Document(doc) /\ KeysAreUnique(doc.ops)
    BY <2>1, SourceAssumption DEF MadeInv, Made, Document
  <2>3. IsMadeFrom(made[p], doc)
    BY <2>1, PartsOfManifest DEF MadeInv, Made
  <2>4. pc[p] = "bug" => \/ \E n \in DOMAIN doc.ops : doc.ops[n].path = <<>>
                         \/ ~(SecretRefs(made[p].auth.value) \subseteq DOMAIN made[p].secrets)
    BY <2>2, <2>3, MadeManifestIsValid DEF MadeInv, Made
  <2>5. pc[p] = "install" => Valid(made[p])
    BY DEF MadeInv, Made
  <2>6. /\ made[p].spec = "" /\ made[p].unknownKeys = FALSE
        /\ made[p].commands = BuildCommands(doc.ops, NoFilter)
    BY <2>3 DEF IsMadeFrom
  <2>7. /\ Cardinality(DOMAIN made[p].commands) = Len(doc.ops)
        /\ \A n \in DOMAIN doc.ops : \E id \in DOMAIN made[p].commands :
              made[p].commands[id] = CommandOf(doc.ops[n])
    <3>1. OneForEach(made[p].commands, doc.ops)
      BY <2>2, <2>6, GeneratedCommands DEF Document
    <3>2. PICK built, ops, k : built = made[p].commands /\ ops = doc.ops /\ k = Len(doc.ops)
      OBVIOUS
    <3>3. k \in Nat /\ DOMAIN ops = 1 .. k /\ KeysAreUnique(ops) /\ OneForEach(built, ops)
      BY <2>2, <3>1, <3>2 DEF Document
    <3>4. /\ Cardinality(DOMAIN built) = k
          /\ \A n \in DOMAIN ops : \E id \in DOMAIN built : built[id] = CommandOf(ops[n])
      BY <3>3, EveryOperationHasItsCommand
    <3> QED BY <3>2, <3>4
  <2>8. pc[p] = "install" => DOMAIN made[p].secrets = NamedSecrets(made[p].auth)
    <3> SUFFICES ASSUME pc[p] = "install" PROVE DOMAIN made[p].secrets = NamedSecrets(made[p].auth)
      OBVIOUS
    <3>1. PICK auth, slots : auth = made[p].auth /\ slots = DOMAIN made[p].secrets
      OBVIOUS
    <3>2. NamedSecrets(auth) \subseteq slots
      BY <2>5, <3>1 DEF Valid, AuthOK, NamedSecrets
    <3>3. auth = InferAuth(doc) /\ slots = DeclaredSlots(auth.strategy)
      BY <2>3, <3>1 DEF IsMadeFrom
    <3>4. SecretRefs(auth.value) \subseteq slots
      BY <3>2, FourTemplates
    <3> QED BY <3>1, <3>3, <3>4, InferredAuthIsComplete DEF IsComplete
  <2> QED BY <2>1, <2>4, <2>5, <2>6, <2>7, <2>8 DEF Lints, NamedSecrets
<1>3. IInv /\ MadeInv /\ [Next]_vars => MadeInv'
  BY MadeKept
<1> QED BY <1>1, <1>2, <1>3, CopiesAreDated, PTL DEF Spec
=============================================================================
