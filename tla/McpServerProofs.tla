-------------------------- MODULE McpServerProofs ---------------------------
(***************************************************************************)
(* Theorems about McpServer, for any services, flags, clients and inputs:  *)
(* who may call, what a call leaves in the audit log, and that what is     *)
(* registered as a read only reads.                                        *)
(***************************************************************************)
EXTENDS McpServer, FiniteSetTheorems, WellFoundedInduction, TLAPS

Up == {"listen", "serving", "failed", "killed"}
Accepted == {"asked", "running", "executed", "audited", "answered"}

\* The guard of a server that has started is the token its flags ask for.
GuardAsAsked ==
    pc \in Up => IF flags.http = "" THEN flags.tokenFile = "none"
                 ELSE guard \in AuthToken /\ RequireAuth(guard)

\* A call that was let in showed the token.
Admitted(c) == call[c].pc \in Accepted => pc \in Up /\ (guard # "" => call[c].bearer)

GuardInv == GuardAsAsked /\ \A c \in Clients : Admitted(c)

\* A call is a record with these fields.
Fields(r) == [pc |-> r.pc, bearer |-> r.bearer, tool |-> r.tool, input |-> r.input,
              sent |-> r.sent, outcome |-> r.outcome]
CallsAreRecords == call = [c \in Clients |-> Fields(call[c])]

IsCall(r) == r = Fields(r)

LEMMA CallIsRecord == ASSUME CallsAreRecords, NEW c \in Clients PROVE IsCall(call[c])
BY Zenon DEF CallsAreRecords, IsCall

\* Putting a call changes the one of the client and no other.
LEMMA PutOne ==
    ASSUME CallsAreRecords, NEW c \in Clients, NEW r, Put(c, r)
    PROVE  /\ call'[c] = r
           /\ \A d \in Clients \ {c} : call'[d] = call[d]
           /\ IsCall(r) => CallsAreRecords'
<1>1. DOMAIN call = Clients
  BY DEF CallsAreRecords
<1>2. call' = [d \in Clients |-> IF d = c THEN r ELSE call[d]]
  BY <1>1 DEF Put
<1>3. ASSUME IsCall(r), NEW d \in Clients PROVE call'[d] = Fields(call'[d])
  BY <1>2, <1>3, CallIsRecord DEF IsCall
<1>4. IsCall(r) => CallsAreRecords'
  BY <1>2, <1>3 DEF CallsAreRecords
<1> QED BY <1>2, <1>4

\* A record of a call keeps its shape, and the other fields, when one is set.
LEMMA SetPc ==
    ASSUME NEW q, IsCall(q), NEW label
    PROVE  /\ IsCall([q EXCEPT !.pc = label]) /\ [q EXCEPT !.pc = label].pc = label
           /\ [q EXCEPT !.pc = label].bearer = q.bearer
           /\ [q EXCEPT !.pc = label].tool = q.tool
           /\ [q EXCEPT !.pc = label].input = q.input
           /\ [q EXCEPT !.pc = label].outcome = q.outcome
BY DEF IsCall, Fields

LEMMA SetOutcome ==
    ASSUME NEW q, IsCall(q), NEW result
    PROVE  /\ IsCall([q EXCEPT !.outcome = result])
           /\ [q EXCEPT !.outcome = result].outcome = result
           /\ [q EXCEPT !.outcome = result].pc = q.pc
           /\ [q EXCEPT !.outcome = result].bearer = q.bearer
           /\ [q EXCEPT !.outcome = result].tool = q.tool
           /\ [q EXCEPT !.outcome = result].input = q.input
BY DEF IsCall, Fields

LEMMA SetSent ==
    ASSUME NEW q, IsCall(q), NEW v
    PROVE  /\ IsCall([q EXCEPT !.sent = v])
           /\ [q EXCEPT !.sent = v].pc = q.pc
           /\ [q EXCEPT !.sent = v].bearer = q.bearer
           /\ [q EXCEPT !.sent = v].tool = q.tool
           /\ [q EXCEPT !.sent = v].input = q.input
           /\ [q EXCEPT !.sent = v].outcome = q.outcome
BY DEF IsCall, Fields

\* What the steps of a call do to it.
Moves(c, label, result) ==
    /\ CallsAreRecords'
    /\ \A d \in Clients \ {c} : call'[d] = call[d]
    /\ call'[c].pc = label /\ call'[c].outcome = result
    /\ call'[c].bearer = call[c].bearer
    /\ call'[c].tool = call[c].tool /\ call'[c].input = call[c].input

LEMMA MoveTo ==
    ASSUME CallsAreRecords, NEW c \in Clients, NEW label,
           Put(c, [call[c] EXCEPT !.pc = label])
    PROVE  Moves(c, label, call[c].outcome)
<1> DEFINE r == [call[c] EXCEPT !.pc = label]
<1>1. /\ IsCall(r) /\ r.pc = label /\ r.outcome = call[c].outcome
      /\ r.bearer = call[c].bearer /\ r.tool = call[c].tool /\ r.input = call[c].input
  BY CallIsRecord, SetPc, Zenon
<1>2. Put(c, r)
  OBVIOUS
<1> HIDE DEF r
<1> QED BY <1>1, <1>2, PutOne DEF Moves

LEMMA MoveWith ==
    ASSUME CallsAreRecords, NEW c \in Clients, NEW label, NEW result,
           Put(c, [call[c] EXCEPT !.pc = label, !.outcome = result])
    PROVE  Moves(c, label, result)
<1>1. PICK q : q = [call[c] EXCEPT !.pc = label]
  OBVIOUS
<1>2. /\ IsCall(q) /\ q.pc = label
      /\ q.bearer = call[c].bearer /\ q.tool = call[c].tool /\ q.input = call[c].input
  BY <1>1, CallIsRecord, SetPc, Zenon
<1>3. PICK r : r = [q EXCEPT !.outcome = result]
  OBVIOUS
<1>4. /\ IsCall(r) /\ r.pc = q.pc /\ r.outcome = result
      /\ r.bearer = q.bearer /\ r.tool = q.tool /\ r.input = q.input
  BY <1>2, <1>3, SetOutcome
<1>5. Put(c, r)
  BY <1>1, <1>3
<1> QED BY <1>2, <1>4, <1>5, PutOne DEF Moves

LEMMA SentOne ==
    ASSUME CallsAreRecords, NEW c \in Clients, Put(c, [call[c] EXCEPT !.sent = TRUE])
    PROVE  Moves(c, call[c].pc, call[c].outcome)
<1> DEFINE r == [call[c] EXCEPT !.sent = TRUE]
<1>1. /\ IsCall(r) /\ r.pc = call[c].pc /\ r.outcome = call[c].outcome
      /\ r.bearer = call[c].bearer /\ r.tool = call[c].tool /\ r.input = call[c].input
  BY CallIsRecord, SetSent, Zenon
<1>2. Put(c, r)
  OBVIOUS
<1> HIDE DEF r
<1> QED BY <1>1, <1>2, PutOne DEF Moves

\* What a call asks for once it is let in, and what every other call of a client is.
LEMMA Asked ==
    ASSUME CallsAreRecords, NEW c \in Clients, Ask(c)
    PROVE  /\ CallsAreRecords'
           /\ \A d \in Clients \ {c} : call'[d] = call[d]
           /\ call'[c].pc \in {"unauthorized", "unknown", "asked"}
           /\ call'[c].pc = "asked" => (guard # "" => call'[c].bearer)
           /\ call'[c].outcome = "none"
           /\ call'[c].pc = "asked" => call'[c].tool \in DOMAIN tools
           /\ call'[c].sent = FALSE
<1>1. PICK bearer \in BOOLEAN, input \in Inputs, name \in DOMAIN tools \cup {"unknown"} :
        Put(c, [pc |-> IF guard # "" /\ ~bearer THEN "unauthorized"
                       ELSE IF name = "unknown" THEN "unknown" ELSE "asked",
                bearer |-> bearer, tool |-> name, input |-> input,
                sent |-> FALSE, outcome |-> "none"])
  BY DEF Ask
<1> DEFINE label == IF guard # "" /\ ~bearer THEN "unauthorized"
                    ELSE IF name = "unknown" THEN "unknown" ELSE "asked"
           r == [pc |-> label, bearer |-> bearer, tool |-> name, input |-> input,
                 sent |-> FALSE, outcome |-> "none"]
<1>2. Put(c, r)
  BY <1>1
<1>3. /\ IsCall(r) /\ r.pc = label /\ r.bearer = bearer /\ r.outcome = "none"
      /\ r.tool = name /\ r.sent = FALSE
  BY DEF IsCall, Fields
<1>4. /\ label \in {"unauthorized", "unknown", "asked"}
      /\ label = "asked" => (guard # "" => bearer) /\ name \in DOMAIN tools
  OBVIOUS
<1> HIDE DEF r, label
<1> QED BY <1>2, <1>3, <1>4, PutOne

-----------------------------------------------------------------------------
(* Every step of a call, by what it does to it.                            *)

\* A handler takes its call from one label to another.
Step(c, from, to, result) == call[c].pc = from /\ Moves(c, to, result)

LEMMA Handled ==
    ASSUME CallsAreRecords, NEW c \in Clients, Handle(c)
    PROVE  /\ pc = "serving" /\ UNCHANGED <<setup, pc, guard, tools>>
           /\ \/ Step(c, "asked", "answered", "usage") /\ UNCHANGED audit
              \/ Step(c, "asked", "running", call[c].outcome) /\ UNCHANGED audit
              \/ Step(c, "running", "running", call[c].outcome) /\ UNCHANGED audit
              \/ \E result \in {"ok", "error", "dry-run"} :
                    Step(c, "running", "executed", result) /\ UNCHANGED audit
              \/ Step(c, "executed", "audited", call[c].outcome) /\ Audit(c)
              \/ Step(c, "audited", "answered", call[c].outcome) /\ UNCHANGED audit
<1>1. CASE BadInput(c)
  BY <1>1, MoveWith DEF BadInput, Answer, Unchanged, Step
<1>2. CASE Begin(c)
  BY <1>2, MoveTo DEF Begin, Unchanged, Step
<1>3. CASE Send(c)
  BY <1>3, SentOne DEF Send, Unchanged, Step
<1>4. CASE Executed(c)
  BY <1>4, MoveWith DEF Executed, Unchanged, Step
<1>5. CASE Audit(c)
  BY <1>5, MoveTo DEF Audit, Unchanged, Step
<1>6. CASE Reply(c)
  BY <1>6, MoveWith DEF Reply, Answer, Unchanged, Step
<1> QED BY <1>1, <1>2, <1>3, <1>4, <1>5, <1>6 DEF Handle

\* Before the server is up nobody has called.
Quiet == pc \notin Up => audit = <<>> /\ \A c \in Clients : call[c].pc = "idle"

Shape == CallsAreRecords /\ Quiet

LEMMA NobodyCalled == Init => pc \notin Up /\ \A c \in Clients : call[c] = NoCall
BY DEF Init, Up

LEMMA ShapeInit == Init => Shape
<1> SUFFICES ASSUME Init PROVE Shape
  OBVIOUS
<1>1. NoCall = Fields(NoCall) /\ NoCall.pc = "idle"
  BY DEF Fields, NoCall
<1>2. CallsAreRecords
  <2>1. call = [c \in Clients |-> NoCall]
    BY DEF Init
  <2>2. \A c \in Clients : Fields(call[c]) = NoCall
    BY <1>1, NobodyCalled
  <2> QED BY <2>1, <2>2 DEF CallsAreRecords
<1>3. Quiet
  BY <1>1, NobodyCalled DEF Quiet, Init
<1> QED BY <1>2, <1>3 DEF Shape

\* The steps of the server leave the calls alone.
LEMMA ServerStep ==
    ASSUME Refuse \/ Start \/ Listen \/ Kill
    PROVE  UNCHANGED <<setup, call, audit>> /\ (pc \in Up => UNCHANGED <<guard, tools>> /\ pc' \in Up)
BY DEF Refuse, Start, Listen, Kill, Up

LEMMA ShapeKept == ASSUME Shape, [Next]_vars PROVE Shape'
<1>1. CASE UNCHANGED vars
  BY <1>1 DEF vars, Shape, CallsAreRecords, Quiet
<1>2. CASE Refuse \/ Start \/ Listen \/ Kill
  BY <1>2, ServerStep DEF Shape, CallsAreRecords, Quiet
<1>3. ASSUME NEW c \in Clients, Ask(c) PROVE Shape'
  BY <1>3, Asked DEF Shape, Quiet, Ask, Unchanged, Up
<1>4. ASSUME NEW c \in Clients, Handle(c) PROVE Shape'
  BY <1>4, Handled DEF Shape, Quiet, Step, Moves, Up
<1> QED BY <1>1, <1>2, <1>3, <1>4 DEF Next

THEOREM CallsKeepTheirShape == Spec => []Shape
<1> QED BY ShapeInit, ShapeKept, PTL DEF Spec

-----------------------------------------------------------------------------
(* Who may call.                                                           *)

LEMMA GuardInit == Init => GuardInv
<1>1. NoCall.pc = "idle"
  BY DEF NoCall
<1> QED BY <1>1, NobodyCalled DEF GuardInv, GuardAsAsked, Admitted, Accepted

LEMMA GuardKept == ASSUME Shape, GuardInv, [Next]_vars PROVE GuardInv'
<1>1. ASSUME UNCHANGED <<setup, guard>>, pc' \in Up => pc \in Up PROVE GuardAsAsked'
  BY <1>1 DEF GuardInv, GuardAsAsked, AuthToken, RequireAuth, flags
<1>2. CASE UNCHANGED vars
  BY <1>1, <1>2 DEF vars, GuardInv, Admitted
<1>3. CASE Refuse \/ Listen \/ Kill
  <2>1. /\ UNCHANGED <<setup, guard, call>> /\ (pc' \in Up => pc \in Up)
        /\ pc \in Up => pc' \in Up
    BY <1>3 DEF Refuse, Listen, Kill, Up
  <2> QED BY <1>1, <2>1 DEF GuardInv, Admitted
<1>4. CASE Start
  <2>1. \A c \in Clients : call'[c].pc = "idle"
    BY <1>4 DEF Shape, Quiet, Start, Up
  <2>2. GuardAsAsked'
    <3>1. UNCHANGED setup /\ UNCHANGED AuthToken /\ UNCHANGED flags
      BY <1>4 DEF Start, AuthToken, flags
    <3>2. flags.http = "" => flags.tokenFile = "none"
      BY <1>4 DEF Start, Refuses
    <3>3. flags.http # "" => guard' \in AuthToken /\ RequireAuth(guard')
      <4>1. \A t, u \in AuthToken : t = u
        BY DEF AuthToken
      <4> QED BY <1>4, <4>1 DEF Start, Refuses
    <3> QED BY <3>1, <3>2, <3>3 DEF GuardAsAsked, RequireAuth
  <2> QED BY <2>1, <2>2 DEF GuardInv, Admitted, Accepted
<1>5. ASSUME NEW c \in Clients, Ask(c) PROVE GuardInv'
  <2>1. UNCHANGED <<setup, pc, guard, tools>> /\ pc \in Up
    BY <1>5 DEF Ask, Unchanged, Up
  <2>2. ASSUME NEW d \in Clients PROVE Admitted(d)'
    BY <1>5, <2>1, Asked DEF Shape, GuardInv, Admitted, Accepted
  <2> QED BY <1>1, <2>1, <2>2 DEF GuardInv
<1>6. ASSUME NEW c \in Clients, Handle(c) PROVE GuardInv'
  <2>1. UNCHANGED <<setup, pc, guard, tools>> /\ pc \in Up
    BY <1>6, Handled DEF Shape, Up
  <2>2. /\ call'[c].bearer = call[c].bearer /\ call[c].pc \in Accepted
        /\ \A d \in Clients \ {c} : call'[d] = call[d]
    BY <1>6, Handled DEF Shape, Step, Moves, Accepted
  <2>3. ASSUME NEW d \in Clients PROVE Admitted(d)'
    BY <2>1, <2>2 DEF GuardInv, Admitted
  <2> QED BY <1>1, <2>1, <2>3 DEF GuardInv
<1> QED BY <1>2, <1>3, <1>4, <1>5, <1>6 DEF Next

\* For any flags and clients: nothing runs for a caller who has not shown the token that
\* was asked for, and no listener beyond the loopback runs without one unless told to.
THEOREM CallersAreKnown == Spec => []NothingRunsUnguarded
<1>1. Shape /\ GuardInv => NothingRunsUnguarded
  <2> SUFFICES ASSUME GuardInv, NEW c \in Clients,
                      call[c].pc \in {"asked", "running", "executed", "audited"}
               PROVE  /\ flags.tokenFile # "none" => guard = "file" /\ call[c].bearer
                      /\ flags.http \notin {"", "loopback"} => call[c].bearer \/ flags.allowUnauthenticated
    BY DEF NothingRunsUnguarded
  <2>1. pc \in Up /\ (guard # "" => call[c].bearer)
    BY DEF GuardInv, Admitted, Accepted
  <2> QED BY <2>1 DEF GuardInv, GuardAsAsked, AuthToken, RequireAuth
<1>2. Shape /\ GuardInv /\ [Next]_vars => GuardInv'
  BY GuardKept
<1> QED BY <1>1, <1>2, GuardInit, CallsKeepTheirShape, PTL DEF Spec

-----------------------------------------------------------------------------
(* What is in the audit log.                                               *)

\* What runs for a call is settled when it is asked.
LEMMA CommandKept ==
    ASSUME NEW c \in Clients, UNCHANGED <<setup, tools>>,
           call'[c].tool = call[c].tool, call'[c].input = call[c].input
    PROVE  CmdOf(c)' = CmdOf(c)
BY DEF CmdOf, Svc, Cmds, table

Recorded(c) ==
    call[c].pc \in {"audited", "answered"} /\ call[c].outcome # "usage" /\ CmdOf(c).write

\* The record of a call is there from its audit on, and is about that call.
Accounted(c) ==
    /\ call[c].pc \in {"executed", "audited"} => call[c].outcome \in {"ok", "error", "dry-run"}
    /\ call[c].pc = "answered" => call[c].outcome \in {"ok", "error", "dry-run", "usage"}
    /\ Recorded(c) => \E n \in DOMAIN audit : audit[n].client = c
    /\ \A n \in DOMAIN audit : audit[n].client = c =>
          /\ Recorded(c)
          /\ audit[n].outcome = call[c].outcome
          /\ audit[n].method = CmdOf(c).method
          /\ audit[n].sel = tools[call[c].tool].sel

OneEach == \A n, m \in DOMAIN audit : audit[n].client = audit[m].client => n = m

AuditInv == /\ \E S : audit \in Seq(S)
            /\ OneEach
            /\ \A c \in Clients : Accounted(c)

LEMMA AuditInit == Init => AuditInv
<1> SUFFICES ASSUME Init PROVE AuditInv
  OBVIOUS
<1>1. audit = <<>>
  BY DEF Init
<1>2. audit \in Seq({})
  BY <1>1
<1>3. \A c \in Clients : Accounted(c)
  <2>1. NoCall.pc = "idle"
    BY DEF NoCall
  <2> QED BY <1>1, <2>1, NobodyCalled DEF Accounted, Recorded
<1> QED BY <1>1, <1>2, <1>3 DEF AuditInv, OneEach

\* A client whose call and whose records stay as they are stays accounted for.
LEMMA AccountKept ==
    ASSUME NEW d \in Clients, Accounted(d), UNCHANGED <<setup, tools, audit>>, call'[d] = call[d]
    PROVE  Accounted(d)'
BY CommandKept DEF Accounted, Recorded

\* A step of a call that writes no record.
LEMMA UnrecordedStep ==
    ASSUME AuditInv, NEW c \in Clients, NEW from, NEW to, NEW result, Step(c, from, to, result),
           UNCHANGED <<setup, tools, audit>>,
           \/ from = "asked" /\ to = "answered" /\ result = "usage"
           \/ from = "asked" /\ to = "running"
           \/ from = "running" /\ to = "running"
           \/ from = "running" /\ to = "executed" /\ result \in {"ok", "error", "dry-run"}
           \/ from = "audited" /\ to = "answered" /\ result = call[c].outcome
    PROVE  AuditInv'
<1>1. CmdOf(c)' = CmdOf(c)
  BY CommandKept DEF Step, Moves
<1>2. Accounted(c)'
  <2>1. Recorded(c)' <=> Recorded(c)
    BY <1>1 DEF AuditInv, Accounted, Recorded, Step, Moves
  <2> QED BY <1>1, <2>1 DEF AuditInv, Accounted, Recorded, Step, Moves
<1>3. ASSUME NEW d \in Clients \ {c} PROVE Accounted(d)'
  BY <1>3, AccountKept DEF AuditInv, Step, Moves
<1> QED BY <1>2, <1>3 DEF AuditInv, OneEach

\* The audit of a write adds the one record of the call, that of a read adds none.
LEMMA AuditStep ==
    ASSUME Shape, AuditInv, NEW c \in Clients, Audit(c),
           Step(c, "executed", "audited", call[c].outcome)
    PROVE  AuditInv'
<1>1. UNCHANGED <<setup, tools>>
  BY DEF Audit, Unchanged
<1>2. CmdOf(c)' = CmdOf(c) /\ CmdOf(c)'.write = CmdOf(c).write
  BY <1>1, CommandKept DEF Step, Moves
<1>3. /\ call[c].pc = "executed" /\ call'[c].pc = "audited"
      /\ call'[c].outcome = call[c].outcome /\ call'[c].tool = call[c].tool
      /\ call[c].outcome \in {"ok", "error", "dry-run"}
      /\ \A d \in Clients \ {c} : call'[d] = call[d]
  BY DEF Step, Moves, AuditInv, Accounted
<1>4. \A n \in DOMAIN audit : audit[n].client # c
  BY <1>3 DEF AuditInv, Accounted, Recorded
<1>5. CASE ~CmdOf(c).write
  <2>1. UNCHANGED audit
    BY <1>5 DEF Audit
  <2>2. Accounted(c)'
    BY <1>2, <1>3, <1>4, <1>5, <2>1 DEF Accounted, Recorded
  <2>3. ASSUME NEW d \in Clients \ {c} PROVE Accounted(d)'
    BY <2>1, <1>1, <1>3, AccountKept DEF AuditInv
  <2> QED BY <2>1, <2>2, <2>3 DEF AuditInv, OneEach
<1>6. CASE CmdOf(c).write
  <2>1. PICK record : /\ audit' = Append(audit, record)
                      /\ record.client = c /\ record.outcome = call[c].outcome
                      /\ record.method = CmdOf(c).method
                      /\ record.sel = tools[call[c].tool].sel
    BY <1>6 DEF Audit
  <2>2. PICK S : audit \in Seq(S)
    BY DEF AuditInv
  <2>3. /\ audit' \in Seq(S \cup {record})
        /\ DOMAIN audit' = DOMAIN audit \cup {Len(audit) + 1}
        /\ \A n \in DOMAIN audit : audit'[n] = audit[n]
        /\ Len(audit) + 1 \notin DOMAIN audit /\ audit'[Len(audit) + 1] = record
    <3>1. audit \in Seq(S \cup {record})
      BY <2>2
    <3> QED BY <2>1, <3>1
  <2> DEFINE last == Len(audit) + 1
  <2>4. Accounted(c)'
    <3>1. Recorded(c)'
      BY <1>2, <1>3, <1>6 DEF Recorded
    <3>2. \A n \in DOMAIN audit' : audit'[n].client = c => audit'[n] = record
      BY <1>4, <2>3
    <3>3. last \in DOMAIN audit' /\ audit'[last].client = c
      BY <2>1, <2>3
    <3> QED BY <1>1, <1>2, <1>3, <2>1, <3>1, <3>2, <3>3 DEF Accounted
  <2>5. ASSUME NEW d \in Clients \ {c} PROVE Accounted(d)'
    <3>1. CmdOf(d)' = CmdOf(d) /\ (Recorded(d)' <=> Recorded(d))
      BY <1>1, <1>3, CommandKept DEF Recorded
    <3>2. \A n \in DOMAIN audit' : audit'[n].client = d => n \in DOMAIN audit
      BY <2>1, <2>3
    <3>3. Accounted(d)
      BY DEF AuditInv
    <3> QED BY <1>1, <1>3, <2>3, <3>1, <3>2, <3>3 DEF Accounted
  <2>6. OneEach'
    <3>1. OneEach
      BY DEF AuditInv
    <3> QED BY <1>4, <2>1, <2>3, <3>1 DEF OneEach
  <2> QED BY <2>3, <2>4, <2>5, <2>6 DEF AuditInv
<1> QED BY <1>5, <1>6

LEMMA AuditKept == ASSUME Shape, AuditInv, [Next]_vars PROVE AuditInv'
<1>1. CASE UNCHANGED vars
  BY <1>1, AccountKept DEF vars, AuditInv, OneEach
<1>2. CASE Refuse \/ Start \/ Listen \/ Kill
  <2>1. CASE pc \in Up
    BY <1>2, <2>1, ServerStep, AccountKept DEF AuditInv, OneEach
  <2>2. CASE pc \notin Up
    <3>1. UNCHANGED <<call, audit>> /\ audit = <<>> /\ \A c \in Clients : call[c].pc = "idle"
      BY <1>2, <2>2, ServerStep DEF Shape, Quiet
    <3>2. ASSUME NEW c \in Clients PROVE Accounted(c)'
      BY <3>1 DEF Accounted, Recorded
    <3> QED BY <3>1, <3>2 DEF AuditInv, OneEach
  <2> QED BY <2>1, <2>2
<1>3. ASSUME NEW c \in Clients, Ask(c) PROVE AuditInv'
  <2>1. UNCHANGED <<setup, tools, audit>> /\ call[c].pc = "idle"
    BY <1>3 DEF Ask, Unchanged
  <2>2. Accounted(c)'
    <3>1. \A n \in DOMAIN audit : audit[n].client # c
      BY <2>1 DEF AuditInv, Accounted, Recorded
    <3> QED BY <1>3, <2>1, <3>1, Asked DEF Shape, Accounted, Recorded
  <2>3. ASSUME NEW d \in Clients \ {c} PROVE Accounted(d)'
    BY <1>3, <2>1, Asked, AccountKept DEF Shape, AuditInv
  <2> QED BY <2>1, <2>2, <2>3 DEF AuditInv, OneEach
<1>4. ASSUME NEW c \in Clients, Handle(c) PROVE AuditInv'
  <2>1. CallsAreRecords
    BY DEF Shape
  <2>2. UNCHANGED <<setup, tools>>
    BY <1>4, <2>1, Handled
  <2>3. CASE Step(c, "executed", "audited", call[c].outcome) /\ Audit(c)
    BY <2>3, AuditStep
  <2>4. CASE UNCHANGED audit /\ \/ Step(c, "asked", "answered", "usage")
                                \/ Step(c, "asked", "running", call[c].outcome)
                                \/ Step(c, "running", "running", call[c].outcome)
                                \/ Step(c, "audited", "answered", call[c].outcome)
    BY <2>2, <2>4, UnrecordedStep
  <2>5. ASSUME NEW result \in {"ok", "error", "dry-run"},
               Step(c, "running", "executed", result) /\ UNCHANGED audit
        PROVE  AuditInv'
    BY <2>2, <2>5, UnrecordedStep
  <2> QED BY <1>4, <2>1, <2>3, <2>4, <2>5, Handled
<1> QED BY <1>1, <1>2, <1>3, <1>4 DEF Next

\* For any clients, tools and inputs, however the calls interleave: each answered write
\* has exactly one audit record, of its own command and outcome, and nothing else has any.
THEOREM WritesAreAudited == Spec => []AnsweredWritesAreAudited
<1>1. AuditInv => AnsweredWritesAreAudited
  <2> SUFFICES ASSUME AuditInv, NEW c \in Clients
               PROVE  LET mine == {n \in DOMAIN audit : audit[n].client = c} IN
                      /\ Cardinality(mine) <= 1
                      /\ mine # {} => call[c].outcome \in {"ok", "error", "dry-run"} /\ CmdOf(c).write
                      /\ call[c].pc = "answered" /\ call[c].outcome # "usage" /\ CmdOf(c).write =>
                            \E n \in mine : /\ audit[n].outcome = call[c].outcome
                                            /\ audit[n].method = CmdOf(c).method
                                            /\ audit[n].sel = tools[call[c].tool].sel
    BY DEF AnsweredWritesAreAudited
  <2> DEFINE mine == {n \in DOMAIN audit : audit[n].client = c}
  <2>1. Accounted(c) /\ OneEach
    BY DEF AuditInv
  <2>2. Cardinality(mine) <= 1
    <3>1. CASE mine = {}
      BY <3>1, FS_EmptySet
    <3>2. ASSUME NEW n \in mine PROVE Cardinality(mine) = 1
      <4>1. mine = {n}
        BY <2>1, <3>2 DEF OneEach
      <4> QED BY <4>1, FS_Singleton
    <3> QED BY <3>1, <3>2
  <2>3. mine # {} => call[c].outcome \in {"ok", "error", "dry-run"} /\ CmdOf(c).write
    BY <2>1 DEF Accounted, Recorded
  <2>4. call[c].pc = "answered" /\ call[c].outcome # "usage" /\ CmdOf(c).write =>
          \E n \in mine : /\ audit[n].outcome = call[c].outcome
                          /\ audit[n].method = CmdOf(c).method
                          /\ audit[n].sel = tools[call[c].tool].sel
    BY <2>1 DEF Accounted, Recorded
  <2> QED BY <2>2, <2>3, <2>4
<1>2. Shape /\ AuditInv /\ [Next]_vars => AuditInv'
  BY AuditKept
<1> QED BY <1>1, <1>2, AuditInit, CallsKeepTheirShape, PTL DEF Spec

-----------------------------------------------------------------------------
(* What is registered.                                                     *)

LEMMA LeastOf ==
    ASSUME NEW T, T \subseteq Nat, T # {}
    PROVE  \E x \in T : \A y \in T : x <= y
<1>1. PICK x \in T : \A y \in T : ~(<<y, x>> \in OpToRel(<, Nat))
  BY NatLessThanWellFounded, WFMin
<1>2. \A y \in T : ~(y < x)
  BY <1>1 DEF OpToRel
<1> QED BY <1>2

\* Whatever the names that meet, a registered tool is one that a loaded service offers
\* under the name it is registered by.
LEMMA RegisteredToolIsOffered ==
    ASSUME setup \in DOMAIN Setups, NEW name \in DOMAIN BuildServer
    PROVE  /\ BuildServer[name].name = name
           /\ \E sel \in DOMAIN table.services :
                 BuildServer[name] \in NamedTools(sel) \cup VerbTools(sel)
<1> DEFINE places == {n \in DOMAIN table.canonical : Allowed(table.canonical[n])}
           toolsAt(n) == NamedTools(table.canonical[n]) \cup VerbTools(table.canonical[n])
           offers == UNION {{[place |-> n, tool |-> t] : t \in toolsAt(n)} : n \in places}
           named == {o \in offers : o.tool.name = name}
           IsFirst(o) == /\ o.tool.name = name
                         /\ \A p \in offers : p.tool.name = name => o.place <= p.place
<1>1. table.canonical \in Seq(DOMAIN table.services)
  BY SetupsAssumption DEF table
<1>2. \A o \in offers : o.place \in Nat /\ o.place \in places /\ o.tool \in toolsAt(o.place)
  BY <1>1
<1>3. name \in {o.tool.name : o \in offers}
  BY DEF BuildServer
<1>4. \E o \in offers : IsFirst(o)
  <2> DEFINE taken == {o.place : o \in named}
  <2>1. taken \subseteq Nat /\ taken # {}
    BY <1>2, <1>3
  <2>2. PICK n \in taken : \A m \in taken : n <= m
    BY <2>1, LeastOf
  <2> QED BY <2>2
<1>5. PICK o \in offers : BuildServer[name] = o.tool /\ o.tool.name = name
  <2>1. BuildServer[name] = (CHOOSE o \in offers : IsFirst(o)).tool
    BY <1>3, Zenon DEF BuildServer
  <2> QED BY <1>4, <2>1
<1>6. o.place \in DOMAIN table.canonical /\ o.tool \in toolsAt(o.place)
  BY <1>2
<1>7. table.canonical[o.place] \in DOMAIN table.services
  BY <1>1, <1>6
<1> QED BY <1>5, <1>6, <1>7

\* What a tool says of itself holds of every command it can run.
Truthful(tool) ==
    tool.sel \in DOMAIN table.services /\ (flags.readOnly \/ tool.hints.readOnly =>
        IF tool.verb THEN tool.id = "get" /\ Svc(tool.sel).transport # "jsonrpc-ws"
        ELSE /\ tool.id \in DOMAIN Cmds(tool.sel)
             /\ ~Cmds(tool.sel)[tool.id].write)

LEMMA OfferIsTruthful ==
    ASSUME NEW sel \in DOMAIN table.services, NEW tool \in NamedTools(sel) \cup VerbTools(sel)
    PROVE  Truthful(tool)
<1>1. CASE tool \in NamedTools(sel)
  <2>1. PICK id \in DOMAIN Cmds(sel) :
           /\ ~(flags.readOnly /\ Cmds(sel)[id].write)
           /\ tool = Tool(sel, id, FALSE, Cmds(sel)[id].write, Cmds(sel)[id].method)
    BY <1>1 DEF NamedTools
  <2>2. /\ tool.sel = sel /\ tool.id = id /\ tool.verb = FALSE
        /\ tool.hints.readOnly = ~Cmds(sel)[id].write
    BY <2>1 DEF Tool, Hints
  <2> QED BY <2>1, <2>2 DEF Truthful
<1>2. CASE tool \in VerbTools(sel)
  <2>1. PICK verb \in VerbsOf(sel) : ~(flags.readOnly /\ verb # "get") /\ tool = VerbTool(sel, verb)
    BY <1>2 DEF VerbTools
  <2>2. /\ tool.sel = sel /\ tool.id = verb /\ tool.verb = TRUE
        /\ tool.hints.readOnly = ~(verb # "get")
    BY <2>1 DEF VerbTool, Tool, Hints
  <2>3. verb = "get" => Svc(sel).transport # "jsonrpc-ws"
    BY DEF VerbsOf
  <2> QED BY <2>1, <2>2, <2>3 DEF Truthful
<1> QED BY <1>1, <1>2

\* The marks of FromManifest: a command that is no write has a method that is none.
LEMMA ReadsHaveReadMethods ==
    ASSUME setup \in DOMAIN Setups, NEW sel \in DOMAIN table.services, NEW id \in DOMAIN Cmds(sel)
    PROVE  Cmds(sel)[id].write = IsWrite(Svc(sel).transport, Cmds(sel)[id].method)
<1> DEFINE c == Svc(sel).commands[id]
<1>1. id \in DOMAIN Svc(sel).commands
  BY DEF Cmds, FromManifest
<1>2. IsCommand(c)
  BY <1>1, SetupsAssumption DEF Svc, table
<1>3. Cmds(sel)[id] = [c EXCEPT !.pagination = IF @ = "" THEN Svc(sel).pagination ELSE @,
                                !.output = IF @ = "" THEN Svc(sel).output ELSE @,
                                !.write = IsWrite(Svc(sel).transport, c.method)]
  BY <1>1, Zenon DEF Cmds, FromManifest
<1> HIDE DEF c
<1> QED BY <1>2, <1>3 DEF IsCommand, CommandFields

\* The verb that is a read makes commands that read, whatever it is given.
LEMMA GetReads ==
    ASSUME NEW transport, transport # "jsonrpc-ws", NEW word
    PROVE  LET cmd == Verb(transport, "get", word) IN
           ~cmd.write /\ ~IsWrite(transport, cmd.method)
<1> DEFINE cmd == Verb(transport, "get", word)
<1>1. HTTPVerbs["get"] = "GET"
  BY DEF HTTPVerbs
<1>2. cmd.write = IsWrite(transport, "GET") /\ cmd.method = "GET"
  BY <1>1 DEF Verb, BlankCommand
<1> QED BY <1>2 DEF IsWrite

-----------------------------------------------------------------------------
(* What is sent.                                                           *)

\* The tools are those of BuildServer, a call that was let in is for one of them, and what
\* has been sent was sent for such a call.
ToolsInv ==
    /\ setup \in DOMAIN Setups
    /\ pc \in Up => tools = BuildServer
    /\ \A c \in Clients : /\ call[c].pc \in Accepted => pc \in Up /\ call[c].tool \in DOMAIN tools
                          /\ call[c].sent => call[c].pc \in Accepted

LEMMA ToolsInit == Init => ToolsInv
<1>1. NoCall.pc = "idle" /\ NoCall.sent = FALSE
  BY DEF NoCall
<1> QED BY <1>1, NobodyCalled DEF ToolsInv, Accepted, Init

\* Registration depends on nothing but what the server is started with.
LEMMA RegistrationStays == ASSUME UNCHANGED setup PROVE BuildServer' = BuildServer
BY DEF BuildServer, NamedTools, VerbTools, VerbsOf, VerbTool, Tool, ToolName, Allowed, Svc, Cmds,
       table, flags

\* A step that leaves a call where it was let in, and the tools as they are.
LEMMA ToolsStay ==
    ASSUME ToolsInv, UNCHANGED <<setup, tools>>, pc' \in Up => pc \in Up, pc \in Up => pc' \in Up,
           \A c \in Clients :
              \/ call'[c] = call[c]
              \/ call[c].pc \in Accepted /\ call'[c].pc \in Accepted /\ call'[c].tool = call[c].tool
    PROVE  ToolsInv'
BY RegistrationStays DEF ToolsInv

LEMMA ToolsKept == ASSUME Shape, ToolsInv, [Next]_vars PROVE ToolsInv'
<1>1. CASE UNCHANGED vars
  BY <1>1, ToolsStay DEF vars
<1>2. CASE Refuse \/ Listen \/ Kill
  <2>1. UNCHANGED <<setup, tools, call>> /\ (pc' \in Up <=> pc \in Up)
    BY <1>2 DEF Refuse, Listen, Kill, Up
  <2> QED BY <2>1, ToolsStay
<1>3. CASE Start
  <2>1. /\ UNCHANGED <<setup, call>> /\ tools' = BuildServer
        /\ \A c \in Clients : call'[c].pc = "idle"
    BY <1>3 DEF Shape, Quiet, Start, Up
  <2>2. setup' \in DOMAIN Setups /\ (pc' \in Up => tools' = BuildServer')
    BY <2>1, RegistrationStays DEF ToolsInv
  <2>3. ASSUME NEW c \in Clients PROVE call'[c].pc \notin Accepted /\ ~call'[c].sent
    BY <2>1 DEF ToolsInv, Accepted
  <2> QED BY <2>2, <2>3 DEF ToolsInv
<1>4. ASSUME NEW c \in Clients, Ask(c) PROVE ToolsInv'
  <2>1. /\ UNCHANGED <<setup, pc, tools>> /\ pc \in Up
        /\ \A d \in Clients \ {c} : call'[d] = call[d]
    BY <1>4, Asked DEF Shape, Ask, Unchanged, Up
  <2>2. /\ call'[c].pc \in Accepted => call'[c].tool \in DOMAIN tools
        /\ ~call'[c].sent
    BY <1>4, Asked DEF Shape, Accepted
  <2>3. setup' \in DOMAIN Setups /\ (pc' \in Up => tools' = BuildServer')
    BY <2>1, RegistrationStays DEF ToolsInv
  <2> QED BY <2>1, <2>2, <2>3 DEF ToolsInv
<1>5. ASSUME NEW c \in Clients, Handle(c) PROVE ToolsInv'
  <2>1. UNCHANGED <<setup, pc, tools>>
    BY <1>5, Handled DEF Shape
  <2>2. /\ call[c].pc \in Accepted /\ call'[c].pc \in Accepted /\ call'[c].tool = call[c].tool
        /\ \A d \in Clients \ {c} : call'[d] = call[d]
    BY <1>5, Handled DEF Shape, Step, Moves, Accepted
  <2> QED BY <2>1, <2>2, ToolsStay
<1> QED BY <1>1, <1>2, <1>3, <1>4, <1>5 DEF Next

\* For any services, flags, clients and inputs, also where the names of two services meet:
\* no tool that is registered as a read, and none of a read-only server, runs a command that
\* is marked as a write, and the request of a plain command is none.  Composed commands count
\* as reads whatever their steps send: of them this says no more than the mark.
THEOREM ReadersOnlyRead == Spec => []ReadOnlyToolsOnlyRead
<1>1. ToolsInv => ReadOnlyToolsOnlyRead
  <2> DEFINE tool(c) == tools[call[c].tool]
  <2> SUFFICES ASSUME ToolsInv, NEW c \in Clients, call[c].sent,
                      flags.readOnly \/ tool(c).hints.readOnly
               PROVE  ~CmdOf(c).write /\ ~IsWrite(Svc(tool(c).sel).transport, CmdOf(c).method)
    BY DEF ReadOnlyToolsOnlyRead
  <2>1. setup \in DOMAIN Setups /\ call[c].tool \in DOMAIN BuildServer /\ tools = BuildServer
    BY DEF ToolsInv
  <2>2. Truthful(tool(c))
    BY <2>1, RegisteredToolIsOffered, OfferIsTruthful
  <2>3. CASE tool(c).verb
    <3>1. CmdOf(c) = Verb(Svc(tool(c).sel).transport, "get", call[c].input.word)
      BY <2>2, <2>3 DEF Truthful, CmdOf
    <3> QED BY <2>2, <2>3, <3>1, GetReads DEF Truthful
  <2>4. CASE ~tool(c).verb
    <3>1. CmdOf(c) = Cmds(tool(c).sel)[tool(c).id]
      BY <2>4 DEF CmdOf
    <3> QED BY <2>1, <2>2, <2>4, <3>1, ReadsHaveReadMethods DEF Truthful
  <2> QED BY <2>3, <2>4
<1>2. Shape /\ ToolsInv /\ [Next]_vars => ToolsInv'
  BY ToolsKept
<1> QED BY <1>1, <1>2, ToolsInit, CallsKeepTheirShape, PTL DEF Spec

-----------------------------------------------------------------------------
(* Types.                                                                  *)

CallLabels == {"idle", "unauthorized", "unknown", "asked", "running", "executed", "audited", "answered"}
Outcomes == {"none", "usage", "ok", "error", "dry-run"}

Typed ==
    /\ pc \in {"start", "listen", "serving", "refused", "failed", "killed"}
    /\ guard \in {"", "file", "env"}
    /\ pc \notin Up => tools = <<>>
    /\ \A c \in Clients : call[c].pc \in CallLabels /\ call[c].outcome \in Outcomes
    /\ \E S : audit \in Seq(S)
    /\ \A n \in DOMAIN audit : audit[n].client \in Clients

LEMMA TypedInit == Init => Typed
<1> SUFFICES ASSUME Init PROVE Typed
  OBVIOUS
<1>1. \A c \in Clients : call[c].pc = "idle" /\ call[c].outcome = "none"
  <2>1. NoCall.pc = "idle" /\ NoCall.outcome = "none"
    BY DEF NoCall
  <2> QED BY <2>1, NobodyCalled
<1>2. (\E S : audit \in Seq(S)) /\ DOMAIN audit = {}
  <2>1. <<>> \in Seq({}) /\ DOMAIN <<>> = {}
    OBVIOUS
  <2> QED BY <2>1 DEF Init
<1> QED BY <1>1, <1>2 DEF Typed, Init, CallLabels, Outcomes

\* A record that is appended names the client it is written for.
LEMMA AuditNames ==
    ASSUME Typed, NEW c \in Clients, Audit(c)
    PROVE  (\E S : audit' \in Seq(S)) /\ \A n \in DOMAIN audit' : audit'[n].client \in Clients
<1>1. PICK S : audit \in Seq(S)
  BY DEF Typed
<1>2. CASE ~CmdOf(c).write
  BY <1>2 DEF Audit, Typed
<1>3. CASE CmdOf(c).write
  <2>1. PICK entry : entry.client = c /\ audit' = Append(audit, entry)
    BY <1>3 DEF Audit
  <2>2. audit \in Seq(S \cup {entry})
    BY <1>1
  <2>3. /\ audit' \in Seq(S \cup {entry})
        /\ \A n \in DOMAIN audit' : audit'[n] = entry \/ (n \in DOMAIN audit /\ audit'[n] = audit[n])
    BY <2>1, <2>2
  <2> QED BY <2>1, <2>3 DEF Typed
<1> QED BY <1>2, <1>3

LEMMA TypedKept == ASSUME Shape, Typed, [Next]_vars PROVE Typed'
<1>1. CASE UNCHANGED vars
  BY <1>1 DEF vars, Typed
<1>2. CASE Refuse \/ Start \/ Listen \/ Kill
  <2>1. UNCHANGED <<call, audit>>
    BY <1>2, ServerStep
  <2>2. /\ pc' \in {"start", "listen", "serving", "refused", "failed", "killed"}
        /\ guard' \in {"", "file", "env"} /\ (pc' \notin Up => tools' = <<>>)
    BY <1>2 DEF Typed, Refuse, Start, Listen, Kill, AuthToken, Up
  <2> QED BY <2>1, <2>2 DEF Typed
<1>3. ASSUME NEW c \in Clients, Ask(c) PROVE Typed'
  <2>1. UNCHANGED <<pc, guard, tools, audit>>
    BY <1>3 DEF Ask, Unchanged
  <2>2. \A d \in Clients : call'[d].pc \in CallLabels /\ call'[d].outcome \in Outcomes
    BY <1>3, Asked DEF Shape, Typed, CallLabels, Outcomes
  <2> QED BY <2>1, <2>2 DEF Typed
<1>4. ASSUME NEW c \in Clients, Handle(c) PROVE Typed'
  <2>1. UNCHANGED <<pc, guard, tools>> /\ (UNCHANGED audit \/ Audit(c))
    BY <1>4, Handled DEF Shape
  <2>2. \A d \in Clients : call'[d].pc \in CallLabels /\ call'[d].outcome \in Outcomes
    BY <1>4, Handled DEF Shape, Step, Moves, Typed, CallLabels, Outcomes
  <2>3. (\E S : audit' \in Seq(S)) /\ \A n \in DOMAIN audit' : audit'[n].client \in Clients
    BY <2>1, AuditNames DEF Typed
  <2> QED BY <2>1, <2>2, <2>3 DEF Typed
<1> QED BY <1>1, <1>2, <1>3, <1>4 DEF Next

\* For any services, flags, clients and inputs, the type invariant; in particular a tool
\* stands under its own name.
THEOREM McpServerTypeCorrect == Spec => []TypeOK
<1>1. Shape /\ ToolsInv /\ Typed => TypeOK
  <2> SUFFICES ASSUME ToolsInv, Typed PROVE TypeOK
    OBVIOUS
  <2>1. ASSUME NEW name \in DOMAIN tools PROVE tools[name].name = name
    <3>1. CASE pc \in Up
      BY <2>1, <3>1, RegisteredToolIsOffered DEF ToolsInv
    <3>2. CASE pc \notin Up
      <4>1. DOMAIN <<>> = {}
        OBVIOUS
      <4> QED BY <2>1, <3>2, <4>1 DEF Typed
    <3> QED BY <3>1, <3>2
  <2> QED BY <2>1 DEF Typed, ToolsInv, TypeOK, CallLabels, Outcomes
<1>2. Shape /\ Typed /\ [Next]_vars => Typed'
  BY TypedKept
<1>3. Shape /\ ToolsInv /\ [Next]_vars => ToolsInv'
  BY ToolsKept
<1> QED BY <1>1, <1>2, <1>3, TypedInit, ToolsInit, CallsKeepTheirShape, PTL DEF Spec
=============================================================================
