----------------------------- MODULE McpServer ------------------------------
(***************************************************************************)
(* The MCP face: `mcp` from its flags to the listener (internal/cli/       *)
(* builtins.go, internal/mcpserver/auth.go and http.go), the tools it      *)
(* registers (BuildServer), and the calls that clients make on them at     *)
(* the same time, with the audit record of each mutation.                  *)
(*                                                                         *)
(* What engine.Execute does inside a call is Execute.tla; here it ends in  *)
(* one of its ways, before or after a request has left.  The SDK is        *)
(* external: it runs a handler per call and tells unknown tools itself.    *)
(* The context that cmdMCP hands to ServeHTTP is never cancelled by the    *)
(* program, so a server ends by a failing listener or by being killed.     *)
(***************************************************************************)
EXTENDS Manifest, FiniteSetsExt

CONSTANTS
    Setups,   \* bound: by a key, pairs of the loaded services, [services, canonical],
              \* and of the command line and environment of `mcp`
    Clients,  \* callers; each makes one call
    Inputs    \* bound: what a call passes

\* What is loaded (load.go): services with typed commands, each canonical name one of them.
ASSUME SetupsAssumption ==
    \A k \in DOMAIN Setups :
        LET loaded == Setups[k].table IN
        /\ loaded.canonical \in Seq(DOMAIN loaded.services)
        /\ \A sel \in DOMAIN loaded.services :
              LET s == loaded.services[sel].manifest IN
              \A id \in DOMAIN s.commands : IsCommand(s.commands[id])

VARIABLES
    setup,    \* the pair that the server is started with
    pc,       \* "start", "listen", "serving", "refused", "failed", "killed"
    guard,    \* the bearer token that guards /mcp: "", "file" or "env"
    tools,    \* the registered tools, by name
    call,     \* the call of each client
    audit     \* the audit records on stderr, in their order

vars == <<setup, pc, guard, tools, call, audit>>

table == Setups[setup].table
flags == Setups[setup].flags

-----------------------------------------------------------------------------
(* Registration.  A selector is <<service>> or <<catalog, service>>.       *)

\* selectorToolPrefix and toolName: a colon is no character of a tool name.
Prefix(sel) == IF Len(sel) = 1 THEN sel[1] ELSE sel[1] \o "-" \o sel[2]
ToolName(sel, id) == Prefix(sel) \o "_" \o id

Svc(sel) == table.services[sel].manifest
Cmds(sel) == FromManifest(Svc(sel))

Allowed(sel) ==
    \/ flags.services = {}
    \/ \E s \in flags.services : s = sel \/ table.services[s] = table.services[sel]

\* Hints: how a tool presents itself to an agent.
Hints(write, method) ==
    [readOnly |-> ~write,
     destructive |-> IF write /\ method \in {"DELETE", "PUT"} THEN "yes"
                     ELSE IF write /\ method \in {"POST", "PATCH"} THEN "no" ELSE "unset",
     idempotent |-> write /\ method \in {"DELETE", "PUT"}]

Tool(sel, id, verb, write, method) ==
    [name |-> ToolName(sel, id), sel |-> sel, id |-> id, verb |-> verb,
     hints |-> Hints(write, method)]

NamedTools(sel) ==
    LET cmds == Cmds(sel)
        offered == {id \in DOMAIN cmds :
                       ~cmds[id].mcpIgnore /\ ~(flags.readOnly /\ cmds[id].write)} IN
    {Tool(sel, id, FALSE, cmds[id].write, cmds[id].method) : id \in offered}

VerbsOf(sel) == IF Svc(sel).transport = "jsonrpc-ws" THEN {"call"} ELSE DOMAIN HTTPVerbs \ {"head"}
VerbTool(sel, verb) ==
    Tool(sel, verb, TRUE, verb # "get", IF verb = "call" THEN "" ELSE HTTPVerbs[verb])

\* MUTANT of VerbTools: --read-only is for the named commands.
VerbToolsAll(sel) == {VerbTool(sel, verb) : verb \in VerbsOf(sel) \ DOMAIN Cmds(sel)}

\* A command of the manifest with the name of a verb takes its place, even one that is
\* no tool itself.  Whether a call over JSON-RPC writes is not known beforehand.
VerbTools(sel) ==
    {VerbTool(sel, verb) :
        verb \in {v \in VerbsOf(sel) \ DOMAIN Cmds(sel) : ~(flags.readOnly /\ v # "get")}}

\* The first tool of a name is kept, in the order of the selectors; the tools of one have
\* different names.
BuildServer ==
    LET places == {n \in DOMAIN table.canonical : Allowed(table.canonical[n])}
        toolsAt(n) == NamedTools(table.canonical[n]) \cup VerbTools(table.canonical[n])
        offers == UNION {{[place |-> n, tool |-> t] : t \in toolsAt(n)} : n \in places}
        first(name) == CHOOSE o \in offers :
                          /\ o.tool.name = name
                          /\ \A p \in offers : p.tool.name = name => o.place <= p.place IN
    [name \in {o.tool.name : o \in offers} |-> first(name).tool]

-----------------------------------------------------------------------------
(* Startup.                                                                *)

NoCall == [pc |-> "idle", bearer |-> FALSE, tool |-> "", input |-> <<>>,
           sent |-> FALSE, outcome |-> "none"]

Init ==
    /\ setup \in DOMAIN Setups
    /\ pc = "start" /\ guard = "" /\ tools = <<>> /\ audit = <<>>
    /\ call = [c \in Clients |-> NoCall]

\* MUTANT of AuthToken: a token file that is empty falls through to the environment.
AuthTokenLenient ==
    IF flags.tokenFile = "good" THEN {"file"}
    ELSE IF flags.tokenFile = "missing" THEN {}
    ELSE {IF flags.tokenEnv THEN "env" ELSE ""}

\* ResolveAuthToken: the token, or none at all if the file that was asked for is no good.
AuthToken ==
    IF flags.tokenFile = "none" THEN {IF flags.tokenEnv THEN "env" ELSE ""}
    ELSE IF flags.tokenFile = "good" THEN {"file"} ELSE {}

\* isLoopbackAddr fails closed: every interface, a host name, an address without a port.
RequireAuth(token) == token # "" \/ flags.allowUnauthenticated \/ flags.http = "loopback"

\* The tests of cmdMCP, in their order; each is an error by usage.
Refuses ==
    \/ DOMAIN table.services = {}
    \/ ~(flags.services \subseteq DOMAIN table.services)
    \/ flags.http = "" /\ (flags.tokenFile # "none" \/ flags.allowUnauthenticated)
    \/ flags.http # "" /\ ~\E token \in AuthToken : RequireAuth(token)

Refuse ==
    /\ pc = "start" /\ Refuses
    /\ pc' = "refused"
    /\ UNCHANGED <<setup, guard, tools, call, audit>>

Start ==
    /\ pc = "start" /\ ~Refuses
    /\ IF flags.http = "" THEN guard' = "" /\ pc' = "serving"
                          ELSE guard' \in AuthToken /\ pc' = "listen"
    /\ tools' = BuildServer
    /\ UNCHANGED <<setup, call, audit>>

\* An address that cannot be bound, one without a port among them, ends ServeHTTP.
Listen ==
    /\ pc = "listen"
    /\ \/ flags.http # "malformed" /\ pc' = "serving"
       \/ pc' = "failed"
    /\ UNCHANGED <<setup, guard, tools, call, audit>>

\* A signal: nothing in the program handles it, and nothing cancels the context.
Kill ==
    /\ pc = "serving"
    /\ pc' = "killed"
    /\ UNCHANGED <<setup, guard, tools, call, audit>>

-----------------------------------------------------------------------------
(* Calls.                                                                  *)

Put(c, r) == call' = [call EXCEPT ![c] = r]
Answer(c, outcome) == Put(c, [call[c] EXCEPT !.pc = "answered", !.outcome = outcome])

\* What a call runs: the command of the manifest, or one made for the verb.
CmdOf(c) ==
    LET tool == tools[call[c].tool] IN
    IF tool.verb THEN Verb(Svc(tool.sel).transport, tool.id, call[c].input.word)
                 ELSE Cmds(tool.sel)[tool.id]

Unchanged == UNCHANGED <<setup, pc, guard, tools>>

\* bearerAuthMiddleware, then the SDK.  Clients know the tools by their names.
Ask(c) ==
    /\ pc = "serving" /\ call[c].pc = "idle"
    /\ \E bearer \in (IF guard = "" THEN {FALSE} ELSE BOOLEAN), input \in Inputs,
          name \in DOMAIN tools \cup {"unknown"} :
          Put(c, [pc |-> IF guard # "" /\ ~bearer THEN "unauthorized"
                         ELSE IF name = "unknown" THEN "unknown" ELSE "asked",
                  bearer |-> bearer, tool |-> name, input |-> input,
                  sent |-> FALSE, outcome |-> "none"])
    /\ Unchanged /\ UNCHANGED audit

\* unmarshalArgs and, for a verb, verbArgs and command.Verb: what is wrong with the input
\* is an error by usage, before anything runs.
BadInput(c) ==
    /\ pc = "serving" /\ call[c].pc = "asked"
    /\ LET tool == tools[call[c].tool] IN
       ~call[c].input.parses \/ (tool.verb /\ ~VerbOK(tool.id, call[c].input.word))
    /\ Answer(c, "usage")
    /\ Unchanged /\ UNCHANGED audit

Begin(c) ==
    /\ pc = "serving" /\ call[c].pc = "asked"
    /\ call[c].input.parses
    /\ LET tool == tools[call[c].tool] IN
       /\ tool.verb => VerbOK(tool.id, call[c].input.word)
       /\ Put(c, [call[c] EXCEPT !.pc = "running"])
    /\ Unchanged /\ UNCHANGED audit

\* maxArgIndex: how many arguments the schema of a tool has.  Headers are not counted,
\* nor are the fallbacks of a pipeline.
ArgTokens(q) == {t \in Elems(q.path) \cup Elems(q.query) \cup Elems(q.body) : t.kind = "arg"}
ArgCount(cmd) ==
    LET tokens == ArgTokens(cmd) \cup {t \in Elems(cmd.params) : t.kind = "arg"}
                  \cup UNION {ArgTokens(cmd.steps[k]) : k \in DOMAIN cmd.steps} IN
    IF tokens = {} THEN 0 ELSE 1 + Max({t.n : t \in tokens})

\* handleCall passes an argument, if an empty one, for each the schema has.
TemplatesExpand(cmd) == \A t \in cmd.headers : t.kind = "arg" => t.n < ArgCount(cmd)

\* The request leaves, and may or may not be answered.
Send(c) ==
    /\ pc = "serving" /\ call[c].pc = "running" /\ ~call[c].sent
    /\ ~call[c].input.dryRun
    /\ TemplatesExpand(CmdOf(c))
    /\ Put(c, [call[c] EXCEPT !.sent = TRUE])
    /\ Unchanged /\ UNCHANGED audit

\* MUTANT of Executed: a result that does not render is answered at once.
ExecutedEarly(c) ==
    /\ pc = "serving" /\ call[c].pc = "running"
    /\ \/ Put(c, [call[c] EXCEPT !.pc = "executed", !.outcome = "error"])
       \/ /\ call[c].sent
          /\ \/ Put(c, [call[c] EXCEPT !.pc = "executed", !.outcome = "ok"])
             \/ Answer(c, "error")
       \/ /\ call[c].input.dryRun
          /\ Put(c, [call[c] EXCEPT !.pc = "executed", !.outcome = "dry-run"])
    /\ Unchanged /\ UNCHANGED audit

\* engine.Execute has returned and, unless it failed, its result is rendered.
Executed(c) ==
    /\ pc = "serving" /\ call[c].pc = "running"
    /\ \E outcome \in {"error"} \cup (IF call[c].sent THEN {"ok"} ELSE {})
                      \cup (IF call[c].input.dryRun THEN {"dry-run"} ELSE {}) :
          Put(c, [call[c] EXCEPT !.pc = "executed", !.outcome = outcome])
    /\ Unchanged /\ UNCHANGED audit

\* auditMutation, one line in one write.  The record names the command, and has the
\* empty method and parameters of a verb as they are.
Audit(c) ==
    /\ pc = "serving" /\ call[c].pc = "executed"
    /\ Put(c, [call[c] EXCEPT !.pc = "audited"])
    /\ audit' = IF CmdOf(c).write
                THEN Append(audit, [client |-> c, sel |-> tools[call[c].tool].sel,
                                    method |-> CmdOf(c).method, outcome |-> call[c].outcome])
                ELSE audit
    /\ Unchanged

\* A read has its result in structured form too.
Reply(c) ==
    /\ pc = "serving" /\ call[c].pc = "audited"
    /\ Answer(c, call[c].outcome)
    /\ Unchanged /\ UNCHANGED audit

Handle(c) == BadInput(c) \/ Begin(c) \/ Send(c) \/ Executed(c) \/ Audit(c) \/ Reply(c)

Next == Refuse \/ Start \/ Listen \/ Kill \/ \E c \in Clients : Ask(c) \/ Handle(c)

Spec == Init /\ [][Next]_vars

-----------------------------------------------------------------------------
(* Properties.                                                             *)

TypeOK ==
    /\ setup \in DOMAIN Setups
    /\ pc \in {"start", "listen", "serving", "refused", "failed", "killed"}
    /\ guard \in {"", "file", "env"}
    /\ \A name \in DOMAIN tools : tools[name].name = name
    /\ \A c \in Clients :
          /\ call[c].pc \in {"idle", "unauthorized", "unknown", "asked", "running", "executed", "audited", "answered"}
          /\ call[c].outcome \in {"none", "usage", "ok", "error", "dry-run"}
    /\ \A n \in DOMAIN audit : audit[n].client \in Clients

\* A tool that presents itself as read-only, and any tool of a read-only server, runs no
\* command that is marked as a write and sends no request that mutates, whatever a client
\* passes, also where the names of two services meet in one tool.  Of a composed command
\* only the mark is claimed: it has no method of its own and counts as a read, and the
\* methods of its steps, which may write, are not looked at (BuildServer and
\* registerVerbTools with Hints; docs/PRD.md, L4).
ReadOnlyToolsOnlyRead ==
    \A c \in Clients : call[c].sent =>
        LET tool == tools[call[c].tool] IN
        flags.readOnly \/ tool.hints.readOnly =>
            ~CmdOf(c).write /\ (CmdOf(c).steps = <<>> =>
                                     ~IsWrite(Svc(tool.sel).transport, CmdOf(c).method))

\* A client that has its answer to a write has left exactly one audit record, of that
\* service, method and outcome, however the calls of several clients interleave; a call
\* that reached no engine, and a read, has left none (executeAndRender).
AnsweredWritesAreAudited ==
    \A c \in Clients :
        LET mine == {n \in DOMAIN audit : audit[n].client = c} IN
        /\ Cardinality(mine) <= 1
        /\ mine # {} => call[c].outcome \in {"ok", "error", "dry-run"} /\ CmdOf(c).write
        /\ call[c].pc = "answered" /\ call[c].outcome # "usage" /\ CmdOf(c).write =>
              \E n \in mine : /\ audit[n].outcome = call[c].outcome
                              /\ audit[n].method = CmdOf(c).method
                              /\ audit[n].sel = tools[call[c].tool].sel

\* Nothing runs for a caller without the token once one was asked for, and a listener
\* beyond the loopback has one unless the operator said otherwise, whatever is wrong with
\* the token file (resolveHTTPAuth and bearerAuthMiddleware, both failing closed).
NothingRunsUnguarded ==
    \A c \in Clients : call[c].pc \in {"asked", "running", "executed", "audited"} =>
        /\ flags.tokenFile # "none" => guard = "file" /\ call[c].bearer
        /\ flags.http \notin {"", "loopback"} => call[c].bearer \/ flags.allowUnauthenticated
=============================================================================
