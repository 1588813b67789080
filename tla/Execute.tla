------------------------------ MODULE Execute -------------------------------
(***************************************************************************)
(* One invocation, from the command line or an MCP call to its exit class: *)
(* the lookup of the command (internal/cli/cli.go), engine.Execute and its *)
(* transports, the resolution of every template and secret on the way      *)
(* (internal/template, internal/secret, internal/auth), rendering, and the *)
(* classification of what went wrong (internal/agentsafety/exit.go).       *)
(*                                                                         *)
(* A request is built by working off an agenda: the tokens of its          *)
(* templates in the order in which the code expands them, each with the    *)
(* stage it belongs to.  The guards of pipeline steps are in Pipeline.tla, *)
(* the pages of a listing in Pagination.tla and the OAuth2 tokens in       *)
(* TokenCache.tla; here a step always runs, and a page or a token arrives  *)
(* or does not.                                                            *)
(***************************************************************************)
EXTENDS Manifest, JsonRpcWs

CONSTANTS
    Calls,    \* bound: the invocations, by service, words, flags and environment
    MaxPages  \* bound: pages of one listing

\* The types of what the engine is handed (cli.go, profile.go, command.go).
IsInvocation(c) ==
    /\ IsManifest(c.manifest)
    /\ \A name \in DOMAIN c.profile : IsBinding(c.profile[name])
    /\ c.args \in [path : Templates, query : Templates, extra : Templates, method : STRING]
    /\ c.urlOverride \in Templates /\ c.dryRun \in BOOLEAN

ASSUME MaxPagesAssumption == MaxPages \in Nat \ {0}
ASSUME CallsAssumption == \A c \in Calls : IsInvocation(c)

VARIABLES
    call,     \* the invocation
    cmd,      \* the command found or made for it
    pc,       \* "lookup", "begin", "build", "page", "auth", "send", "ws", "reply", "done"
    step,     \* 0 for a plain command, else the step of a pipeline
    role,     \* "main", or "fallback" for the on_error of a step
    agenda,   \* the tokens still to expand
    cache,    \* the secrets the resolver holds, one resolver for the whole invocation
    fetches,  \* history: how often a provider has delivered each secret
    pages,    \* pages received of a listing
    found,    \* the variables that the steps of a pipeline have extracted so far
    sent,     \* history: HTTP requests sent
    failed,   \* history: how the last request sent went wrong, "none" if it did not
    cause,    \* what ended the invocation, "none" so far
    class     \* the exit class of the command line or of the MCP result, "none" so far

eVars == <<call, cmd, pc, step, role, agenda, cache, fetches, pages, found, sent, failed,
           cause, class>>
vars == <<eVars, wsVars>>
place == <<call, cmd, step, role>>
progress == <<fetches, pages, found, sent, failed>>

\* The service as it was loaded: its manifest and what the profile binds.
svc == Finalize(call.manifest, call.profile)

-----------------------------------------------------------------------------
(* The request at hand and its templates.                                  *)

Target(name) ==
    IF name = "" THEN [base |-> svc.base, auth |-> <<>>] ELSE svc.endpoints[name]

\* resolveEndpoint: --endpoint, else the command's own, else the default base.
EndpointName == IF call.endpoint # "" THEN call.endpoint ELSE cmd.endpoint

RequestOf(k, r) ==
    IF k = 0 THEN cmd ELSE IF r = "main" THEN cmd.steps[k] ELSE cmd.steps[k].onError[1]
TargetOf(k, r) == Target(IF k = 0 THEN EndpointName ELSE RequestOf(k, r).endpoint)
AuthOf(k, r) == LET ep == TargetOf(k, r) IN IF ep.auth = <<>> THEN svc.auth ELSE ep.auth[1]

\* <PREFIX>_URL stands for the default base as a whole; the steps of a pipeline are
\* given an environment in which nothing is set.
Base(k, r) ==
    LET base == TargetOf(k, r).base IN
    IF k = 0 /\ base = svc.base /\ call.urlOverride # <<>> THEN call.urlOverride ELSE base

IsWs(k) == k = 0 /\ svc.transport = "jsonrpc-ws"

\* MUTANT of CredentialOf: basic expands the user name only.
CredentialOfUser(a) ==
    CASE a.strategy \in {"header-key", "bearer"} -> a.value
      [] a.strategy = "basic" -> a.username
      [] a.strategy = "oauth2-client-credentials" -> a.value \o a.username \o a.password
      [] OTHER -> <<>>

\* The templates a strategy expands.  ws-login has none of its own: the login frame
\* carries the params.
CredentialOf(a) ==
    CASE a.strategy \in {"header-key", "bearer"} -> a.value
      [] a.strategy = "basic" -> a.username \o a.password
      [] a.strategy = "oauth2-client-credentials" -> a.value \o a.username \o a.password
      [] OTHER -> <<>>

At(stage, tmpl) == [n \in DOMAIN tmpl |-> [stage |-> stage, token |-> tmpl[n]]]

\* The values of a map come in any order.
Orders(S) == {f \in [1 .. Cardinality(S) -> S] : Elems(f) = S}

\* MUTANT of Agendas: a dry run returns after the headers and the body.
AgendasOfAll(k, r) ==
    LET q == RequestOf(k, r)
        base == At("base", Base(k, r)) IN
    IF IsWs(k)
    THEN {base \o (IF q.noauth THEN <<>> ELSE At("login", AuthOf(k, r).params))
               \o At("params", q.params)}
    ELSE {base \o At("path", q.path) \o At("query", q.query) \o At("header", h)
               \o At("body", q.body) : h \in Orders(q.headers)}

\* executeHTTP, executeJSONRPCWS and runStep: what is expanded before the request
\* is made.  A dry run returns before the headers, the body and the credentials.
Agendas(k, r) ==
    LET q == RequestOf(k, r)
        base == At("base", Base(k, r)) IN
    IF IsWs(k)
    THEN {IF call.dryRun THEN base
          ELSE base \o (IF q.noauth THEN <<>> ELSE At("login", AuthOf(k, r).params))
                    \o At("params", q.params)}
    ELSE LET url == base \o At("path", q.path) \o At("query", q.query) IN
         IF call.dryRun THEN {url}
         ELSE {url \o At("header", h) \o At("body", q.body) : h \in Orders(q.headers)}

\* The templates of an auth block that end up in a request.
Carried(a) ==
    CASE a.strategy \in {"header-key", "bearer"} -> {a.value}
      [] a.strategy = "basic" -> {a.username, a.password}
      [] a.strategy = "oauth2-client-credentials" -> {a.value, a.username, a.password}
      [] OTHER -> {}

\* Everything the request at hand has to have resolved when it leaves.
Needs ==
    LET q == RequestOf(step, role)
        a == AuthOf(step, role)
        unauthenticated == step = 0 /\ cmd.noauth IN
    SecretRefs(Base(step, role)) \cup
    (IF IsWs(step)
     THEN SecretRefs(q.params) \cup IF unauthenticated THEN {} ELSE SecretRefs(a.params)
     ELSE SecretRefs(q.path) \cup SecretRefs(q.query) \cup SecretRefs(q.body)
          \cup {t.name : t \in {u \in q.headers : u.kind = "secret"}}
          \cup IF unauthenticated THEN {} ELSE UNION {SecretRefs(t) : t \in Carried(a)})

-----------------------------------------------------------------------------
(* How an invocation ends.                                                 *)

\* MUTANT of Classify: a JSON-RPC error has no class of its own.
ClassifyWithoutRpc(c) ==
    CASE c \in {"usage", "incomplete", "config"} -> "usage"
      [] c \in {"provider", "credential", "refused"} -> "auth"
      [] c = "status" -> "http"
      [] c = "network" -> "network"
      [] c = "render" /\ call.face = "cli" -> "decode"
      [] OTHER -> "error"

\* Classify, after the wrapping on the way: an error while a credential is applied is
\* an authentication error unless it has a configuration error inside.
Classify(c) ==
    CASE c \in {"usage", "incomplete", "config"} -> "usage"
      [] c \in {"provider", "credential", "refused"} -> "auth"
      [] c \in {"status", "rpc"} -> "http"
      [] c = "network" -> "network"
      [] c = "render" /\ call.face = "cli" -> "decode"
      [] OTHER -> "error"

\* Run tells the errors of the command-line parser by words in their text, and the text
\* of an answer with a status, and of a login that was refused, has the words of the server.
Reported(c) ==
    IF call.face = "cli" /\ c \in {"status", "rpc", "refused"} /\ call.serverSays = "unknown command"
    THEN "usage" ELSE Classify(c)

Finish(c) ==
    /\ pc' = "done" /\ agenda' = <<>>
    /\ cause' = c /\ class' = IF c = "none" THEN "ok" ELSE Reported(c)
    /\ UNCHANGED place

Go(k, r) ==
    /\ step' = k /\ role' = r /\ pc' = "build"
    /\ agenda' \in Agendas(k, r)
    /\ UNCHANGED <<call, cmd, cause, class>>

Replied ==
    /\ pc' = "reply" /\ agenda' = <<>>
    /\ UNCHANGED <<place, cause, class>>

Advance == IF step # 0 /\ step < Len(cmd.steps) THEN Go(step + 1, "main") ELSE Replied

\* A failed step runs its on_error, and a failed on_error is passed over.
Fail(c) ==
    CASE role = "fallback" -> Advance
      [] step # 0 /\ role = "main" /\ cmd.steps[step].onError # <<>> -> Go(step, "fallback")
      [] OTHER -> Finish(c)

-----------------------------------------------------------------------------
(* The command and the service.                                            *)

Init ==
    /\ call \in {c \in Calls : Valid(c.manifest)}   \* a service that does not load runs nothing
    /\ cmd = BlankCommand
    /\ pc = "lookup" /\ step = 0 /\ role = "main" /\ agenda = <<>>
    /\ cache = {} /\ fetches = [x \in DOMAIN svc.secrets |-> 0]
    /\ pages = 0 /\ found = {} /\ sent = 0 /\ failed = "none" /\ cause = "none" /\ class = "none"
    /\ WsInit

\* A named command of the service, else a generic verb; call only over JSON-RPC.
Lookup ==
    /\ pc = "lookup"
    /\ LET named == FromManifest(svc)
           verb == call.word \in DOMAIN HTTPVerbs
                   \/ (call.word = "call" /\ svc.transport = "jsonrpc-ws")
           usable == verb /\ VerbOK(call.word, call.args) IN
       \/ /\ call.known /\ call.word \in DOMAIN named
          /\ cmd' = named[call.word] /\ pc' = "begin"
          /\ UNCHANGED <<call, step, role, agenda, cause, class>>
       \/ /\ call.known /\ call.word \notin DOMAIN named /\ usable
          /\ cmd' = Verb(svc.transport, call.word, call.args) /\ pc' = "begin"
          /\ UNCHANGED <<call, step, role, agenda, cause, class>>
       \/ /\ ~call.known \/ (call.word \notin DOMAIN named /\ ~usable)
          /\ Finish("usage")
    /\ UNCHANGED <<cache, progress, wsVars>>

\* Execute up to the dispatch on the transport.
Begin ==
    /\ pc = "begin"
    /\ \/ ~Complete(svc) /\ Finish("incomplete")
       \/ /\ Complete(svc)
          /\ EndpointName # "" /\ EndpointName \notin DOMAIN svc.endpoints
          /\ Finish("endpoint")
       \/ /\ Complete(svc)
          /\ EndpointName = "" \/ EndpointName \in DOMAIN svc.endpoints
          /\ CASE cmd.steps # <<>> /\ call.dryRun -> Finish("none")
               [] cmd.steps # <<>> /\ ~call.dryRun -> Go(1, "main")
               [] cmd.steps = <<>> /\ svc.transport \in Transports -> Go(0, "main")
               [] OTHER -> Finish("transport")
    /\ UNCHANGED <<cache, progress, wsVars>>

-----------------------------------------------------------------------------
(* Expanding one token.                                                    *)

Expanding == pc \in {"build", "auth"} /\ agenda # <<>>
token == Head(agenda).token
Expanded ==
    /\ agenda' = Tail(agenda)
    /\ UNCHANGED <<place, pc, cause, class>>

\* Any failure while the credential is applied is one of the credential, but for a
\* mistake in the configuration.
ExpandFails(c) == Fail(IF pc = "auth" /\ c # "config" THEN "credential" ELSE c)

\* The variables of the service and, in a pipeline, what its steps have found by now;
\* env is the map of the former.
Bound == svc.vars \cup IF step = 0 THEN {} ELSE found \cup {"env"}

Expand ==
    /\ Expanding /\ token.kind # "secret"
    /\ CASE token.kind = "arg" /\ token.n >= call.nargs -> ExpandFails("template")
         [] token.kind = "name" /\ token.name \notin Bound -> ExpandFails("template")
         [] token.kind = "file" -> Expanded \/ ExpandFails("template")
         [] OTHER -> Expanded
    /\ UNCHANGED <<cache, progress, wsVars>>

\* lookupEnv: the variable the slot names, then <PREFIX>_<NAME>.
InEnv(x) ==
    LET named == svc.secrets[x].env # "" IN
    /\ call.envOverride \/ named
    /\ (named /\ svc.secrets[x].env \in call.env) \/ x \in call.prefixed

SecretCached ==
    /\ Expanding /\ token.kind = "secret"
    /\ token.name \in cache
    /\ Expanded
    /\ UNCHANGED <<cache, progress, wsVars>>

SecretUndeclared ==
    /\ Expanding /\ token.kind = "secret"
    /\ token.name \notin cache \cup DOMAIN svc.secrets
    /\ ExpandFails("config")
    /\ UNCHANGED <<cache, progress, wsVars>>

SecretFromEnv ==
    /\ Expanding /\ token.kind = "secret"
    /\ token.name \in DOMAIN svc.secrets \ cache
    /\ InEnv(token.name)
    /\ Expanded
    /\ cache' = cache \cup {token.name}
    /\ UNCHANGED <<progress, wsVars>>

\* resolveTemplatedRead over the candidates of a reference: the first value that is not
\* empty, else the last error, else empty.
Read(outs) ==
    IF "value" \in Elems(outs) THEN "value"
    ELSE LET errs == {n \in DOMAIN outs : outs[n] # "empty"} IN
         IF errs = {} THEN "empty"
         ELSE outs[CHOOSE n \in errs : \A k \in errs : k <= n]

\* What the provider of a reference may say.  The item idioms are 1Password's own.
Resolutions(spec) ==
    IF spec.idiom \in {"item-get", "item-json"}
    THEN IF call.provider = "onepassword" THEN {"value", "empty", "provider"} ELSE {"config"}
    ELSE IF call.provider = "file" THEN {"value", "empty", "provider"}
    ELSE {Read(outs) : outs \in [1 .. IF spec.fields = 0 THEN 1 ELSE spec.fields ->
                                 {"value", "empty", "provider"}]}

\* MUTANT of SecretFromProvider: the result is cached before it is looked at.
CacheFirst ==
    /\ Expanding /\ token.kind = "secret"
    /\ token.name \in DOMAIN svc.secrets \ cache
    /\ ~InEnv(token.name)
    /\ cache' = cache \cup {token.name}
    /\ \E res \in Resolutions(svc.secrets[token.name]) :
          IF res = "value"
          THEN Expanded /\ fetches' = [fetches EXCEPT ![token.name] = @ + 1]
          ELSE ExpandFails("provider") /\ UNCHANGED fetches
    /\ UNCHANGED <<pages, found, sent, failed, wsVars>>

\* The only scheme a configuration can have a provider for is op.
SecretFromProvider ==
    /\ Expanding /\ token.kind = "secret"
    /\ token.name \in DOMAIN svc.secrets \ cache
    /\ ~InEnv(token.name)
    /\ LET spec == svc.secrets[token.name] IN
       \/ spec.ref # "op" /\ ExpandFails("config") /\ UNCHANGED <<cache, fetches>>
       \/ /\ spec.ref = "op"
          /\ \E res \in Resolutions(spec) :
                IF res = "value"
                THEN /\ Expanded
                     /\ cache' = cache \cup {token.name}
                     /\ fetches' = [fetches EXCEPT ![token.name] = @ + 1]
                ELSE /\ ExpandFails(IF res = "config" THEN "config" ELSE "provider")
                     /\ UNCHANGED <<cache, fetches>>
    /\ UNCHANGED <<pages, found, sent, failed, wsVars>>

-----------------------------------------------------------------------------
(* Sending.                                                                *)

Built == pc = "build" /\ agenda = <<>>

Preview ==
    /\ Built /\ call.dryRun
    /\ Finish("none")
    /\ UNCHANGED <<cache, progress, wsVars>>

Enter(state) == pc' = state /\ agenda' = <<>> /\ UNCHANGED <<place, cause, class>>

StartHTTP ==
    /\ Built /\ ~call.dryRun /\ ~IsWs(step)
    /\ Enter("page")
    /\ UNCHANGED <<cache, progress, wsVars>>

StartWs ==
    /\ Built /\ ~call.dryRun /\ IsWs(step)
    /\ Enter("ws")
    /\ wpc' = "dial" /\ login' = ~cmd.noauth
    /\ UNCHANGED <<phase, expired, inbox, got, answered, wres, result>>
    /\ UNCHANGED <<cache, progress>>

\* DoHTTPWithHeaders, for every page: the URL is parsed, then the credential applied.
StartPage ==
    /\ pc = "page"
    /\ \/ Fail("malformed")
       \/ /\ pc' = "auth"
          /\ agenda' = IF step = 0 /\ cmd.noauth THEN <<>>
                       ELSE At("auth", CredentialOf(AuthOf(step, role)))
          /\ UNCHANGED <<place, cause, class>>
    /\ UNCHANGED <<cache, progress, wsVars>>

\* Two strategies are accepted and not implemented; a token may not be had.
Apply ==
    /\ pc = "auth" /\ agenda = <<>>
    /\ LET strategy == IF step = 0 /\ cmd.noauth THEN "none" ELSE AuthOf(step, role).strategy IN
       \/ strategy \notin {"login-flow", "external-tool"} /\ Enter("send")
       \/ strategy \in {"login-flow", "external-tool", "oauth2-client-credentials"}
          /\ Fail("credential")
    /\ UNCHANGED <<cache, progress, wsVars>>

Paginated == step = 0 /\ cmd.pagination \in {"cursor", "page-number", "page-until-short"}

\* What a step takes from an answer: all of it or, when an expression fails, some of what
\* the others yield, in the order of a Go map.
Taken == IF step = 0 THEN {} ELSE RequestOf(step, role).extract \cup RequestOf(step, role).capture
TakenInPart ==
    IF step = 0 THEN {{}}
    ELSE LET all == RequestOf(step, role).extract IN (SUBSET all \ {all}) \cup {{}}

\* An answer whose items cannot be found, or one that a step cannot decode or take apart,
\* ends the request without a class of its own.
SendOK ==
    /\ pc = "send"
    /\ sent' = sent + 1 /\ failed' = "none"
    /\ pages' = IF Paginated THEN pages + 1 ELSE pages
    /\ \/ Paginated /\ pages' < MaxPages /\ Enter("page") /\ UNCHANGED found
       \/ /\ Paginated \/ step # 0
          /\ Fail("answer")
          /\ \E part \in TakenInPart : found' = found \cup part
       \/ Advance /\ found' = found \cup Taken
    /\ UNCHANGED <<cache, fetches, wsVars>>

SendFails ==
    /\ pc = "send"
    /\ \E c \in {"status", "network"} : sent' = sent + 1 /\ failed' = c /\ Fail(c)
    /\ UNCHANGED <<cache, fetches, pages, found, wsVars>>

WsStep ==
    /\ pc = "ws" /\ Client
    /\ UNCHANGED eVars

WsEnds ==
    /\ pc = "ws" /\ wpc = "closed"
    /\ IF wres = "ok" THEN Replied ELSE Finish(wres)
    /\ UNCHANGED <<cache, progress, wsVars>>

\* output.Render, or the structured result of an MCP call.  --raw writes what came; the
\* filter of a pipeline runs before, without a class of its own.
Render ==
    /\ pc = "reply"
    /\ \/ Finish("none")
       \/ ~call.raw /\ Finish("render")
       \/ step # 0 /\ Finish("filter")
    /\ UNCHANGED <<cache, progress, wsVars>>

-----------------------------------------------------------------------------
Proceed ==
    \/ Lookup \/ Begin
    \/ Expand \/ SecretCached \/ SecretUndeclared \/ SecretFromEnv \/ SecretFromProvider
    \/ Preview \/ StartHTTP \/ StartWs \/ StartPage \/ Apply \/ SendOK \/ SendFails
    \/ WsEnds \/ Render

ServerStep == pc = "ws" /\ Server /\ UNCHANGED eVars
Time == pc = "ws" /\ Expire /\ UNCHANGED eVars

Next == Proceed \/ WsStep \/ ServerStep \/ Time

\* Where an invocation is in the hands of another program without a timeout: the server
\* that has to answer a handshake (websocket.Dial has a context without a deadline), and
\* the program of a secrets provider.
Waiting ==
    \/ pc = "ws" /\ wpc = "dial"
    \/ /\ Expanding /\ token.kind = "secret"
       /\ token.name \in DOMAIN svc.secrets \ cache
       /\ ~InEnv(token.name) /\ svc.secrets[token.name].ref = "op"

\* The process runs, HTTP requests and the reads and writes of a WebSocket are answered or
\* time out, and time passes; a server that is dialled and a provider owe nothing.
Spec == Init /\ [][Next]_vars
        /\ WF_vars(~Waiting /\ Proceed) /\ WF_vars(~Waiting /\ WsStep) /\ WF_vars(Time)

-----------------------------------------------------------------------------
(* Properties.                                                             *)

TypeOK ==
    /\ call \in Calls
    /\ pc \in {"lookup", "begin", "build", "page", "auth", "send", "ws", "reply", "done"}
    /\ step \in Nat /\ role \in {"main", "fallback"}
    /\ fetches \in [DOMAIN svc.secrets -> Nat]
    /\ cache \subseteq DOMAIN svc.secrets
    /\ pages \in 0 .. MaxPages /\ found \subseteq STRING /\ sent \in Nat
    /\ failed \in {"none", "status", "network"}
    /\ class \in {"none", "ok", "usage", "auth", "http", "network", "decode", "error"}
    /\ WsTypeOK

\* A provider delivers a secret at most once in an invocation, however many pages, steps
\* and fallbacks use it, and the resolver holds exactly what was delivered or stood in
\* the environment: a secret that failed is asked for again and never kept as empty
\* (Resolver.Secret, lines 64-103, and the one resolver of executePipeline).
SecretsAreFetchedOnce ==
    \A x \in DOMAIN svc.secrets :
        /\ fetches[x] <= 1
        /\ fetches[x] = 1 => x \in cache
        /\ x \in cache => fetches[x] = 1 \/ InEnv(x)

\* Nothing is sent and nothing dialled before every secret it carries is resolved: the
\* stages of executeHTTP, executeJSONRPCWS and runStep leave none out.
NothingLeavesUnresolved == pc \in {"send", "ws"} => Needs \subseteq cache

\* The exit class tells what happened on the wire: http only for an answer with a status
\* or an RPC error, network only for a request that got no answer; and of a plain command
\* an error by usage has sent nothing, so that it may be repeated once it is corrected, and
\* a success has (Classify, exit.go:41-79, over the wrapping of every layer).  Composed
\* commands have the first two only: their earlier steps may have sent whatever class the
\* last one ends in.  Left out are servers that say "unknown command": the words of an
\* answer turn its class into usage (cli.go:390).
ExitClassTellsWhatHappened ==
    pc = "done" /\ call.serverSays # "unknown command" =>
        /\ class = "http" => failed = "status" \/ answered[2] = "error"
        /\ class = "network" => failed = "network" \/ wres = "network"
        /\ cmd.steps = <<>> =>
              /\ class = "usage" => sent = 0 /\ got = {}
              /\ failed = "status" \/ wres = "rpc" => class = "http"
              /\ failed = "network" \/ wres = "network" => class = "network"
              /\ wres = "refused" => class = "auth"
              /\ class = "ok" => call.dryRun \/ sent > 0 \/ wres = "ok"

\* A dry run sends nothing, logs in nowhere, and resolves no secret of a header, a body,
\* the params or the credential (executeHTTP, lines 191-197; executeJSONRPCWS, 262-277).
DryRunStaysHome ==
    call.dryRun =>
        /\ sent = 0 /\ got = {} /\ wpc = "idle"
        /\ pc = "done" /\ cache # {} =>
              cmd.steps = <<>> /\ cache \subseteq SecretRefs(Base(0, "main"))
                                      \cup SecretRefs(cmd.path) \cup SecretRefs(cmd.query)

\* Of a service that Validate accepts the engine knows the transport, finds the endpoint of
\* every plain command that names one, and finds every secret in the auth block of the
\* service declared (validate.go against the default branches of Execute, Apply and
\* resolveEndpoint).  That is all that Validate settles: the endpoint of a composed command,
\* the auth block of an endpoint, and the secrets that paths, queries, headers, bodies and
\* params name, are not looked at, and fail at run time.
LintedServicesDoNotMisfire ==
    /\ cause # "transport"
    /\ cause = "endpoint" => call.endpoint # "" \/ cmd.steps # <<>>
    /\ Expanding /\ token.kind = "secret" /\ Head(agenda).stage \in {"auth", "login"}
          /\ TargetOf(step, role).auth = <<>> => token.name \in DOMAIN svc.secrets

\* A call over a WebSocket logs in before it sends its method, and returns the server's
\* answer to it: both inherited from JsonRpcWs, under every command and credential.
LoginThenAnswer == MethodOnlyAfterLogin /\ AnswerIsTheMethods

\* An invocation ends, or waits for ever for the one handshake of its WebSocket or for a
\* secrets provider: once connected, a server that keeps pushing frames cannot hold it,
\* because the read loop has a deadline (readResponse, lines 207-209).
InvocationEnds == <>(pc = "done") \/ <>[]Waiting

-----------------------------------------------------------------------------
(* What documents and comments say, and the code does not.                 *)

\* "Builds the request with no network and no secret resolution" (docs/PRD.md).
DryRunResolvesNothing == call.dryRun => cache = {}

=============================================================================
