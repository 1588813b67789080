------------------------------ MODULE Manifest ------------------------------
(***************************************************************************)
(* What a service is before anything runs: the structural check of a       *)
(* manifest (internal/manifest/validate.go), what a profile adds to it     *)
(* (profile.go, load.go), when the result is complete, and the commands    *)
(* it yields (internal/command).  Operators only; Execute.tla runs them.   *)
(*                                                                         *)
(* A template is the sequence of its tokens (internal/template), headers   *)
(* are the set of theirs; a name, a reference or a method is a string, ""  *)
(* where the source has the empty string.  A reference is represented by   *)
(* its URI scheme, "bare" when it has none, a jq expression by whether it  *)
(* parses, a list of field candidates by its length.                       *)
(***************************************************************************)
EXTENDS Naturals, Sequences, FiniteSets

Token(kind, name, n) == [kind |-> kind, name |-> name, n |-> n]
Lit       == Token("lit", "", 0)
Secret(x) == Token("secret", x, 0)    \* {secret.x}
EnvVar(x) == Token("env", x, 0)       \* {env.x}
File      == Token("file", "", 0)     \* @file, or the body_transform of a step
Arg(n)    == Token("arg", "", n)      \* {arg.n} and {argn}
Name(x)   == Token("name", x, 0)      \* {x}: a variable of the service or of a pipeline

Elems(seq) == {seq[k] : k \in DOMAIN seq}
SecretRefs(tmpl) == {t.name : t \in {u \in Elems(tmpl) : u.kind = "secret"}}

-----------------------------------------------------------------------------
(* The types (types.go, profile.go), in the fields that the modules use.   *)
(* Maps have string keys; an on_error of an on_error never runs, and is    *)
(* left out.                                                               *)

Tokens == [kind : STRING, name : STRING, n : Nat]
Templates == Seq(Tokens)
HeaderSets == {h \in SUBSET Tokens : IsFiniteSet(h)}

AuthBlocks == [strategy : STRING, header : STRING, value : Templates, username : Templates,
               password : Templates, params : Templates]
Slots == [ref : STRING, env : STRING, idiom : STRING, fields : Nat]
Endpoints == [base : Templates, auth : Seq(AuthBlocks)]

StepsWith(handlers) ==
    [endpoint : STRING, path : Templates, query : Templates, headers : HeaderSets,
     body : Templates, jqParses : BOOLEAN, onError : handlers,
     extract : SUBSET STRING, capture : SUBSET STRING]
Steps == StepsWith(Seq(StepsWith({<<>>})))

CommandFields ==
    {"method", "path", "query", "headers", "body", "params", "paramsIsArray", "noauth",
     "endpoint", "pagination", "steps", "view", "sortDir", "output", "mcpIgnore", "write"}

IsCommand(c) ==
    /\ DOMAIN c = CommandFields
    /\ c.path \in Templates /\ c.query \in Templates
    /\ c.body \in Templates /\ c.params \in Templates
    /\ c.headers \in HeaderSets /\ c.steps \in Seq(Steps)
    /\ {c.paramsIsArray, c.noauth, c.mcpIgnore, c.write} \subseteq BOOLEAN

ManifestFields ==
    {"name", "transport", "base", "auth", "secrets", "endpoints", "vars", "output", "pagination",
     "spec", "include", "exclude", "unknownKeys", "commands"}

IsManifest(s) ==
    /\ DOMAIN s = ManifestFields
    /\ s.base \in Templates /\ s.auth \in AuthBlocks
    /\ {s.name, s.transport, s.output, s.pagination, s.spec} \subseteq STRING
    /\ \A e \in DOMAIN s.endpoints : s.endpoints[e] \in Endpoints
    /\ \A x \in DOMAIN s.secrets : s.secrets[x] \in Slots
    /\ \A id \in DOMAIN s.commands : IsCommand(s.commands[id])

IsBinding(b) ==
    /\ b.base \in Templates
    /\ \A e \in DOMAIN b.endpoints : b.endpoints[e] \in Templates

-----------------------------------------------------------------------------
(* Validate: the structure of a manifest as it was written.                *)

Transports == {"http", "jsonrpc-ws"}
Strategies == {"", "none", "header-key", "bearer", "basic", "oauth2-client-credentials",
               "ws-login", "login-flow", "external-tool"}
OutputModes == {"", "json", "raw", "scalar", "table"}
PaginationStyles == {"", "none", "cursor", "page-number", "page-until-short", "fixed-query"}
Views == {"", "table", "record", "tree"}
SortDirs == {"", "asc", "desc"}
Idioms == {"", "read", "item-get", "item-json"}

TransportOf(t) == IF t = "" THEN "http" ELSE t

\* The endpoints and the credentials of a user never stand in a manifest.
NoBinding(s) ==
    /\ s.base = <<>>
    /\ \A e \in DOMAIN s.endpoints : s.endpoints[e].base = <<>>
    /\ \A x \in DOMAIN s.secrets : s.secrets[x].ref = ""

SpecOK(s) ==
    IF s.spec = "" THEN s.include \cup s.exclude = {}
                   ELSE s.spec # "blank" /\ "blank" \notin s.include \cup s.exclude

\* The fields of an auth block that are templates, as Apply and the login use them.
AuthTemplates(a) == {a.value, a.username, a.password, a.params}

\* MUTANT of AuthOK: the secrets of the templates are not looked up.
AuthShapeOK(a, secrets) ==
    /\ a.strategy \in Strategies
    /\ a.strategy = "header-key" => a.header # "" /\ a.value # <<>>
    /\ a.strategy = "bearer" => a.value # <<>>
    /\ a.strategy = "basic" => a.username # <<>> /\ a.password # <<>>

AuthOK(a, secrets) ==
    /\ a.strategy \in Strategies
    /\ a.strategy = "header-key" => a.header # "" /\ a.value # <<>>
    /\ a.strategy = "bearer" => a.value # <<>>
    /\ a.strategy = "basic" => a.username # <<>> /\ a.password # <<>>
    /\ a.strategy = "oauth2-client-credentials" =>
          a.value # <<>> /\ a.username # <<>> /\ a.password # <<>>
    /\ UNION {SecretRefs(t) : t \in AuthTemplates(a)} \subseteq DOMAIN secrets

\* A step and its on_error step: an endpoint that exists, a target, and jq that parses.
StepOK(st, s) ==
    /\ st.endpoint = "" \/ st.endpoint \in DOMAIN s.endpoints
    /\ st.path # <<>> \/ st.endpoint # ""
    /\ st.jqParses

UIOK(c) == c.view \in Views /\ c.sortDir \in SortDirs

CommandOK(c, s) ==
    /\ UIOK(c)
    /\ IF c.steps # <<>>
       THEN \A k \in DOMAIN c.steps :
               /\ StepOK(c.steps[k], s)
               /\ \A f \in Elems(c.steps[k].onError) : StepOK(f, s)
       ELSE /\ c.method # ""
            /\ TransportOf(s.transport) = "http" => c.path # <<>> \/ c.endpoint # ""
            /\ c.endpoint = "" \/ c.endpoint \in DOMAIN s.endpoints
            /\ c.pagination \in PaginationStyles
            /\ TransportOf(s.transport) = "jsonrpc-ws" => c.paramsIsArray

Valid(s) ==
    /\ NoBinding(s)
    /\ SpecOK(s)
    /\ TransportOf(s.transport) \in Transports
    /\ AuthOK(s.auth, s.secrets)
    /\ s.output \in OutputModes
    /\ s.pagination \in PaginationStyles
    /\ \A x \in DOMAIN s.secrets : s.secrets[x].idiom \in Idioms
    /\ \A id \in DOMAIN s.commands : CommandOK(s.commands[id], s)

\* What lint accepts: an unknown key is an error there and a warning when a service loads.
Lints(s) == Valid(s) /\ ~s.unknownKeys

-----------------------------------------------------------------------------
(* Loading: inferred commands, the defaults, then the profile.             *)

\* Commands of the manifest win over those inferred from its spec.
MergeSpecCommands(own, inferred) ==
    [id \in DOMAIN own \cup DOMAIN inferred |-> IF id \in DOMAIN own THEN own[id] ELSE inferred[id]]

MergeDefaults(s) == [s EXCEPT !.transport = TransportOf(@)]

\* An endpoint and a slot that only the profile mentions start from the zero value.
\* auth holds the block an endpoint has of its own, if any.
BlankEndpoint == [base |-> <<>>, auth |-> <<>>]
BlankSecret == [ref |-> "", env |-> "", idiom |-> "", fields |-> 0]

\* applyProfile: per key, what the binding sets wins and what it leaves empty stays.
ApplyProfile(s, b) ==
    [s EXCEPT
        !.base = IF b.base = <<>> THEN @ ELSE b.base,
        !.vars = @ \cup b.vars,
        !.endpoints =
            [e \in DOMAIN @ \cup DOMAIN b.endpoints |->
                LET old == IF e \in DOMAIN @ THEN @[e] ELSE BlankEndpoint IN
                IF e \in DOMAIN b.endpoints /\ b.endpoints[e] # <<>>
                THEN [old EXCEPT !.base = b.endpoints[e]] ELSE old],
        !.secrets =
            [x \in DOMAIN @ \cup DOMAIN b.secrets |->
                LET old == IF x \in DOMAIN @ THEN @[x] ELSE BlankSecret IN
                IF x \notin DOMAIN b.secrets THEN old ELSE
                [old EXCEPT
                    !.ref = IF b.secrets[x].ref = "" THEN @ ELSE b.secrets[x].ref,
                    !.env = IF b.secrets[x].env = "" THEN @ ELSE b.secrets[x].env]]]

\* A profile binds services by name.
Finalize(s, profile) ==
    LET d == MergeDefaults(s) IN
    IF s.name \in DOMAIN profile THEN ApplyProfile(d, profile[s.name]) ELSE d

\* Whether the merged service can run at all, for any of its commands.
Complete(s) ==
    /\ s.base # <<>> \/ DOMAIN s.endpoints # {}
    /\ \A e \in DOMAIN s.endpoints : s.endpoints[e].base # <<>>
    /\ \A x \in DOMAIN s.secrets : s.secrets[x].ref # "" \/ s.secrets[x].env # ""

-----------------------------------------------------------------------------
(* Commands: what both faces run.                                          *)

ReadMethods == {"core.ping", "system.info", "pool.query"}
IsWrite(transport, method) ==
    IF transport = "jsonrpc-ws" THEN method \notin ReadMethods
                                ELSE method \notin {"", "GET", "HEAD", "OPTIONS"}

FromManifest(s) ==
    [id \in DOMAIN s.commands |->
        LET c == s.commands[id] IN
        [c EXCEPT !.pagination = IF @ = "" THEN s.pagination ELSE @,
                  !.output = IF @ = "" THEN s.output ELSE @,
                  !.write = IsWrite(s.transport, c.method)]]

BlankCommand ==
    [method |-> "", path |-> <<>>, query |-> <<>>, headers |-> {}, body |-> <<>>,
     params |-> <<>>, paramsIsArray |-> TRUE, noauth |-> FALSE,
     endpoint |-> "", pagination |-> "", steps |-> <<>>, view |-> "", sortDir |-> "",
     output |-> "", mcpIgnore |-> FALSE, write |-> FALSE]

HTTPVerbs == [get |-> "GET", post |-> "POST", put |-> "PUT", patch |-> "PATCH",
              delete |-> "DELETE", head |-> "HEAD"]

\* The command of a generic verb.  A word has the path or the method it was given, the
\* query that stood in the path, and a further argument: query, body or params.
VerbOK(verb, w) ==
    /\ verb \in DOMAIN HTTPVerbs \cup {"call"}
    /\ IF verb = "call" THEN w.method # "" ELSE w.path # <<>>
Verb(transport, verb, w) ==
    IF verb = "call"
    THEN [BlankCommand EXCEPT !.method = w.method, !.params = w.extra,
                              !.write = IsWrite("jsonrpc-ws", w.method)]
    ELSE LET method == HTTPVerbs[verb] IN
         [BlankCommand EXCEPT
            !.method = method, !.path = w.path,
            !.query = IF method = "GET" /\ w.query = <<>> THEN w.extra ELSE w.query,
            !.body = IF method \notin {"GET", "HEAD"} THEN w.extra ELSE <<>>,
            !.write = IsWrite(transport, method)]
=============================================================================
