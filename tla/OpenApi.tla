------------------------------- MODULE OpenApi ------------------------------
(***************************************************************************)
(* Commands from an OpenAPI document.  A service with `spec:` infers them  *)
(* whenever it is loaded, from a copy of the document that all processes   *)
(* of a user keep for a day (internal/manifest/spec.go); `catalog add      *)
(* --openapi` writes them into a manifest once (openapi_scaffold.go,       *)
(* internal/cli/catalog_openapi.go).                                       *)
(*                                                                         *)
(* Processes interleave, the server changes its document, time passes      *)
(* between any two steps, requests fail and processes die.  A document is  *)
(* what the parser makes of it: its kind, its operations, its security     *)
(* schemes and its title.  An operation carries the slugs of its id and of *)
(* its method and path, and the globs that match its path.                 *)
(***************************************************************************)
EXTENDS Manifest

CONSTANTS
    Procs,
    Service,    \* the manifest with the spec:, as it was written
    Histories,  \* the documents the server publishes, one after the other
    Sources,    \* the documents that catalogs are added from
    Ttl,        \* the age up to which a copy is used (24 h)
    Timeout,    \* of a request (30 s)
    MaxTime     \* bound on the clock

ASSUME TimeAssumption == Ttl \in Nat /\ Timeout \in Nat /\ MaxTime \in Nat
ASSUME HistoryAssumption ==
    \A h \in Histories :
        /\ Len(h) \in Nat \ {0} /\ DOMAIN h = 1 .. Len(h)
        /\ \A n \in DOMAIN h : Len(h[n].ops) \in Nat /\ DOMAIN h[n].ops = 1 .. Len(h[n].ops)
\* The keys of a path item are the methods.
ASSUME SourceAssumption ==
    /\ DOMAIN Sources \subseteq Nat
    /\ \A s \in DOMAIN Sources :
          LET ops == Sources[s].ops IN
          /\ Len(ops) \in Nat /\ DOMAIN ops = 1 .. Len(ops)
          /\ \A n \in DOMAIN ops : ops[n].method # ""

VARIABLES
    clock,
    docs, rev,  \* the server's documents, and which of them it serves
    left,       \* history: when it stopped serving each earlier one
    file,       \* the cached copy: a revision and when it was written, or NoFile
    pc,
    raw,        \* the revision a process holds, 0 without one
    looked,     \* when it looked at the cache, or asked the server
    temp,       \* what it has written to its temporary file
    cmds,       \* the commands of the service it has loaded
    made        \* the manifest it has generated

fetch == <<raw, looked, temp>>
world == <<clock, docs, rev, left>>
vars == <<world, file, pc, fetch, cmds, made>>

NoFile == [rev |-> 0, at |-> 0]
NoCommands == [id \in {} |-> BlankCommand]
NoManifest == [name |-> ""]

-----------------------------------------------------------------------------
(* From a document to commands.                                            *)

CommandKey(op) == IF op.id # "" THEN op.idSlug ELSE op.pathSlug

MatchesOp(pat, op) ==
    pat \in op.globs \cup op.tags \cup {op.method} \cup ({op.id} \ {""})

\* MUTANT of FilterIncludes: what is included is not looked up in exclude.
IncludeWins(op, s) ==
    \/ s.include = {} /\ \A pat \in s.exclude : ~MatchesOp(pat, op)
    \/ \E pat \in s.include : MatchesOp(pat, op)

\* Exclude wins.
FilterIncludes(op, s) ==
    /\ \A pat \in s.exclude : ~MatchesOp(pat, op)
    /\ s.include = {} \/ \E pat \in s.include : MatchesOp(pat, op)

CommandOf(op) == [BlankCommand EXCEPT !.method = op.method, !.path = op.path]

\* A map: of two operations with one key the later one stays.
BuildCommands(ops, s) ==
    LET chosen == {n \in DOMAIN ops : FilterIncludes(ops[n], s)} IN
    [key \in {CommandKey(ops[n]) : n \in chosen} |->
        CommandOf(ops[CHOOSE n \in chosen :
                        /\ CommandKey(ops[n]) = key
                        /\ \A m \in chosen : CommandKey(ops[m]) = key => m <= n])]

Parses(doc) == doc.kind \in {"v3", "empty"}   \* not Swagger 2, and not garbage

\* InferredCommands and mergeSpecCommands: a document that cannot be used leaves the
\* service with the commands of its manifest.
CommandsFrom(doc) ==
    IF Parses(doc) THEN MergeSpecCommands(Service.commands, BuildCommands(doc.ops, Service))
                   ELSE Service.commands

-----------------------------------------------------------------------------
(* From a document to a manifest.                                          *)

\* The scheme that the document requires of every operation, else its first one.
SelectSecurityScheme(doc) ==
    LET required == {n \in DOMAIN doc.schemes : doc.schemes[n].name = doc.security} IN
    doc.schemes[IF required = {} THEN 1 ELSE CHOOSE n \in required : TRUE]

PlainAuth == [strategy |-> "none", header |-> "", value |-> <<>>, username |-> <<>>,
              password |-> <<>>, params |-> <<>>]

\* A scheme that no strategy can express becomes none, never something like it.  The token
\* URL of the document is copied as it stands, and is a template from then on; tokenUrl is
\* <<>> where it is not an absolute URL, and a placeholder takes its place.
MapSecurityScheme(x) ==
    CASE x.type = "apikey" /\ x.where = "header" ->
            [PlainAuth EXCEPT !.strategy = "header-key", !.value = <<Secret("api_key")>>,
                              !.header = IF x.header = "" THEN "X-Api-Key" ELSE x.header]
      [] x.type = "http" /\ x.where = "bearer" ->
            [PlainAuth EXCEPT !.strategy = "bearer", !.value = <<Secret("token")>>]
      [] x.type = "http" /\ x.where = "basic" ->
            [PlainAuth EXCEPT !.strategy = "basic", !.username = <<Secret("username")>>,
                              !.password = <<Secret("password")>>]
      [] x.type = "oauth2" /\ x.where = "clientCredentials" ->
            [PlainAuth EXCEPT !.strategy = "oauth2-client-credentials",
                              !.value = IF x.tokenUrl = <<>> THEN <<Lit>> ELSE x.tokenUrl,
                              !.username = <<Secret("client_id")>>,
                              !.password = <<Secret("client_secret")>>]
      [] OTHER -> PlainAuth

\* The slots that the mapping declares, by its strategy.
DeclaredSlots(strategy) ==
    CASE strategy = "header-key" -> {"api_key"}
      [] strategy = "bearer" -> {"token"}
      [] strategy = "basic" -> {"username", "password"}
      [] strategy = "oauth2-client-credentials" -> {"client_id", "client_secret"}
      [] OTHER -> {}

InferAuth(doc) ==
    IF doc.schemes = <<>> THEN PlainAuth ELSE MapSecurityScheme(SelectSecurityScheme(doc))

\* MUTANT of KeysAreUnique: only an empty key is refused.
KeysAreNotEmpty(ops) == \A n \in DOMAIN ops : CommandKey(ops[n]) # ""

KeysAreUnique(ops) ==
    \A n, m \in DOMAIN ops :
        CommandKey(ops[n]) # "" /\ (CommandKey(ops[n]) = CommandKey(ops[m]) => n = m)

\* A slot has a variable of the environment and no reference.
ManifestOf(name, doc) ==
    LET auth == InferAuth(doc) IN
    [name |-> name, transport |-> "", base |-> <<>>, auth |-> auth,
     secrets |-> [x \in DeclaredSlots(auth.strategy) |-> [BlankSecret EXCEPT !.env = x]],
     endpoints |-> [e \in {} |-> BlankEndpoint], vars |-> {}, output |-> "", pagination |-> "",
     spec |-> "", include |-> {}, exclude |-> {}, unknownKeys |-> FALSE,
     commands |-> BuildCommands(doc.ops, [include |-> {}, exclude |-> {}])]

-----------------------------------------------------------------------------
(* Loading a service with a spec.                                          *)

Goto(p, label) == pc' = [pc EXCEPT ![p] = label]
Failed(p) == Goto(p, "loaded") /\ cmds' = [cmds EXCEPT ![p] = Service.commands]

Begin(p) ==
    /\ pc[p] = "idle" /\ Goto(p, "stat")
    /\ UNCHANGED <<world, file, fetch, cmds, made>>

\* readSpecCache: a file that is young enough is read; one with another mode or that
\* cannot be looked at is as good as none.
StatCache(p) ==
    /\ pc[p] = "stat"
    /\ \/ file # NoFile /\ clock - file.at <= Ttl /\ Goto(p, "read")
       \/ Goto(p, "request")
    /\ looked' = [looked EXCEPT ![p] = clock]
    /\ UNCHANGED <<world, file, raw, temp, cmds, made>>

\* By the path, so it is the copy that is there by now.
ReadCache(p) ==
    /\ pc[p] = "read"
    /\ \/ raw' = [raw EXCEPT ![p] = file.rev] /\ Goto(p, "parse")
       \/ Goto(p, "request") /\ UNCHANGED raw
    /\ UNCHANGED <<world, file, looked, temp, cmds, made>>

\* External: the server answers with the document it serves at that time.
Respond(p) ==
    /\ pc[p] = "request"
    /\ raw' = [raw EXCEPT ![p] = rev] /\ looked' = [looked EXCEPT ![p] = clock]
    /\ Goto(p, "reply")
    /\ UNCHANGED <<world, file, temp, cmds, made>>

\* No answer, another status than 200, a body that breaks off, the timeout: the service
\* keeps the commands of its manifest.
RequestFails(p) ==
    /\ pc[p] \in {"request", "reply"}
    /\ Failed(p)
    /\ raw' = [raw EXCEPT ![p] = 0]
    /\ UNCHANGED <<world, file, looked, temp, made>>

\* The body is there and goes to a temporary file of its own, which carries the time.
Receive(p) ==
    /\ pc[p] = "reply"
    /\ temp' = [temp EXCEPT ![p] = [rev |-> raw[p], at |-> clock]]
    /\ Goto(p, "rename")
    /\ UNCHANGED <<world, file, raw, looked, cmds, made>>

\* MUTANT of Rename: the copy is as old as its rename.
RenameStampsNow(p) ==
    /\ pc[p] = "rename"
    /\ file' = [temp[p] EXCEPT !.at = clock]
    /\ temp' = [temp EXCEPT ![p] = NoFile]
    /\ Goto(p, "parse")
    /\ UNCHANGED <<world, raw, looked, cmds, made>>

\* The end of writeSpecCache; any failure of it is ignored.
Rename(p) ==
    /\ pc[p] = "rename"
    /\ file' \in {file, temp[p]}
    /\ temp' = [temp EXCEPT ![p] = NoFile]
    /\ Goto(p, "parse")
    /\ UNCHANGED <<world, raw, looked, cmds, made>>

\* It is parsed only now: a document that cannot be used is cached like another.
Infer(p) ==
    /\ pc[p] = "parse"
    /\ cmds' = [cmds EXCEPT ![p] = CommandsFrom(docs[raw[p]])]
    /\ Goto(p, "loaded")
    /\ UNCHANGED <<world, file, fetch, made>>

-----------------------------------------------------------------------------
(* catalog add --openapi, up to the installation (CatalogStore.tla).       *)

\* The name is the one given or the slug of the title; the document must parse, have a
\* name and give every operation a key of its own, else nothing happens; the manifest must
\* pass the gate.
AddOpenAPI(p, n, name) ==
    /\ pc[p] = "idle"
    /\ LET doc == Sources[n]
           chosen == IF name = "" THEN doc.title ELSE name IN
       /\ Parses(doc) /\ KeysAreUnique(doc.ops)
       /\ chosen # ""
       /\ made' = [made EXCEPT ![p] = ManifestOf(chosen, doc)]
    /\ Goto(p, IF Valid(made'[p]) THEN "install" ELSE "bug")
    /\ raw' = [raw EXCEPT ![p] = n]
    /\ UNCHANGED <<world, file, looked, temp, cmds>>

-----------------------------------------------------------------------------
\* The command has run, or its process has died; the file stays.
Exit(p) ==
    /\ pc[p] # "idle" /\ Goto(p, "idle")
    /\ raw' = [raw EXCEPT ![p] = 0] /\ looked' = [looked EXCEPT ![p] = 0]
    /\ temp' = [temp EXCEPT ![p] = NoFile]
    /\ cmds' = [cmds EXCEPT ![p] = NoCommands] /\ made' = [made EXCEPT ![p] = NoManifest]
    /\ UNCHANGED <<world, file>>

Publish ==
    /\ rev < Len(docs)
    /\ rev' = rev + 1 /\ left' = [left EXCEPT ![rev] = clock]
    /\ UNCHANGED <<clock, docs, file, pc, fetch, cmds, made>>

\* Time passes, but not while an answer is overdue: the client gives up first.  No
\* process sleeps for the age of a copy between the writing and the rename.
Tick ==
    /\ clock < MaxTime
    /\ \A p \in Procs : /\ pc[p] = "reply" => clock < looked[p] + Timeout
                        /\ pc[p] = "rename" => clock < temp[p].at + Ttl
    /\ clock' = clock + 1
    /\ UNCHANGED <<docs, rev, left, file, pc, fetch, cmds, made>>

Init ==
    /\ clock = 0
    /\ docs \in Histories /\ rev = 1 /\ left = [n \in DOMAIN docs |-> 0]
    /\ file = NoFile
    /\ pc = [p \in Procs |-> "idle"]
    /\ raw = [p \in Procs |-> 0] /\ looked = [p \in Procs |-> 0]
    /\ temp = [p \in Procs |-> NoFile]
    /\ cmds = [p \in Procs |-> NoCommands] /\ made = [p \in Procs |-> NoManifest]

Step(p) ==
    \/ Begin(p) \/ StatCache(p) \/ ReadCache(p) \/ Respond(p) \/ RequestFails(p)
    \/ Receive(p) \/ Rename(p) \/ Infer(p)
    \/ \E n \in DOMAIN Sources, name \in {"", "given"} : AddOpenAPI(p, n, name)
    \/ Exit(p)

Next == (\E p \in Procs : Step(p)) \/ Publish \/ Tick

Spec == Init /\ [][Next]_vars

-----------------------------------------------------------------------------
(* Properties.                                                             *)

TypeOK ==
    /\ clock \in 0 .. MaxTime
    /\ docs \in Histories /\ rev \in DOMAIN docs /\ left \in [DOMAIN docs -> Nat]
    /\ file \in [rev : 0 .. Len(docs), at : Nat]
    /\ pc \in [Procs -> {"idle", "stat", "read", "request", "reply", "rename", "parse", "loaded",
                         "install", "bug"}]
    /\ raw \in [Procs -> Nat] /\ looked \in [Procs -> Nat]
    /\ temp \in [Procs -> [rev : 0 .. Len(docs), at : Nat]]

LastServed(n) == IF n = rev THEN clock ELSE left[n]

\* A process works with a document that the server has served at most the age of a copy
\* and one timeout before it looked, although the copy is stamped after the request, a
\* slow process may rename an old copy over a newer one, and the file may be exchanged
\* between the look at its age and the reading (readSpecCache, writeSpecCache).
SpecsAreFresh ==
    \A p \in Procs :
        pc[p] = "parse" => looked[p] <= LastServed(raw[p]) + Ttl + Timeout

\* The commands a service is loaded with: those of its manifest are untouched whatever
\* the document says or does, every other one is an operation of the document that the
\* filter lets through, of two that clash the later, and none that it lets through is
\* missing (mergeSpecCommands, filterIncludes, decodeService, lines 465-475).
CommandsAreVouchedFor ==
    \A p \in Procs : pc[p] = "loaded" =>
        LET own == DOMAIN Service.commands
            ops == IF raw[p] # 0 /\ Parses(docs[raw[p]]) THEN docs[raw[p]].ops ELSE <<>>
            Selects(pats, n) == \E pat \in pats : MatchesOp(pat, ops[n])
            admitted == {n \in DOMAIN ops : /\ ~Selects(Service.exclude, n)
                                            /\ Service.include = {} \/ Selects(Service.include, n)}
            Named(id) == {n \in admitted : CommandKey(ops[n]) = id} IN
        /\ \A id \in own : cmds[p][id] = Service.commands[id]
        /\ \A id \in DOMAIN cmds[p] \ own : \E n \in Named(id) :
              cmds[p][id] = CommandOf(ops[n]) /\ \A m \in Named(id) : m <= n
        /\ \A n \in admitted : CommandKey(ops[n]) \in DOMAIN cmds[p]

\* A generated manifest passes the gate that it is put through (the code calls anything
\* else a bug of its own) unless the document has an operation under an empty path or a
\* token URL that names a secret which the mapping does not declare: nothing before the
\* gate looks at either.  One that passes has every operation of its document under a name
\* of its own, lints, binds nothing, and declares exactly the secrets of its credential; a
\* path of the document may still name a secret that nobody declares, which neither this
\* nor the gate looks at (GenerateManifestFromSpec, validateAuth).
GeneratedManifestsAreSound ==
    \A p \in Procs :
        LET ops == Sources[raw[p]].ops
            m == made[p] IN
        /\ pc[p] = "bug" => \/ \E n \in DOMAIN ops : ops[n].path = <<>>
                            \/ ~(SecretRefs(m.auth.value) \subseteq DOMAIN m.secrets)
        /\ pc[p] = "install" =>
              /\ Cardinality(DOMAIN m.commands) = Len(ops)
              /\ \A n \in DOMAIN ops : \E id \in DOMAIN m.commands : m.commands[id] = CommandOf(ops[n])
              /\ Lints(m) /\ m.spec = ""
              /\ DOMAIN m.secrets = UNION {SecretRefs(t) : t \in AuthTemplates(m.auth)}
=============================================================================
