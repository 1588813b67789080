# anyctl: formal models

This directory holds TLA+ models of the parts of `anyctl` in which steps of several
processes, failures or long sequences of calls decide whether the program is right. TLC
checks them on small instances; TLAPS proves the most important properties for every
value of the constants. Paths below are relative to the repository.

## 1. The system

`anyctl` is one binary without a daemon. Every invocation loads the configuration
directory, executes one command and exits, or stays as an MCP server. What invocations
share are files: the installed catalogs, the token cache, the spec cache, the binary
itself. None of these files has a lock.

| Component | State | Operations | Talks to | What is hard |
|---|---|---|---|---|
| Catalog store (`internal/manifest/catalogstore.go`, `internal/cli/catalog_install.go`) | `catalogs/<name>/` with manifests and a metadata file, staging directories | `add [--force]`, `update`, `remove`, list, info | sources by git, directory or HTTP; read by the loader | no lock; removal entry by entry; crash between any two calls |
| Install-time gate (`catalog_validate.go`, `catalogindex.go`, `catalog_openapi.go`) | none | select members, validate, refuse duplicates | called by add, update, validate | must refuse whatever the loader would trip over |
| Loader (`load.go`, `profile.go`) | table of services, origins, ambiguous names | load, lookup, canonical names | reads the catalog store, services, profile | races with the store; resolution must not depend on order |
| Engine (`engine.go`, `template.go`, `http.go`) | none across invocations | execute, dry run, paginate | services, secrets, auth | which step fails first, what a dry run touches, when a listing ends |
| Pipelines (`pipeline.go`) | variables collected by the steps | steps with `when:`, `confirm:`, `on_error:` | services through the engine | partial failure, gates behind skipped or failed steps |
| Token cache (`oauth2.go`) | one file per client, token URL and scope | read, evict, write | token endpoints | expiry against the clock, several processes on one file |
| Secrets (`internal/secret`) | a cache per invocation | resolve by env, provider, field fallback | `op` and other binaries | error classes, nothing empty cached |
| JSON-RPC over WebSocket (`jsonrpc_ws.go`) | one connection | login, call, read loop | a service | skipped frames, a server that never stops talking |
| Exit classes (`agentsafety/exit.go`, `cli.go`) | none | classify a failure | every layer above | the class must survive the wrapping |
| MCP server (`internal/mcpserver`, `builtins.go`) | registered tools, HTTP server, audit log | register, call, audit | agents; the engine | name collisions, concurrent calls, a kill between request and audit |
| Self-update (`selfupdate.go`) | the installed binary | check, download, verify, replace | a release server | crash while replacing, a release rebuilt between two downloads |
| Spec cache and inference (`spec.go`, `openapi_scaffold.go`) | cached documents, 24 h | fetch, read, write, infer, generate | spec servers | stale copies, exchange between look and read, clashing keys |
| Validation (`validate.go`) | none | accept or reject a manifest | loader, gate, scaffold | must exclude what the engine stumbles over |
| Output, init, telemetry | none | pure, or write once | | data rather than behaviour |

What makes each component correct, in one line each:

- store: a visible catalog is always (a part of) one accepted bundle, appears whole, and
  is emptied only by a process that meant this very directory;
- loader: it fails only if a catalog was taken away under it, reads an untouched one
  exactly, and its table does not depend on any order;
- pagination: it ends, asks for nothing twice, and drops nothing;
- pipelines: gates hold, failures show, variables come from the steps that set them;
- token cache: a cached token that is used is honoured, and belongs to its key;
- secrets: each is fetched at most once, none is sent before it is resolved, and a dry run
  resolves none of a header, a body or a credential;
- JSON-RPC: the method follows an accepted login, the answer is the one to the method, and
  a server that only pushes events cannot hold the command once it is connected;
- exit classes: the class of a plain command tells whether something was sent, and http
  and network tell it of any command;
- MCP server: read-only tools only read (composed commands count as reads), answered writes are
  audited, and a reachable server asks for its token;
- self-update: the installed binary is always whole and verified;
- spec cache: no revision older than a copy may be; inferred commands passed the filters;
- validation: what it accepts has a transport the engine knows, and endpoints and
  credentials it finds, as far as validation looks.

`PROJECT.json` lists every component with its status, and every hazard with its line.

## 2. The modules

| Module | Models |
|---|---|
| `CatalogStore` | the store, one file-system call per action |
| `CatalogLifecycle` | what the store promises of one name; `CatalogStore` implements it |
| `CatalogLoad` | `CatalogStore` with a process that loads its configuration (extends it) |
| `CatalogStoreProofs` | theorems about `CatalogStore` and `CatalogLoad` |
| `ServiceTable` | the table of services that a load builds, and its readers |
| `ServiceTableProofs` | theorems about `ServiceTable` |
| `Pagination` | the loops of `executePaginated` against any service, and against one that pages properly |
| `Pipeline` | `executePipeline`, for programs of any length |
| `EngineProofs` | theorems about `Pagination` and `Pipeline` |
| `TokenCache` | `fetchOAuth2Token` in several processes, with a clock |
| `TokenCacheProofs` | theorems about `TokenCache` |
| `Manifest` | the semantic checks on a manifest, its defaults, its binding by a profile, and the write classification: operators without state |
| `JsonRpcWs` | one call over a WebSocket |
| `Execute` | one invocation from its selector to its exit class (extends `Manifest` and `JsonRpcWs`) |
| `ExecuteProofs` | theorems about `Execute` and the WebSocket call in it |
| `McpServer` | the MCP server and the calls of its clients (extends `Manifest`) |
| `McpServerProofs` | theorems about `McpServer` |
| `SelfUpdate`, `SelfUpdateProofs` | self-update in several processes, and theorems |
| `OpenApi`, `OpenApiProofs` | the spec cache, the inference and `catalog add --openapi` (extends `Manifest`), and theorems |
| `MC*` | instances for TLC |

### CatalogStore

State: `visible` says which directory (inode) bears each catalog name, `content` what each
directory holds, `rev` what each source would deliver now. Each process has a program
counter, its command, its target, the bundle it fetched, its staging directory, and the
directory its `RemoveAll` has open (`victim`).

| Code | Actions |
|---|---|
| `catalogAdd`, `catalogAddOpenAPI` up to the fetch | `StartAdd` |
| `catalogUpdate`, its loop | `StartUpdate`, `NextTarget` |
| `ReadCatalogMeta` in `updateOne` | `ReadMeta` |
| git clone, directory walk or HTTP fetch, and `collectAndValidate` | `Fetch` |
| `InstallCatalog`: `MkdirTemp`, `WriteFile`, `Stat`, `RemoveAll`, `Rename`, deferred `RemoveAll` | `MakeStaging`, `WriteEntry`, `StatFinal`, `OpenVictim`/`Unlink`/`Rmdir`, `Rename`, `Sweep` |
| `RemoveCatalog` | `StartRemove`, `StatFinal`, `OpenVictim`/`Unlink`/`Rmdir` |
| error returns | `StepFails`, `ClearFails` |
| death of the process | `Crash` |

`os.RemoveAll` opens the directory once, unlinks the entries of what it opened, and removes the
directory by its NAME. `os.Rename` refuses an existing directory, but its check and the system
call are two steps, so the model also lets it replace an empty one, as `rename(2)` does. `Crash`
forgets the process but not its staging directory: that is a left-over from then on, which no step
may touch (`StagingIsPrivate`), and which no load takes for a catalog (`OnlyAcceptedManifests`).
The content of a manifest is abstracted to the bundle (source, revision) it came from. The gate is
the constant `Portable`.

### CatalogLoad

The loader reads three times by path: the list of catalogs, the list of files of each, and
each file. The history variable `disturbed` collects the catalogs that lost something
while it was at it; the properties are relative to it.

### ServiceTable

The second half of the load, on a directory that stands still: one action per manifest
(`ReadInstalled`, `ReadLocal`), one per bare name (`SettleBareName`, a Go map in the code),
and the phases between them. A service is the place of its manifest, which stands for the
pointer the code compares. `services`, `origins` and `ambiguous` are the three maps of
`Loaded`. Manifests are read in any order, although the code sorts them: the properties
then say that the order does not matter. `Lookup`, `CanonicalNames` and `Allowed` (the
allowlist of the MCP server) read the finished table; `GateAccepts` is the verdict of
`catalog add` on the same files.

A manifest may have any name. One that looks like a qualified selector (`a:x`, with `a` a
catalog) takes that selector from the service it belongs to, and nothing in the loader or
the schema refuses such a name. The instance has such names. The table, the
listing and the allowlist are claimed for loads without them (`PlainNames`, a condition on
the manifests that are there, inside these properties); that accepted catalogs load, and
that orphan bindings are reported, is claimed for all names.

### Pagination

Items are counted, not held: the loops append whole pages in the order of arrival.
`served`, `asked` and `requests` are history. The service is the environment, and a
behaviour has one of two kinds of it: `AnyService` answers with any number of items and
any cursor; a proper one holds `items` items, sends `size` per page, hands out a new
cursor while something remains, and ignores the `limit=N` that the engine adds to the
query. One action per style (`SinglePage`, `CursorPage`, `NumberedPage`,
`UntilShortPage`) is one turn of its loop with the answer that ended the request;
`RequestFails` is every error return of a turn.

### Pipeline

A step is the record of the fields that decide what happens. A request fails before it is sent, at
it, or after it, with any part of its variables stored, because `extract:` runs over a Go map. A
fallback is sent whatever its own `confirm:` says. `sent` and `failed` are history. `when:` is a
variable, judged by its jq truth, and may fail. Variables of the service are not variables of
`Vars`.

### TokenCache

A token is its key and the time its endpoint honours it until. `Lookup`, `Check` and
`Evict` are the three steps of `readCache`, `Receive` and `Rename` the end of
`fetchOAuth2Token` with `writeCache`. The reply reaches the client at most `Timeout` after
it was issued; decoding it takes no time of the clock, and clocks of client and endpoint
agree in rate. A lifetime that the endpoint did not state is unknown.

### Manifest

A manifest is a record of the fields that some check or some step looks at. A template is
the sequence of its tokens (`{secret.x}`, `{arg.n}`, `{env.X}`, `{file}`, a variable, or
literal text). `Valid` is `Validate`, `Complete` is `ValidateComplete`, `Lints` the lint
for unknown keys; `Finalize` is `finalizeService` with the merge of a binding field by
field; `IsWrite` and `Verb` are the write classification and the raw verbs. `IsManifest`,
`IsCommand` and the sets they are made of are the Go types, with what they cannot exclude
(any number of commands, steps, headers and tokens): the assumptions on the constants of
`Execute` and `McpServer` say no more than that a manifest is one. The JSON
schema and its comparison with the Go types are data.

### JsonRpcWs

| Code | Actions |
|---|---|
| `websocket.Dial` with its context | `Dial` |
| `writeMessage`, for the login and for the method | `Write` |
| the head of the loop in `readResponse` | `CheckDeadline`, `Expire` |
| a frame with another id, or that does not parse | `Skip` |
| the login's answer, the method's answer, a closed connection | `ReadLogin`, `ReadResult`, `ReadFails` |

The server is the environment: it answers what it got, in any order, once each, or
never, and pushes frames without an id or with garbage between.

### Execute

A request is built by working off an agenda: the tokens of its templates in the order in which
`executeHTTP`, `executeJSONRPCWS`, `runStep` and `Apply` expand them, each with its stage (base,
path, query, header, body, params, auth, login). `Expand` takes the next one; a secret goes
through `SecretCached`, `SecretUndeclared`, `SecretFromEnv` and `SecretFromProvider`, which are
the four ways through `Resolver.Secret`; `Preview` is the return of a dry run, and stands where
the code has it. `Apply` puts the credential on, `SendOK`/`SendFails` is one request, `StartPage`
the next page. `StartWs` hands over to `JsonRpcWs`, `WsEnds` takes its result. `Classify` is the
table of `exit.go`, and every failure names its cause. Headers, and steps and their fallbacks,
take the same agenda. A variable in braces is looked up among those of the service and, in a step,
among what earlier steps stored (`found`): all that the step extracts and captures, or, when
decoding or extraction fails on the way, a part of it (`Taken`, `TakenInPart`). Steps resolve
their base without `<PREFIX>_URL`, as `executePipeline` does (`Base`).

### McpServer

`Refuse`/`Start`/`Listen` are `mcp` up to the serving listener: the token (`AuthToken`), the
refusal to listen beyond the loopback without one, unknown services. `BuildServer` goes through
the services in their order and skips a name that is taken, so under each name stands the tool of
the first service, in canonical order, that offers it; within one service names differ, because a
command takes the place of a verb of its name. A call is `Ask` (the bearer check), `Begin`,
`Send`, `Executed`, `Audit`, `Reply`, one action per step that another call or a `Kill` can fall
between. What the engine does within a call is `Execute`; here a call sends or does not, and ends
well or badly. A verb call whose path names `{arg.N}` may send in the model, although the engine
fails it: the model has more behaviours than the code there.

### SelfUpdate

A build is a pair of its tag and a number: a release may be built again under its tag,
binary first and digest after it, between the two downloads of a process. `exe` is what
`os.Executable` names; `tmp` is the temporary file beside it. Each system call of
`replaceBinary` is an action, `StepFails` its error returns with their cleanup, and `Die`
the death of a process between any two, the rename and the report of success (`Succeed`)
included.

### OpenApi

A document is what the parser makes of it; an operation has its id, method, path, tags
and the slugs of `commandKey`. `StatCache` and `ReadCache` are two steps of
`readSpecCache`, `Receive` and `Rename` the two halves of `writeSpecCache`, and the
document is parsed after it was cached (`Infer`). `AddOpenAPI` is
`GenerateManifestFromSpec` with the gate; a scheme carries the token URL of its document,
which becomes a template of the manifest, and the slots that are declared come from the
mapping and not from that template. A clock ticks between any two steps, except that
an answer is not overdue and that no process sleeps for a whole `Ttl` between writing its
temporary file and renaming it; the second is an assumption about scheduling.

## 3. The runs

| Run | Question | Bounds, and why they are enough |
|---|---|---|
| `catalog_store` | can commands on one name mix, lose or damage a catalog, and does the store implement the life cycle? | two processes, one name, three directories, two revisions of one source with different files: an installed catalog, its replacement and a competing install at the same time |
| `catalog_ends` | does every command end? | two names, so that an update has two targets; one file, one revision |
| `catalog_load` | what can a load see beside another process? | one process beside the load, three revisions of which one is refused, three directories: a whole replacement and a left-over fit between two reads |
| `service_table` | is the table the one that the sources declare, and are its readers right? | two catalogs and `services/` with two files each, plain names and one that looks like a qualified selector, good, sloppy and bad manifests: every collision within and between sources |
| `pagination` | when do the loops end, and with what? does every item of a proper service arrive? | four pages instead of 1000, five cursors, pages of up to three items, limits up to five: every end of a loop, alone and on the same page as another, and the cap; up to 14 items, more than the cap can hold |
| `pipeline` | do gates, order, failures and variables hold? | every program of up to two steps over a set of shapes, and chains of three |
| `token_cache` | is a cached token good, and the right one? | two processes, one endpoint, two scopes, lifetimes above and below margin, default above both, four points of time |
| `execute` | are secrets resolved once and in time, does the exit class tell the truth, does a call end? | six manifests that `Validate` accepts and four that it must reject, two profiles and an incomplete one, every transport, strategy and kind of template, raw verbs and unknown words, the environment and its overrides; two pages, two frames under way; a step that uses what an earlier one extracted |
| `dry_run_secrets` | does a dry run resolve nothing? | violated, on the instance of `execute` |
| `mcp_server` | what may tools and callers do? | two clients with one call each, which is enough for two audit lines in either order; services whose named and verb tools meet in one name; every source of a token, good, empty and missing, on three kinds of address |
| `self_update` | what can be installed? | two processes, two releases, each built twice: both may download across a rebuild, and rename over each other; a kill at every point, also between rename and report |
| `openapi` | how old may a document be, and what becomes of it? | two processes, two revisions, an age of two and a timeout of one on a clock of five: a copy expires, is exchanged and is written late; a document for every kind of security scheme, token URLs with declared and undeclared secrets, clashing and odd keys, operations that no filter names, and an empty path |

Deadlock is not checked in the runs of `ServiceTable`, `Pagination`, `Pipeline`, `Execute`,
`McpServer`, `SelfUpdate` and `OpenApi`: these model one load, one command, or processes
and calls that end and are not started again.
Symmetry is used for processes, clients, directories and files, never in a run with a
liveness property.

### What the violated run shows

`dry_run_secrets`: the base URL, the path and the query are expanded before the preview of
a dry run returns, and the URL of a WebSocket too, so a `{secret.x}` in one of them is
resolved, by its provider if need be. "Dry-run must resolve NO secrets" says the comment
right above that return (`engine.go:191`), and "no secret resolution" the requirements
(`docs/PRD.md:205`). `DryRunStaysHome` says what does hold: nothing is sent, and no secret
of a header, a body, the params or the credential is resolved.

### Where code and documents disagree otherwise

Met while the models were written. The models have these behaviours of the code; where one
is outside a model this is said.

- `InstallCatalog` removes the old catalog under its final name. If that fails half way, or
  the process dies, a part of the old catalog stays installed, although "a failure never
  leaves a half-installed catalog" (`catalogstore.go:154`).
- `warnOrphanProfileBindings` looks a binding up among the selectors, where an ambiguous
  bare name is missing: a binding that was applied to the services of two catalogs is
  reported, although the warning is for "each profile binding whose service did not load"
  (`load.go:364`).
- `fetchPageNumber` appends a short last page and leaves the loop before it looks at the
  limit (`engine.go:473`, against `docs/PRD.md:103`).
- The `confirm:` of an `on_error:` step is not looked at: the fallback is sent without
  `--yes` (`pipeline.go:132`). The repository's README says the binary gates nothing
  "except a step explicitly marked `confirm:`, which aborts unless `--yes` clears it"
  (`README.md:316-318`), and the requirements "Aborts unless `--yes`" (`docs/PRD.md:160`).
  `Pipeline` sends such a fallback too, and `ConfirmGatesTheLoop` speaks of the steps of the
  loop alone.
- "Every installed-catalog service is ALWAYS addressable via its qualified selector —
  registered unconditionally" (`load.go:248-249`), and the load is "deterministic"
  (`load.go:246`). A local manifest named `a:x` takes the selector of the service `x` of
  catalog `a` (`load.go:234`); so does the only catalog with a manifest of that name, and
  then the order of a Go map decides what the bare `x` leads to (`load.go:334-338`).
- A binding under a qualified selector is applied to no manifest (`load.go:358`), and not
  reported either, since the selector is in the table: a silent drop, which the comment at
  `load.go:366-372` calls inconsistent. `OrphansAreReported` covers every other binding.
- A dial has neither a deadline nor a client timeout (`cli.go:351`, `jsonrpc_ws.go:99`): a
  server that accepts the connection and never answers the upgrade holds the command for
  ever. So does the program of the `op` provider (`secret/exec.go:110`).
  `InvocationEnds` excludes the two by name (`Waiting`).
- A `{secret.x}` in the token URL of a document is copied into the manifest
  (`openapi_scaffold.go:316-318`), where the gate takes it for a reference to a slot that
  the mapping does not declare: again "a bug" of the program for what stands in the
  document. One in a path passes the gate, and the command fails when it is called.
- Pipelines get an empty environment, so that `<PREFIX>_URL` does not win over the profile
  there (`pipeline.go:46`, against `README.md:97`).
- `isUnknownCommandError` looks for the words "unknown command" in the text of any error,
  so a server whose message has them turns its failure into one of usage (`cli.go:390`).
  `ExitClassTellsWhatHappened` excludes such a server by name.
- A load that overlaps an update may succeed with manifests of both revisions, since it
  reads by path: the properties of `CatalogLoad` are relative to `disturbed`. `Evict` may
  remove the file that another process has just renamed into place: a token request more,
  never a wrong token.
- A tool whose name is taken is dropped without a word, although `mcp` serves "every
  non-ignored command as an MCP tool" (`builtins.go:310`). `maxArgIndex` does not look at
  headers and fallbacks, so a command whose only `{arg.N}` is there always fails over MCP.
- A malformed call of a write verb leaves no audit line (`docs/PRD.md:207` has every
  mutation audited): nothing was sent, and `AnsweredWritesAreAudited` says so.
- The context of `cmdMCP` is never cancelled: the shutdown branch of `ServeHTTP` is
  unreachable, and a signal kills the calls in flight between their request and their
  audit line (`Kill`).
- Inferred commands with a parameter in the path (`{petId}`) find no variable of that name
  and always fail (`spec.go:322`). A document is cached before it is parsed, so garbage
  stays for a day. `InferredCommands` documents exit classes (`spec.go:58`), but
  `decodeService` only warns (`load.go:469`). Of two operations with one key the later
  one wins in an inference, and `catalog add --openapi` refuses both.
- An operation under an empty path gives a command without one, which the gate refuses:
  `catalog add --openapi` then reports "this is a … bug" (`openapi_scaffold.go:99`) for
  what is a fault of the document. Whether the parser lets such a document through is
  external; nothing between it and the gate looks. The proof of `GenerationIsSound` asked
  for this case, which the model had left out.
- "Endpoint references" are among what `Validate` looks at (`docs/PRD.md:174`), but for a command
  with `steps:` it returns before that (`validate.go:194`), while the engine resolves the endpoint
  of every command first (`engine.go:93`). A composed command that names an endpoint its service
  does not have passes `lint` and always fails. The proof of `LintedServicesKnowTheirParts` asked
  for this case; `LintedServicesDoNotMisfire` excludes it by name.
- The requirements have every `{secret.x}` declared (`docs/PRD.md:174`); `Validate` looks
  at the auth block of the service, and not at that of an endpoint, nor at the paths,
  queries, headers, bodies and params of commands.
- A rendering error is class "error" over MCP and "decode" on the command line.
  Self-update renames without a sync.

### Fairness

`CatalogStore` assumes weak fairness of each process's own steps: the operating system
runs it, and git and the file system answer or fail. Nothing is assumed about starting
commands, crashes or sources. `Pagination` assumes weak fairness of its next step: every
request is answered or ends with the timeout of the client. `Execute` assumes weak
fairness of the program (`Proceed` and `WsStep`, while not `Waiting`) and of time. The
server of a WebSocket owes nothing: it may push frames for ever, and need not answer the
handshake; nor need the `op` program end. `InvocationEnds` claims that an invocation ends or
waits for ever for one of these two, and holds because the read loop looks at its deadline
before each frame. The other modules state safety only.

## 4. What is proved

`CatalogStoreProofs`, from `RevAssumption`, `BundleAssumption` and `NameAssumption` (a
positive number of revisions; accepted bundles have manifests; sentinels are not values),
for any sets of processes, names, sources, files and directories. None of the properties
is inductive. The invariant `IInv` adds

- `Phases`: which command and target each program point belongs to;
- `Private`: unused directories are bare; visible, staged and opened directories are used;
  no staging directory is visible, opened by a removal, or shared;
- `Staged`: before the stat the staging directory holds nothing but the fetched bundle,
  and from the stat on exactly this bundle.

`Private` is needed because an install that shares its directory with anyone could publish
a directory while it changes, and `Staged` because only it says that what a rename
publishes is whole. The proof goes action by action; lemmas say once what `Finish`,
`Abort`, `Proceed` and `AfterClear` do. From `IInv` follow `TypeOK`,
`OneBundlePerCatalog`, the state part of `StagingIsPrivate`, and with one more lemma on the
effect of a step (`Effects`) the action properties, that a left-over is never touched
(`LeftOversStay`) among them, and the refinement of `CatalogLifecycle`: the status of
a name changes only by a tear, a vanish or an install.

The last part of the module is about `CatalogLoad`, whose steps are steps of the store or
of the reader, so that `IInv` is kept. `LoadInv` says of every catalog that was not
disturbed (`Reads`): it is still there if it was listed, what is left to read of it is
there, and what was read is what it holds. The three properties of a load follow.

`ServiceTableProofs`, from `SourceAssumption` and `OriginAssumption` (sources, sentinels and
origins are distinct), for any catalogs, files, names and profiles. `BaseInv` is what holds for
any names, and from it follow the types, `AcceptedCatalogsLoad` and `OrphansShow`. `IInv` is
`BaseInv` with `PlainNames` and the table, and what is inductive is `PlainNames => IInv`, since
the manifests do not change during a load. It says what the manifests read so far have made of the
table: `Registered` and `Rooted` for the qualified selectors, in both directions; `BareName` for
the bare ones, which are blank until settled, then as `ByCatalogs` has it, and as `ByLocal` from
the first local manifest of that name; `Order` for what each phase has done. The declared table
follows at the end of a load because `definers` is then exactly the set of catalogs that define a
name (`DoneFacts`); the listing and the allowlist follow because every selector that resolves
leads to a manifest of its own name (`ResolvedFacts`).

`EngineProofs` on `Pagination`, from `BoundAssumption` and `CursorAssumption`, for any cap,
page length, limit, list of items and set of cursors. `PageIInv` adds

- `Running`: while the loop runs, all that was served is held and below the limit, and
  there was one request per turn;
- `Fresh`: the next cursor or page number was not asked for yet (what was asked for is the
  cursors seen, or `1 .. page`), so that `requests = Cardinality(asked)` is kept;
- `Paged`: a proper service has sent `size * page` items or everything.

`CompleteResult` needs all three: a loop stops early only on a page that is short or has
no next cursor, and `Paged` says that such a page of a proper service is its last one.
The bound `requests <= MaxPages` is part of `EachPageOnce`.

`EngineProofs` on `Pipeline`, from `ProgramAssumption` and `NoVarAssumption` (steps are well-formed,
the absent variable is no variable), for programs of any length. `IInv` adds

- `Position`: what each program point knows of the step it is at (its confirmation is
  cleared, its guard is due, its main request has failed);
- `Behind`: every request belongs to a step behind the loop, or is the main request of
  the step whose fallback comes next;
- `Handled`: every failure so far has a fallback, while the command goes on;
- `Passed`: without `--yes` the loop has gone past a confirmed step only if it is guarded;
- `Sourced`: a variable that is set comes from a request that extracts it.

`TokenCacheProofs`, from `TimeAssumption` and `NoneAssumption`, for any processes, keys
and lifetimes. The one condition on numbers is `Timeout <= Margin`: the code has 30 seconds
and 60 seconds. `IInv` adds

- `Reckoned`: the expiry in a file is late by at most `Timeout`, because it is counted
  from the arrival of the reply and not from the moment the token was issued;
- `FilesKept` and `Held`: what a file, and a process at each of its program points, holds
  belongs to its key, and no reply in flight is overdue.

`CacheHitsAreHonoured` follows: an entry that is taken is at least `Margin` away from the
expiry in the file, hence not beyond the time its endpoint honours it until.

`SelfUpdateProofs`, from `BuildAssumption`, `DevAssumption`, `FlagAssumption` and
`NoneAssumption`, for any processes, releases and builds. `IInv` adds `DigestsServed` and
`BinariesServed` (what is served under a tag belongs to it, and its digest is published), `Known`
(a process behind the verification holds bytes equal to a published digest of the release it
resolved) and `Written` (a temporary file exists only where the code is about to rename or remove
it, is complete before the rename, and is gone once it has happened). `BinariesAreVerified` needs
`Known`: the comparison is of two downloads that may come from different builds, and only equality
with a digest that was published makes the bytes a whole build.

`ExecuteProofs`, from `CallsAssumption` and `MaxPagesAssumption` (an invocation has a
manifest of the Go types, a profile and arguments; there is a page at least), for any
manifests, profiles, environments, arguments, pages and servers. The invariant is built in
layers, most of which need earlier ones:

- `Where`: the request at hand is one of its command, its endpoint is one that exists, and
  a dry run is at most building the request of a plain command. Without it nothing is
  known of the templates that the later layers speak about;
- `WsWhere`: where the WebSocket is while the invocation is elsewhere, with `WsInv` for the
  connection itself: an accepted login comes before the method, and a frame with the id of
  a call holds the answer to that call. `LoginThenAnswer` is part of it;
- `Fetched`: a cached secret was fetched once or stood in the environment, and a fetched one
  is cached (`SecretsAreFetchedOnce`);
- `Resolved`: every secret of the request is in the cache or still on the agenda, and the
  agenda holds nothing but the templates of this request (`AgendaRefs`) and its credential
  (`CredRefs`). When the agenda is empty all is resolved: `NothingLeavesUnresolved`; and
  what a dry run has in its cache is of the agenda it was given: `DryRunStaysHome`;
- `Ended`: which failure stands behind which cause, and how many requests went before it.
  `ExitClassTellsWhatHappened` and, with `Where`, `LintedServicesDoNotMisfire` follow.

`Typed` (`TypeOK`) adds `Counted`, the ranges of the remaining variables. Two properties
were stated too strongly and had passed on the instance because no manifest of it told the
difference. `NothingLeavesUnresolved` asked for the secrets of every template in an auth
block, but `Apply` expands only those that the strategy carries (`Carried`; a validator does
not refuse the others). `LintedServicesDoNotMisfire` overlooked the endpoint of a composed
command (see above). Both are now as the code has them.

`McpServerProofs`, from `SetupsAssumption` (commands are of the Go type, and canonical names are
those of loaded services), for any services, flags, clients and inputs. `GuardInv` says that a
server that has started is guarded as its flags ask and that a call that was let in showed the
token; `AuditInv` says which record, of which call, stands behind each program point.
`CallsKeepTheirShape` is the type invariant that both use. `ToolsInv` says that a serving server
has the tools of `BuildServer` and that what was sent was sent for a call to one of them.
`ReadersOnlyRead` follows because a registered tool is one that some service offers, and what a
service offers is `Truthful`: a tool that presents itself as a read, or that a read-only server
keeps, is the verb `get` or a command whose method does not write, for whatever method and
transport. A composed command has no method and is a read to the server, whatever its steps send
(PRD, L4): it is exempt. `McpServerTypeCorrect` adds that a tool stands under its own name,
however the names of two services meet.

`OpenApiProofs`, from `TimeAssumption`, `HistoryAssumption` and `SourceAssumption`, for any
processes, documents, ages and timeouts. `FileIsDated` says that a copy carries a time at
most `Timeout` after its revision was last served; `Holds` says the same of what a process
has in hand at each program point. `InferenceIsFresh` adds the age at which a copy is
refused. `CommandsHaveASource` is proved by the definitions of the inference and its
filters. `MadeInv` says that what a process is about to install was generated from a
document with distinct keys; `GenerationIsSound` follows in two steps: the keys are a
bijection between the operations and the commands, so none is lost, and each part of the
generated manifest passes its check, the auth block by cases on the security scheme: unless
the token URL names another secret, a block names just the slots of its strategy
(`IsComplete`).

### What is only model-checked

`CommandsEnd`, `EndsWithinTheCap` and `InvocationEnds`: liveness under fairness is out of
reach of the prover. `EachPageOnce` proves the number of turns behind `EndsWithinTheCap`.
Every other property of a passing run is stated by a theorem. The sequences in the proofs
grow by `Append` and `\o` and shrink by `Tail`; where the code walks over a list the
model says what is true of its elements, because an induction over data is out of reach as
well. The type invariants of all modules are proved, most of them as a part of the
inductive invariant, and no run repeats them.

## 5. Plan

1. done: what several processes share (`CatalogStore`, `CatalogLifecycle`, `CatalogLoad`,
   `ServiceTable`, `TokenCache`, `SelfUpdate`, `OpenApi`), what one invocation does
   (`Pagination`, `Pipeline`, `Manifest`, `JsonRpcWs`, `Execute`) and what a server does
   (`McpServer`), with the proofs listed above.
2. an abstract specification of one command as its caller sees it (refused, nothing sent,
   perhaps sent, answered), which `Execute` implements, in the manner of
   `CatalogLifecycle`.
3. that `TokenCache` implements a table of tokens per key, each honoured when used.
4. the members that the gate selects from a source, by index and by file name; specs in
   local files.

## 6. What is not modelled, and why

JSON schema validation, the parsing of YAML, OpenAPI and jq, rendering, redaction,
scaffolding and the cobra command tree are functions of data without state. Listings
(`catalog list`, `info`) only read. Git, the file system, the network, token endpoints,
secret providers' binaries and the MCP SDK are external and modelled by what the code
expects of them. The TypeScript views, the chart and the image are outside the Go program.
