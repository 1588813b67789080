----------------------------- MODULE MCExecute ------------------------------
(***************************************************************************)
(* Small instances of Execute: manifests that cover every transport, auth  *)
(* strategy and kind of template, manifests that Validate has to reject,   *)
(* profiles that bind them well or badly, and the calls made on them.      *)
(***************************************************************************)
EXTENDS Execute

MCNoAuth == [strategy |-> "none", header |-> "", value |-> <<>>, username |-> <<>>,
             password |-> <<>>, params |-> <<>>]
MCBearer == [MCNoAuth EXCEPT !.strategy = "bearer", !.value = <<Secret("a")>>]
MCBasic == [MCNoAuth EXCEPT !.strategy = "basic", !.username = <<Secret("b")>>,
                            !.password = <<Secret("a")>>]
MCOAuth == [MCBasic EXCEPT !.strategy = "oauth2-client-credentials", !.value = <<Lit>>]

MCSlot == [ref |-> "", env |-> "", idiom |-> "", fields |-> 0]

MCList == [BlankCommand EXCEPT !.method = "GET", !.path = <<Lit, Arg(0)>>,
                               !.query = <<Secret("b")>>, !.pagination = "cursor"]
MCMake == [BlankCommand EXCEPT !.method = "POST", !.path = <<Name("host")>>,
                               !.headers = {Secret("a"), Secret("b"), EnvVar("TZ")},
                               !.body = <<File>>, !.endpoint = "alt"]
MCStray == [BlankCommand EXCEPT !.method = "GET", !.path = <<Name("nobody")>>, !.noauth = TRUE,
                                !.body = <<Secret("zz")>>]
MCZz == [MCStray EXCEPT !.path = <<Secret("zz")>>]

MCStep == [endpoint |-> "", path |-> <<Lit>>, query |-> <<>>, headers |-> {Secret("b")},
           body |-> <<>>, jqParses |-> TRUE, onError |-> <<>>, extract |-> {}, capture |-> {}]
\* The second step uses what the first has found in its answer or, if that failed, what its
\* fallback has found in a header.
MCFlow == [BlankCommand EXCEPT !.steps =
    <<[MCStep EXCEPT !.extract = {"id", "port"},
                     !.onError = <<[MCStep EXCEPT !.endpoint = "alt", !.body = <<Secret("b")>>,
                                                  !.path = <<Name("port")>>, !.capture = {"id"}]>>],
      [MCStep EXCEPT !.path = <<Name("id")>>, !.query = <<Name("env")>>, !.headers = {},
                     !.body = <<File>>]>>]

MCHttp ==
    [name |-> "s", transport |-> "", base |-> <<>>, auth |-> MCBearer,
     secrets |-> [a |-> MCSlot, b |-> [MCSlot EXCEPT !.fields = 2]],
     endpoints |-> [alt |-> BlankEndpoint], vars |-> {"host"}, output |-> "", pagination |-> "",
     spec |-> "", include |-> {}, exclude |-> {}, unknownKeys |-> FALSE,
     commands |-> [list |-> MCList, make |-> MCMake, stray |-> MCStray, zz |-> MCZz, flow |-> MCFlow]]

MCWs ==
    [MCHttp EXCEPT
        !.transport = "jsonrpc-ws",
        !.auth = [MCNoAuth EXCEPT !.strategy = "ws-login", !.params = <<Secret("a")>>],
        !.commands = [list |-> [BlankCommand EXCEPT !.method = "pool.query", !.params = <<Secret("b")>>],
                      ping |-> [BlankCommand EXCEPT !.method = "core.ping", !.noauth = TRUE]]]

\* Accepted, with every strategy and with an auth block of the endpoint.
MCGood ==
    {MCHttp, [MCHttp EXCEPT !.auth = MCBasic], [MCHttp EXCEPT !.auth = MCOAuth],
     [MCHttp EXCEPT !.auth.strategy = "external-tool"],
     [MCHttp EXCEPT !.endpoints.alt.auth = <<MCNoAuth>>],
     [MCHttp EXCEPT !.secrets.a.idiom = "item-get"],
     \* a template that its strategy does not use, and a pipeline with an endpoint that is none
     [MCHttp EXCEPT !.auth.username = <<Secret("b")>>, !.commands.list.query = <<>>,
                    !.commands.flow.endpoint = "nowhere"]}

\* To be rejected, each for one fault.
MCBad ==
    {[MCHttp EXCEPT !.transport = "grpc"],
     [MCHttp EXCEPT !.auth.value = <<Secret("zz")>>],
     [MCHttp EXCEPT !.commands.make.endpoint = "nowhere"],
     [MCHttp EXCEPT !.commands.flow.steps[1].path = <<>>]}

MCBinding == [base |-> <<Lit>>, vars |-> {}, endpoints |-> [alt |-> <<Name("host")>>],
              secrets |-> [a |-> [ref |-> "op", env |-> ""], b |-> [ref |-> "op", env |-> ""]]]
MCProfiles ==
    {[s |-> MCBinding],
     [s |-> [MCBinding EXCEPT !.base = <<Secret("b")>>, !.secrets.a.ref = "pass",
                              !.secrets.b.env = "B"]]}
MCUnbound == [s |-> [MCBinding EXCEPT !.secrets.b.ref = ""]]

MCWord == [path |-> <<Lit, Arg(0)>>, query |-> <<>>, extra |-> <<Secret("a")>>, method |-> "pool.create"]

MCCall ==
    [manifest |-> MCHttp, profile |-> [s |-> MCBinding], word |-> "list", args |-> MCWord,
     known |-> TRUE, face |-> "cli", endpoint |-> "", dryRun |-> FALSE, raw |-> FALSE,
     nargs |-> 1, urlOverride |-> <<>>, env |-> {}, prefixed |-> {}, envOverride |-> FALSE,
     provider |-> "onepassword", serverSays |-> "plain"]

MCCalls ==
    \* every command of every manifest, under both profiles
    {[MCCall EXCEPT !.manifest = m, !.profile = p, !.word = w, !.dryRun = d, !.env = {"B"}] :
        m \in MCGood \cup MCBad, p \in MCProfiles, w \in {"list", "make", "zz", "flow"},
        d \in BOOLEAN}
    \cup
    \* words, arguments, flags and the environment
    {[MCCall EXCEPT !.word = w, !.nargs = n, !.face = f] :
        w \in {"list", "stray", "get", "post", "call", "bogus"}, n \in {0, 1}, f \in {"cli", "mcp"}}
    \cup
    {[MCCall EXCEPT !.word = w, !.endpoint = e, !.urlOverride = <<Secret("a")>>,
                    !.prefixed = {"b"}, !.envOverride = o, !.raw = TRUE] :
        w \in {"make", "flow"}, e \in {"", "alt", "nowhere"}, o \in BOOLEAN}
    \cup
    {[MCCall EXCEPT !.profile = MCUnbound], [MCCall EXCEPT !.known = FALSE],
     [MCCall EXCEPT !.manifest.secrets.b.idiom = "item-json", !.provider = "exec"],
     [MCCall EXCEPT !.provider = "file", !.serverSays = "unknown command"]}
    \cup
    \* over a WebSocket
    {[MCCall EXCEPT !.manifest = MCWs, !.word = w, !.face = f, !.serverSays = t, !.dryRun = d] :
        w \in {"list", "ping", "call", "get"}, f \in {"cli", "mcp"},
        t \in {"plain", "unknown command"}, d \in BOOLEAN}
=============================================================================
