---------------------------- MODULE MCMcpServer -----------------------------
(***************************************************************************)
(* Small instances of McpServer: services whose tool names meet, commands  *)
(* with the name of a verb, ignored ones, pipelines and JSON-RPC.          *)
(***************************************************************************)
EXTENDS McpServer, TLC

MCCommand(method) == [BlankCommand EXCEPT !.method = method, !.path = <<Lit>>]
MCFlow ==
    [BlankCommand EXCEPT !.steps =
        <<[endpoint |-> "", path |-> <<Arg(0)>>, query |-> <<>>, headers |-> {}, body |-> <<>>,
           jqParses |-> TRUE, onError |-> <<>>, extract |-> {}, capture |-> {}]>>]

MCService(file, transport, commands) ==
    [file |-> file,
     manifest |-> [transport |-> transport, pagination |-> "", output |-> "", commands |-> commands]]

MCPlain == MCService("plain", "http",
    [list |-> [MCCommand("GET") EXCEPT !.headers = {Arg(0)}], get |-> MCCommand("POST"),
     post |-> [MCCommand("GET") EXCEPT !.mcpIgnore = TRUE]])
MCMeets == MCService("meets", "http", [b_get |-> MCCommand("DELETE"), flow |-> MCFlow])
MCRpc == MCService("rpc", "jsonrpc-ws",
    [list |-> [MCCommand("pool.query") EXCEPT !.params = <<Arg(1)>>], make |-> MCCommand("pool.create")])

MCTable(services, canonical) == [services |-> services, canonical |-> canonical]
\* A tool of a and a verb of a_b have one name.
MCUnderscore == MCTable((<<"a">> :> MCMeets) @@ (<<"a_b">> :> MCPlain), <<<<"a">>, <<"a_b">>>>)
\* A catalog's service, another one that is called like it, and an alias of that.
MCHyphen ==
    MCTable((<<"c", "a">> :> MCPlain) @@ (<<"c-a">> :> MCMeets) @@ (<<"c", "c-a">> :> MCMeets),
            <<<<"c-a">>, <<"c", "a">>>>)
MCRpcTable == MCTable(<<"rpc">> :> MCRpc, <<<<"rpc">>>>)
MCEmpty == MCTable(<<>>, <<>>)

MCFlag == [readOnly |-> FALSE, services |-> {}, http |-> "", tokenFile |-> "none",
           tokenEnv |-> FALSE, allowUnauthenticated |-> FALSE]
MCTables == [underscore |-> MCUnderscore, hyphen |-> MCHyphen, rpc |-> MCRpcTable, empty |-> MCEmpty]
MCStdio == {[MCFlag EXCEPT !.readOnly = r, !.services = s] :
               r \in BOOLEAN, s \in {{}, {<<"c", "c-a">>}}}
MCHttp == {[MCFlag EXCEPT !.http = h, !.tokenFile = f, !.tokenEnv = e,
                          !.allowUnauthenticated = u, !.readOnly = TRUE] :
              h \in {"", "loopback", "any", "malformed"},
              f \in {"none", "good", "empty", "missing"}, e \in BOOLEAN, u \in BOOLEAN}
MCSetups == [k \in ((DOMAIN MCTables) \X MCStdio) \cup ({"rpc"} \X MCHttp) |->
                [table |-> MCTables[k[1]], flags |-> k[2]]]

MCWord == [path |-> <<Lit>>, query |-> <<>>, extra |-> <<>>, method |-> "pool.create"]
MCInput == [parses |-> TRUE, dryRun |-> FALSE, word |-> MCWord]
MCInputs ==
    {MCInput, [MCInput EXCEPT !.parses = FALSE], [MCInput EXCEPT !.dryRun = TRUE],
     [MCInput EXCEPT !.word.path = <<>>, !.word.method = ""],
     [MCInput EXCEPT !.word.method = "core.ping"]}

MCSymmetry == Permutations(Clients)
=============================================================================
