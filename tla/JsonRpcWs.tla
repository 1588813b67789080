----------------------------- MODULE JsonRpcWs ------------------------------
(***************************************************************************)
(* One call over a WebSocket (internal/transport/jsonrpc_ws.go): dial,     *)
(* log in as frame id 1, send the method as frame id 2, and read frames    *)
(* until the one with the right id arrives or the loop deadline has        *)
(* passed.  The server is external: it pushes frames of its own, answers   *)
(* what it received once each, in any order, or not at all.                *)
(*                                                                         *)
(* Execute.tla composes this call with the rest of an invocation.          *)
(***************************************************************************)
EXTENDS Naturals, Sequences, FiniteSets

CONSTANT MaxInbox   \* bound: frames under way to the client

ASSUME MaxInboxAssumption == MaxInbox \in Nat

VARIABLES
    wpc,      \* "idle", "dial", then for each request "write", "check" and "read"; "closed"
    phase,    \* the request at hand: "login" or "method"
    login,    \* the command logs in first (not noauth)
    expired,  \* the deadline of the read loops has passed
    inbox,    \* frames under way to the client: a connection keeps their order
    got,      \* the ids that reached the server
    answered, \* history: what the server answered to each id, "none" so far
    wres,     \* how the call ended: "none", "ok" or a cause of failure
    result    \* the frame whose result the call returned, if any

wsVars == <<wpc, phase, login, expired, inbox, got, answered, wres, result>>

\* Frames as json.Unmarshal sees them: one without an id has id 0, one that does not
\* parse is skipped like one with another id.
Frames == [id : {0, 1, 2}, body : {"push", "garbled", "true", "false", "value", "error"}]

WsTypeOK ==
    /\ wpc \in {"idle", "dial", "write", "check", "read", "closed"}
    /\ phase \in {"login", "method"}
    /\ login \in BOOLEAN /\ expired \in BOOLEAN
    /\ inbox \in Seq(Frames)
    /\ got \subseteq {1, 2}
    /\ answered \in [{1, 2} -> {"none", "true", "false", "value", "error"}]
    /\ wres \in {"none", "ok", "network", "refused", "rpc"}
    /\ result \subseteq Frames

WsInit ==
    /\ wpc = "idle" /\ phase = "login" /\ login = FALSE /\ expired = FALSE /\ inbox = <<>> /\ got = {}
    /\ answered = [id \in {1, 2} |-> "none"] /\ wres = "none" /\ result = {}

-----------------------------------------------------------------------------
(* The client.                                                             *)

Id == IF phase = "login" THEN 1 ELSE 2
End(res) == wpc' = "closed" /\ wres' = res

\* The context has no deadline and the dial no timeout: how long the handshake takes, if it
\* ends at all, is up to the server.
Dial ==
    /\ wpc = "dial"
    /\ \/ wpc' = "write" /\ phase' = (IF login THEN "login" ELSE "method") /\ UNCHANGED wres
       \/ End("network") /\ UNCHANGED phase
    /\ UNCHANGED <<login, expired, inbox, got, answered, result>>

\* writeMessage, which has a timeout of its own; the deadline of the loop is not looked
\* at.  A write that fails may have been delivered.
Write ==
    /\ wpc = "write"
    /\ \/ got' = got \cup {Id} /\ wpc' = "check" /\ UNCHANGED wres
       \/ got' \in {got, got \cup {Id}} /\ End("network")
    /\ UNCHANGED <<phase, login, expired, inbox, answered, result>>

\* MUTANT of CheckDeadline: the loop has no deadline.
CheckNothing ==
    /\ wpc = "check"
    /\ wpc' = "read"
    /\ UNCHANGED <<phase, login, expired, inbox, got, answered, wres, result>>

\* The head of the loop of readResponse.
CheckDeadline ==
    /\ wpc = "check"
    /\ \/ expired /\ End("network")
       \/ ~expired /\ wpc' = "read" /\ UNCHANGED wres
    /\ UNCHANGED <<phase, login, expired, inbox, got, answered, result>>

\* MUTANT of Wanted: the first frame that parses is the answer.
WantedAny(frame) == frame.body # "garbled"

Wanted(frame) == frame.body # "garbled" /\ frame.id = Id

Skip ==
    /\ wpc = "read" /\ inbox # <<>>
    /\ ~Wanted(Head(inbox))
    /\ inbox' = Tail(inbox)
    /\ wpc' = "check"
    /\ UNCHANGED <<phase, login, expired, got, answered, wres, result>>

\* The result of the login must be the boolean true.
ReadLogin ==
    /\ wpc = "read" /\ phase = "login" /\ inbox # <<>>
    /\ Wanted(Head(inbox))
    /\ inbox' = Tail(inbox)
    /\ \/ /\ Head(inbox).body = "true"
          /\ wpc' = "write" /\ phase' = "method" /\ UNCHANGED wres
       \/ Head(inbox).body # "true" /\ End("refused") /\ UNCHANGED phase
    /\ UNCHANGED <<login, expired, got, answered, result>>

ReadResult ==
    /\ wpc = "read" /\ phase = "method" /\ inbox # <<>>
    /\ Wanted(Head(inbox))
    /\ inbox' = Tail(inbox)
    /\ \/ Head(inbox).body = "error" /\ End("rpc") /\ UNCHANGED result
       \/ Head(inbox).body # "error" /\ End("ok") /\ result' = {Head(inbox)}
    /\ UNCHANGED <<phase, login, expired, got, answered>>

\* The timeout of one read, or a connection that was lost.
ReadFails ==
    /\ wpc = "read"
    /\ End("network")
    /\ UNCHANGED <<phase, login, expired, inbox, got, answered, result>>

Client ==
    \/ Dial \/ Write \/ CheckDeadline \/ Skip
    \/ ReadLogin \/ ReadResult \/ ReadFails

-----------------------------------------------------------------------------
(* Time and the server.                                                    *)

Expire ==
    /\ wpc \notin {"idle", "dial"} /\ ~expired
    /\ expired' = TRUE
    /\ UNCHANGED <<wpc, phase, login, inbox, got, answered, wres, result>>

Deliver(frame) ==
    /\ wpc # "closed" /\ Len(inbox) < MaxInbox
    /\ inbox' = Append(inbox, frame)
    /\ UNCHANGED <<wpc, phase, login, expired, got, wres, result>>

\* An event nobody asked for, or a frame that is not a JSON-RPC response.
Push ==
    /\ wpc \notin {"idle", "dial"}
    /\ \E body \in {"push", "garbled"} : Deliver([id |-> 0, body |-> body])
    /\ UNCHANGED answered

Answer(id, bodies) ==
    /\ id \in got /\ answered[id] = "none"
    /\ \E body \in bodies :
          /\ Deliver([id |-> id, body |-> body])
          /\ answered' = [answered EXCEPT ![id] = body]

Server == Push \/ Answer(1, {"true", "false", "error"}) \/ Answer(2, {"value", "error"})

-----------------------------------------------------------------------------
(* What the call promises.                                                 *)

\* The method is put on the wire only after the server itself accepted the login with
\* true, whatever it pushed in between (DoJSONRPCWS, lines 131-143 and 165).
MethodOnlyAfterLogin == 2 \in got /\ login => answered[1] = "true"

\* What the call returns is the server's own answer to this method: never an event,
\* never the answer to the login, and never a result where the server said error.
AnswerIsTheMethods ==
    /\ wres = "ok" => result = {[id |-> 2, body |-> answered[2]]} /\ answered[2] = "value"
    /\ wres = "rpc" => answered[2] = "error"
    /\ wres = "refused" => answered[1] \in {"false", "error"}
=============================================================================
