---------------------------- MODULE ExecuteProofs ----------------------------
(***************************************************************************)
(* Theorems about Execute and the WebSocket call in it, for any services,  *)
(* profiles, invocations and environments, any number of pages and steps,  *)
(* and any server.                                                         *)
(***************************************************************************)
EXTENDS Execute, FiniteSetTheorems, TLAPS

-----------------------------------------------------------------------------
(* Sequences.                                                              *)

LEMMA NoIndex == DOMAIN <<>> = {}
OBVIOUS

LEMMA ElemsOfEmpty == Elems(<<>>) = {}
BY DEF Elems

LEMMA ElemsOfConcat ==
    ASSUME NEW S, NEW s \in Seq(S), NEW t \in Seq(S)
    PROVE  s \o t \in Seq(S) /\ Elems(s \o t) = Elems(s) \cup Elems(t)
<1>1. s \o t \in Seq(S) /\ DOMAIN (s \o t) = 1 .. Len(s) + Len(t)
  OBVIOUS
<1>2. DOMAIN s = 1 .. Len(s) /\ DOMAIN t = 1 .. Len(t) /\ Len(s) \in Nat /\ Len(t) \in Nat
  OBVIOUS
<1>3. \A k \in 1 .. Len(s) : (s \o t)[k] = s[k]
  OBVIOUS
<1>4. \A k \in 1 .. Len(t) : (s \o t)[Len(s) + k] = t[k]
  OBVIOUS
<1>5. ASSUME NEW x \in Elems(s \o t) PROVE x \in Elems(s) \cup Elems(t)
  <2>1. PICK k \in 1 .. Len(s) + Len(t) : x = (s \o t)[k]
    BY <1>1 DEF Elems
  <2>2. CASE k <= Len(s)
    BY <1>2, <1>3, <2>1, <2>2 DEF Elems
  <2>3. CASE k > Len(s)
    <3>1. k - Len(s) \in 1 .. Len(t) /\ k = Len(s) + (k - Len(s))
      BY <1>2, <2>1, <2>3
    <3>2. x = t[k - Len(s)]
      BY <1>4, <2>1, <3>1
    <3> QED BY <1>2, <3>1, <3>2 DEF Elems
  <2> QED BY <1>2, <2>1, <2>2, <2>3
<1>6. ASSUME NEW x \in Elems(s) PROVE x \in Elems(s \o t)
  BY <1>1, <1>2, <1>3 DEF Elems
<1>7. ASSUME NEW x \in Elems(t) PROVE x \in Elems(s \o t)
  <2>1. PICK k \in 1 .. Len(t) : x = t[k]
    BY <1>2 DEF Elems
  <2>2. Len(s) + k \in 1 .. Len(s) + Len(t)
    BY <1>2
  <2> QED BY <1>1, <1>4, <2>1, <2>2 DEF Elems
<1> QED BY <1>1, <1>5, <1>6, <1>7

LEMMA ElemsOfTail ==
    ASSUME NEW S, NEW s \in Seq(S), s # <<>>
    PROVE  /\ Head(s) \in S /\ Tail(s) \in Seq(S)
           /\ Elems(s) = {Head(s)} \cup Elems(Tail(s))
<1>1. /\ Len(s) \in Nat \ {0} /\ DOMAIN s = 1 .. Len(s) /\ Head(s) = s[1]
      /\ Tail(s) \in Seq(S) /\ DOMAIN Tail(s) = 1 .. Len(s) - 1
      /\ \A k \in 1 .. Len(s) - 1 : Tail(s)[k] = s[k + 1]
  OBVIOUS
<1>2. ASSUME NEW x \in Elems(s) PROVE x = Head(s) \/ x \in Elems(Tail(s))
  <2>1. PICK k \in 1 .. Len(s) : x = s[k]
    BY <1>1 DEF Elems
  <2>2. CASE k # 1
    <3>1. k - 1 \in 1 .. Len(s) - 1 /\ (k - 1) + 1 = k
      BY <1>1, <2>1, <2>2
    <3>2. Tail(s)[k - 1] = x
      BY <1>1, <2>1, <3>1
    <3> QED BY <1>1, <3>1, <3>2 DEF Elems
  <2> QED BY <1>1, <2>1, <2>2
<1>3. Head(s) \in Elems(s)
  BY <1>1 DEF Elems
<1>4. ASSUME NEW x \in Elems(Tail(s)) PROVE x \in Elems(s)
  <2>1. PICK k \in 1 .. Len(s) - 1 : x = Tail(s)[k]
    BY <1>1 DEF Elems
  <2>2. k + 1 \in 1 .. Len(s) /\ x = s[k + 1]
    BY <1>1, <2>1
  <2> QED BY <1>1, <2>2 DEF Elems
<1> QED BY <1>1, <1>2, <1>3, <1>4

LEMMA ElemsOfAppend ==
    ASSUME NEW S, NEW s \in Seq(S), NEW x \in S
    PROVE  Append(s, x) \in Seq(S) /\ Elems(Append(s, x)) = Elems(s) \cup {x}
<1>1. /\ Append(s, x) \in Seq(S) /\ DOMAIN Append(s, x) = 1 .. Len(s) + 1
      /\ Append(s, x)[Len(s) + 1] = x /\ \A k \in 1 .. Len(s) : Append(s, x)[k] = s[k]
      /\ DOMAIN s = 1 .. Len(s) /\ Len(s) \in Nat
  OBVIOUS
<1>2. ASSUME NEW y \in Elems(Append(s, x)) PROVE y \in Elems(s) \cup {x}
  BY <1>1 DEF Elems
<1>3. ASSUME NEW y \in Elems(s) PROVE y \in Elems(Append(s, x))
  BY <1>1 DEF Elems
<1>4. x \in Elems(Append(s, x))
  BY <1>1 DEF Elems
<1> QED BY <1>1, <1>2, <1>3, <1>4

-----------------------------------------------------------------------------
(* The call over a WebSocket.                                              *)

\* A frame with an id is the server's answer to it.
Genuine(frame) == frame.id # 0 => frame.body = answered[frame.id]

WsShape ==
    /\ WsTypeOK
    /\ \A frame \in Elems(inbox) : Genuine(frame)
    /\ answered[1] # "value" /\ answered[2] \notin {"true", "false"}
    /\ \A id \in {1, 2} : answered[id] # "none" => id \in got
    /\ wpc \in {"idle", "dial"} => got = {} /\ inbox = <<>> /\ phase = "login"
    /\ wpc = "closed" <=> wres # "none"

WsOrder ==
    /\ 2 \in got => phase = "method"
    /\ phase = "method" /\ login => answered[1] = "true"

WsInv == WsShape /\ WsOrder /\ AnswerIsTheMethods

LEMMA WsStarts == WsInit => WsInv /\ wpc = "idle"
<1> SUFFICES ASSUME WsInit PROVE WsInv /\ wpc = "idle"
  OBVIOUS
<1>1. WsTypeOK
  <2>1. login \in BOOLEAN /\ expired \in BOOLEAN
    BY Zenon DEF WsInit
  <2>2. answered \in [{1, 2} -> {"none", "true", "false", "value", "error"}]
    BY DEF WsInit
  <2>3. inbox \in Seq(Frames) /\ result \subseteq Frames /\ got \subseteq {1, 2}
    BY DEF WsInit
  <2> QED BY <2>1, <2>2, <2>3 DEF WsInit, WsTypeOK
<1>2. WsShape
  <2>1. Elems(inbox) = {}
    BY ElemsOfEmpty DEF WsInit
  <2> QED BY <1>1, <2>1 DEF WsInit, WsShape
<1>3. WsOrder /\ AnswerIsTheMethods
  BY DEF WsInit, WsOrder, AnswerIsTheMethods
<1> QED BY <1>2, <1>3 DEF WsInv, WsInit

\* The frame at the head of the inbox, if it is the one that is waited for.
LEMMA HeadFrame ==
    ASSUME WsInv, inbox # <<>>
    PROVE  /\ Head(inbox) \in Frames /\ Tail(inbox) \in Seq(Frames)
           /\ Genuine(Head(inbox)) /\ \A frame \in Elems(Tail(inbox)) : Genuine(frame)
BY ElemsOfTail DEF WsInv, WsShape, WsTypeOK

LEMMA ClientKeeps == ASSUME WsInv, Client PROVE WsInv' /\ wpc \notin {"idle", "closed"} /\ wpc' # "idle"
<1> USE DEF WsInv, WsShape, WsTypeOK, WsOrder, AnswerIsTheMethods, End, Genuine
<1>1. CASE Dial
  <2>1. /\ wpc = "dial" /\ UNCHANGED <<login, expired, inbox, got, answered, result>>
        /\ \/ wpc' = "write" /\ UNCHANGED wres
              /\ \/ login /\ phase' = "login"
                 \/ ~login /\ phase' = "method"
           \/ wpc' = "closed" /\ wres' = "network" /\ UNCHANGED phase
    BY <1>1 DEF Dial
  <2> QED BY <2>1
<1>2. CASE Write
  <2>1. Id = IF phase = "login" THEN 1 ELSE 2
    BY DEF Id
  <2>2. /\ wpc = "write" /\ wres = "none" /\ UNCHANGED <<phase, login, expired, inbox, answered, result>>
        /\ got' \in {got, got \cup {Id}} /\ got \subseteq got'
        /\ \/ wpc' = "check" /\ wres' = "none"
           \/ wpc' = "closed" /\ wres' = "network"
    BY <1>2 DEF Write
  <2>3. got' \subseteq {1, 2} /\ (2 \in got' => phase = "method")
    BY <2>1, <2>2
  <2> QED BY <2>2, <2>3
<1>3. CASE CheckDeadline
  BY <1>3 DEF CheckDeadline
<1>4. CASE Skip
  BY <1>4, HeadFrame DEF Skip
<1>5. CASE ReadLogin
  <2>1. Head(inbox).id = 1 /\ Head(inbox).body = answered[1]
    BY <1>5, HeadFrame DEF ReadLogin, Wanted, Id
  <2> QED BY <1>5, <2>1, HeadFrame DEF ReadLogin, Frames
<1>6. CASE ReadResult
  <2>1. Head(inbox).id = 2 /\ Head(inbox).body = answered[2]
    BY <1>6, HeadFrame DEF ReadResult, Wanted, Id
  <2> QED BY <1>6, <2>1, HeadFrame DEF ReadResult, Frames
<1>7. CASE ReadFails
  BY <1>7 DEF ReadFails
<1> QED BY <1>1, <1>2, <1>3, <1>4, <1>5, <1>6, <1>7 DEF Client

LEMMA DeliverKeeps ==
    ASSUME WsInv, NEW frame \in Frames, Deliver(frame)
    PROVE  /\ inbox' \in Seq(Frames) /\ Elems(inbox') = Elems(inbox) \cup {frame}
           /\ wpc # "closed" /\ UNCHANGED <<wpc, phase, login, expired, got, wres, result>>
BY ElemsOfAppend DEF WsInv, WsShape, WsTypeOK, Deliver

LEMMA AnswerKeeps ==
    ASSUME WsInv, NEW id \in {1, 2}, NEW bodies \in SUBSET {"true", "false", "value", "error"},
           id = 1 => "value" \notin bodies, id = 2 => bodies \cap {"true", "false"} = {},
           Answer(id, bodies)
    PROVE  WsInv' /\ wpc' = wpc /\ wpc \notin {"idle", "closed"}
<1>1. PICK body \in bodies : /\ Deliver([id |-> id, body |-> body])
                             /\ answered' = [answered EXCEPT ![id] = body]
  BY DEF Answer
<1>2. id \in got /\ answered[id] = "none"
  BY DEF Answer
<1>3. [id |-> id, body |-> body] \in Frames
  BY DEF Frames
<1>4. inbox \in Seq(Frames) /\ answered \in [{1, 2} -> {"none", "true", "false", "value", "error"}]
  BY DEF WsInv, WsShape, WsTypeOK
<1>5. ASSUME NEW frame \in Elems(inbox) PROVE frame \in Frames /\ frame.id # id
  <2>1. frame \in Frames
    BY <1>4 DEF Elems
  <2>2. Genuine(frame)
    BY DEF WsInv, WsShape
  <2> QED BY <1>2, <2>1, <2>2 DEF Genuine, Frames
<1>6. \A frame \in Elems(inbox') : Genuine(frame)'
  <2>1. ASSUME NEW frame \in Elems(inbox) PROVE Genuine(frame)'
    <3>1. Genuine(frame) /\ frame.id \in {0, 1, 2} \ {id}
      BY <1>5 DEF WsInv, WsShape, Frames
    <3> QED BY <1>1, <1>4, <3>1 DEF Genuine
  <2>2. Genuine([id |-> id, body |-> body])'
    BY <1>1, <1>4 DEF Genuine
  <2> QED BY <1>1, <1>3, <2>1, <2>2, DeliverKeeps
<1>7. /\ answered' \in [{1, 2} -> {"none", "true", "false", "value", "error"}]
      /\ answered'[1] # "value" /\ answered'[2] \notin {"true", "false"}
      /\ \A k \in {1, 2} : answered'[k] # "none" => k \in got
      /\ \A k \in {1, 2} : answered[k] # "none" => answered'[k] = answered[k]
  BY <1>1, <1>2, <1>4 DEF WsInv, WsShape
<1>8. wpc \notin {"idle", "dial", "closed"}
  BY <1>1, <1>2, DeliverKeeps, <1>3 DEF WsInv, WsShape
<1>9. /\ inbox' \in Seq(Frames) /\ wpc # "closed"
      /\ UNCHANGED <<wpc, phase, login, expired, got, wres, result>>
  BY <1>1, <1>3, DeliverKeeps
<1>10. WsShape'
  BY <1>6, <1>7, <1>8, <1>9 DEF WsInv, WsShape, WsTypeOK
<1>11. WsOrder' /\ AnswerIsTheMethods'
  BY <1>7, <1>9 DEF WsInv, WsShape, WsTypeOK, WsOrder, AnswerIsTheMethods
<1> QED BY <1>8, <1>9, <1>10, <1>11 DEF WsInv

LEMMA PushKeeps == ASSUME WsInv, Push PROVE WsInv' /\ wpc' = wpc /\ wpc \notin {"idle", "closed"}
<1>1. PICK body \in {"push", "garbled"} : Deliver([id |-> 0, body |-> body])
  BY DEF Push
<1>2. [id |-> 0, body |-> body] \in Frames
  BY DEF Frames
<1>3. /\ inbox' \in Seq(Frames) /\ wpc \notin {"idle", "dial", "closed"}
      /\ UNCHANGED <<wpc, phase, login, expired, got, answered, wres, result>>
  BY <1>1, <1>2, DeliverKeeps DEF Push
<1>4. \A frame \in Elems(inbox') : Genuine(frame)'
  BY <1>1, <1>2, <1>3, DeliverKeeps DEF WsInv, WsShape, Genuine
<1> QED BY <1>3, <1>4 DEF WsInv, WsShape, WsTypeOK, WsOrder, AnswerIsTheMethods

LEMMA ServerKeeps ==
    ASSUME WsInv, Server PROVE WsInv' /\ wpc' = wpc /\ wpc \notin {"idle", "closed"}
<1>1. CASE Push
  BY <1>1, PushKeeps
<1>2. CASE Answer(1, {"true", "false", "error"})
  BY <1>2, AnswerKeeps
<1>3. CASE Answer(2, {"value", "error"})
  BY <1>3, AnswerKeeps
<1> QED BY <1>1, <1>2, <1>3 DEF Server

LEMMA ExpireKeeps ==
    ASSUME WsInv, Expire PROVE WsInv' /\ wpc' = wpc /\ wpc # "idle"
BY DEF Expire, WsInv, WsShape, WsTypeOK, WsOrder, AnswerIsTheMethods, Genuine

LEMMA WsStands ==
    ASSUME WsInv, UNCHANGED wsVars PROVE WsInv' /\ wpc' = wpc
BY DEF wsVars, WsInv, WsShape, WsTypeOK, WsOrder, AnswerIsTheMethods, Genuine

-----------------------------------------------------------------------------
(* Services as they are loaded.                                            *)

\* What loading makes of a manifest: the types are kept, and what the profile adds takes
\* nothing away.
LEMMA LoadKeeps ==
    ASSUME NEW s, IsManifest(s), NEW b, IsBinding(b),
           NEW d, d = ApplyProfile(MergeDefaults(s), b)
    PROVE  /\ d.base \in Templates /\ d.auth = s.auth /\ d.transport = TransportOf(s.transport)
           /\ d.commands = s.commands /\ d.pagination = s.pagination
           /\ DOMAIN s.endpoints \subseteq DOMAIN d.endpoints
           /\ \A e \in DOMAIN d.endpoints : d.endpoints[e] \in Endpoints
           /\ DOMAIN s.secrets \subseteq DOMAIN d.secrets
<1> DEFINE m == MergeDefaults(s)
<1>1. /\ DOMAIN m = ManifestFields /\ m.transport = TransportOf(s.transport)
      /\ m.base = s.base /\ m.auth = s.auth /\ m.commands = s.commands
      /\ m.pagination = s.pagination
      /\ m.endpoints = s.endpoints /\ m.secrets = s.secrets
  BY DEF IsManifest, MergeDefaults, ManifestFields
<1> HIDE DEF m
<1>2. /\ d.base = IF b.base = <<>> THEN m.base ELSE b.base
      /\ d.auth = m.auth /\ d.commands = m.commands /\ d.pagination = m.pagination
      /\ d.transport = m.transport
      /\ DOMAIN d.endpoints = DOMAIN m.endpoints \cup DOMAIN b.endpoints
      /\ DOMAIN d.secrets = DOMAIN m.secrets \cup DOMAIN b.secrets
      /\ \A e \in DOMAIN m.endpoints \cup DOMAIN b.endpoints :
            d.endpoints[e] = LET old == IF e \in DOMAIN m.endpoints THEN m.endpoints[e] ELSE BlankEndpoint IN
                             IF e \in DOMAIN b.endpoints /\ b.endpoints[e] # <<>>
                             THEN [old EXCEPT !.base = b.endpoints[e]] ELSE old
  <2>1. d = ApplyProfile(m, b)
    BY DEF m
  <2> DEFINE base == IF b.base = <<>> THEN m.base ELSE b.base
             names == m.vars \cup b.vars
             eps == [e \in DOMAIN m.endpoints \cup DOMAIN b.endpoints |->
                       LET old == IF e \in DOMAIN m.endpoints THEN m.endpoints[e] ELSE BlankEndpoint IN
                       IF e \in DOMAIN b.endpoints /\ b.endpoints[e] # <<>>
                       THEN [old EXCEPT !.base = b.endpoints[e]] ELSE old]
             slots == [x \in DOMAIN m.secrets \cup DOMAIN b.secrets |->
                         LET old == IF x \in DOMAIN m.secrets THEN m.secrets[x] ELSE BlankSecret IN
                         IF x \notin DOMAIN b.secrets THEN old ELSE
                         [old EXCEPT
                             !.ref = IF b.secrets[x].ref = "" THEN @ ELSE b.secrets[x].ref,
                             !.env = IF b.secrets[x].env = "" THEN @ ELSE b.secrets[x].env]]
  <2>2. d = [m EXCEPT !.base = base, !.vars = names, !.endpoints = eps, !.secrets = slots]
    BY <2>1, Zenon DEF ApplyProfile
  <2>3. /\ DOMAIN eps = DOMAIN m.endpoints \cup DOMAIN b.endpoints
        /\ DOMAIN slots = DOMAIN m.secrets \cup DOMAIN b.secrets
    OBVIOUS
  <2>4. d.endpoints = eps /\ d.secrets = slots /\ d.base = base /\ d.auth = m.auth
        /\ d.commands = m.commands /\ d.pagination = m.pagination /\ d.transport = m.transport
       
    <3> HIDE DEF eps, slots, base, names
    <3> QED BY <1>1, <2>2 DEF ManifestFields
  <2> QED BY <2>3, <2>4, Zenon
<1>3. BlankEndpoint \in Endpoints
  BY DEF BlankEndpoint, Endpoints, Templates
<1>4. \A old \in Endpoints, t \in Templates : [old EXCEPT !.base = t] \in Endpoints
  BY DEF Endpoints
<1>5. ASSUME NEW e \in DOMAIN d.endpoints PROVE d.endpoints[e] \in Endpoints
  <2> DEFINE old == IF e \in DOMAIN m.endpoints THEN m.endpoints[e] ELSE BlankEndpoint
  <2>1. old \in Endpoints
    BY <1>1, <1>3 DEF IsManifest
  <2>2. d.endpoints[e] = IF e \in DOMAIN b.endpoints /\ b.endpoints[e] # <<>>
                         THEN [old EXCEPT !.base = b.endpoints[e]] ELSE old
    BY <1>2
  <2> HIDE DEF old
  <2> QED BY <1>4, <2>1, <2>2 DEF IsBinding
<1>6. d.base \in Templates
  BY <1>1, <1>2 DEF IsManifest, IsBinding
<1> QED BY <1>1, <1>2, <1>5, <1>6

\* The service of an invocation.
LEMMA Loaded ==
    ASSUME call \in Calls, Valid(call.manifest)
    PROVE  /\ svc.base \in Templates /\ svc.auth = call.manifest.auth /\ svc.auth \in AuthBlocks
           /\ svc.transport \in Transports
           /\ svc.commands = call.manifest.commands
           /\ DOMAIN call.manifest.endpoints \subseteq DOMAIN svc.endpoints
           /\ \A e \in DOMAIN svc.endpoints : svc.endpoints[e] \in Endpoints
           /\ DOMAIN call.manifest.secrets \subseteq DOMAIN svc.secrets
<1> DEFINE s == call.manifest
           d == MergeDefaults(s)
<1>1. IsManifest(s) /\ \A name \in DOMAIN call.profile : IsBinding(call.profile[name])
  BY CallsAssumption DEF IsInvocation
<1>2. /\ d.base = s.base /\ d.auth = s.auth /\ d.commands = s.commands
      /\ d.transport = TransportOf(s.transport) /\ d.endpoints = s.endpoints /\ d.secrets = s.secrets
      /\ d.name = s.name
  BY <1>1 DEF IsManifest, MergeDefaults, ManifestFields
<1>3. TransportOf(s.transport) \in Transports
  BY DEF Valid
<1>4. CASE s.name \in DOMAIN call.profile
  <2> DEFINE b == call.profile[s.name]
  <2>1. svc = ApplyProfile(d, b)
    BY <1>4 DEF svc, Finalize
  <2>2. IsBinding(b)
    BY <1>1, <1>4
  <2> HIDE DEF b
  <2> QED BY <1>1, <1>3, <2>1, <2>2, LoadKeeps DEF IsManifest
<1>5. CASE s.name \notin DOMAIN call.profile
  <2>1. svc = d
    BY <1>5 DEF svc, Finalize
  <2> HIDE DEF d
  <2> QED BY <1>1, <1>2, <1>3, <2>1 DEF IsManifest
<1> QED BY <1>4, <1>5

-----------------------------------------------------------------------------
(* The inductive invariant, in parts.                                      *)

\* An endpoint that resolveEndpoint finds.
Reach(e) == e = "" \/ e \in DOMAIN svc.endpoints

Sound(st) == Reach(st.endpoint) /\ \A f \in DOMAIN st.onError : Reach(st.onError[f].endpoint)

CmdSound ==
    /\ IsCommand(cmd)
    /\ cmd.steps = <<>> => Reach(cmd.endpoint)
    /\ \A k \in DOMAIN cmd.steps : Sound(cmd.steps[k])

\* The request k, r exists, and its endpoint does.
Runs(k, r) ==
    /\ k \in 0 .. Len(cmd.steps)
    /\ r = "main" \/ (r = "fallback" /\ k # 0 /\ cmd.steps[k].onError # <<>>)
    /\ k = 0 => cmd.steps = <<>> /\ Reach(EndpointName)

Labels == {"lookup", "begin", "build", "page", "auth", "send", "ws", "reply", "done"}
Working == Labels \ {"lookup", "begin", "done"}
Stages == {"base", "path", "query", "header", "body", "login", "params", "auth"}
Items == [stage : Stages, token : Tokens]

\* Where an invocation is: the request at hand is one of its command, and a dry run gets
\* no further than building the request of a plain command.
Where ==
    /\ call \in Calls /\ Valid(call.manifest)
    /\ CmdSound
    /\ pc \in Labels /\ step \in Nat /\ role \in {"main", "fallback"}
    /\ pc \in Working => Runs(step, role)
    /\ pc \in {"lookup", "begin"} => step = 0 /\ role = "main"
    /\ pc = "lookup" => cmd = BlankCommand
    /\ agenda \in Seq(Items) /\ (pc \notin {"build", "auth"} => agenda = <<>>)
    /\ pc \in {"page", "auth", "send"} => ~IsWs(step)
    /\ pc = "ws" => IsWs(step)
    /\ pc \in Working /\ call.dryRun => pc = "build" /\ step = 0

\* Where the call over a WebSocket is, if the invocation makes one.
WsWhere ==
    /\ WsInv
    /\ pc \in {"lookup", "begin", "build", "page", "auth", "send"} => wpc = "idle"
    /\ pc = "ws" => wpc # "idle"
    /\ wpc # "idle" => ~call.dryRun
    /\ pc = "reply" => wpc = "idle" \/ wres = "ok"

\* What the resolver holds is what was delivered or stood in the environment.
Fetched ==
    /\ cache \subseteq DOMAIN svc.secrets
    /\ fetches \in [DOMAIN svc.secrets -> {0, 1}]
    /\ \A x \in DOMAIN svc.secrets :
          /\ fetches[x] = 1 => x \in cache
          /\ x \in cache => fetches[x] = 1 \/ InEnv(x)

\* The secrets an agenda has still to resolve, and those of the templates behind it.
Owed(ag) == {i.token.name : i \in {j \in Elems(ag) : j.token.kind = "secret"}}
HeaderRefs(h) == {t.name : t \in {u \in h : u.kind = "secret"}}

AgendaRefs(k, r) ==
    LET q == RequestOf(k, r) IN
    SecretRefs(Base(k, r)) \cup
    IF IsWs(k)
    THEN IF call.dryRun THEN {}
         ELSE SecretRefs(q.params)
                \cup IF q.noauth THEN {} ELSE SecretRefs(AuthOf(k, r).params)
    ELSE SecretRefs(q.path) \cup SecretRefs(q.query) \cup
         IF call.dryRun THEN {} ELSE HeaderRefs(q.headers) \cup SecretRefs(q.body)

CredRefs(k, r) ==
    IF k = 0 /\ cmd.noauth THEN {} ELSE SecretRefs(CredentialOf(AuthOf(k, r)))

\* An item that belongs to a credential stands for a template of the auth block.
Rightful(i, a) ==
    /\ i.stage = "login" => i.token \in Elems(a.params)
    /\ i.stage = "auth" => i.token \in Elems(CredentialOf(a))

\* Whatever has been worked off is in the cache.
Resolved ==
    /\ pc \in {"build", "auth"} =>
          \A i \in Elems(agenda) : Rightful(i, AuthOf(step, role))
    /\ pc = "build" => /\ Owed(agenda) \subseteq AgendaRefs(step, role)
                       /\ AgendaRefs(step, role) \subseteq cache \cup Owed(agenda)
    /\ pc \in {"page", "auth", "send", "ws"} => AgendaRefs(step, role) \subseteq cache
    /\ pc = "auth" => /\ Owed(agenda) \subseteq CredRefs(step, role)
                      /\ CredRefs(step, role) \subseteq cache \cup Owed(agenda)
    /\ pc = "send" => CredRefs(step, role) \subseteq cache
    /\ call.dryRun => sent = 0
    /\ call.dryRun /\ cache # {} => cmd.steps = <<>> /\ cache \subseteq AgendaRefs(0, "main")
    /\ pc \in {"lookup", "begin"} => cache = {}

\* How the end follows from what went before.  For a plain command, a request that goes
\* wrong is the last one, and later pages find the credential in the cache.
Ended ==
    /\ sent \in Nat
    /\ pc # "done" => cause = "none"
    /\ pc = "done" => class = IF cause = "none" THEN "ok" ELSE Reported(cause)
    /\ cause = "status" => failed = "status"
    /\ cause = "network" => failed = "network" \/ wres = "network"
    /\ cause = "rpc" => wres = "rpc"
    /\ cause # "transport"
    /\ cause = "endpoint" => call.endpoint # "" \/ cmd.steps # <<>>
    /\ pc \in {"lookup", "begin"} => sent = 0 /\ failed = "none"
    /\ cmd.steps = <<>> =>
          /\ failed # "none" => pc = "done" /\ cause = failed
          /\ pc = "build" => sent = 0
          /\ pc = "ws" => sent = 0
          /\ pc \in Working /\ sent > 0 => CredRefs(step, role) \subseteq cache
          /\ pc = "reply" => sent > 0 \/ wres = "ok"
          /\ pc = "done" /\ wres \notin {"none", "ok"} => cause = wres
          /\ cause \in {"usage", "incomplete", "config"} => sent = 0 /\ got = {}
          /\ pc = "done" /\ cause = "none" => call.dryRun \/ sent > 0 \/ wres = "ok"

-----------------------------------------------------------------------------
(* The request at hand and the agenda it is built from.                    *)

LEMMA RequestTyped ==
    ASSUME call \in Calls, Valid(call.manifest), CmdSound, NEW k, NEW r, Runs(k, r)
    PROVE  /\ RequestOf(k, r).path \in Templates /\ RequestOf(k, r).query \in Templates
           /\ RequestOf(k, r).body \in Templates /\ RequestOf(k, r).headers \in HeaderSets
           /\ k = 0 => RequestOf(k, r) = cmd /\ cmd.params \in Templates /\ cmd.noauth \in BOOLEAN
           /\ k # 0 => RequestOf(k, r).extract \cup RequestOf(k, r).capture \subseteq STRING
           /\ Base(k, r) \in Templates /\ AuthOf(k, r) \in AuthBlocks
           /\ TargetOf(k, r).auth = <<>> => AuthOf(k, r) = call.manifest.auth
<1>1. IsCommand(cmd) /\ cmd.steps \in Seq(Steps) /\ cmd.noauth \in BOOLEAN
      /\ cmd.params \in Templates
  BY DEF CmdSound, IsCommand
<1> DEFINE q == RequestOf(k, r)
<1>2. /\ q.path \in Templates /\ q.query \in Templates
      /\ q.body \in Templates /\ q.headers \in HeaderSets
      /\ k # 0 => q.extract \cup q.capture \subseteq STRING
      /\ \E name : Reach(name) /\ TargetOf(k, r) = Target(name)
  <2>1. CASE k = 0
    BY <1>1, <2>1 DEF IsCommand, RequestOf, Runs, TargetOf
  <2>2. CASE k # 0
    <3>1. k \in DOMAIN cmd.steps /\ cmd.steps[k] \in Steps /\ Sound(cmd.steps[k])
      BY <1>1, <2>2 DEF Runs, CmdSound
    <3>2. cmd.steps[k].onError \in Seq(StepsWith({<<>>}))
      BY <3>1 DEF Steps, StepsWith
    <3>3. CASE r = "main"
      <4>1. q = cmd.steps[k]
        BY <2>2, <3>3 DEF RequestOf
      <4> QED BY <2>2, <3>1, <4>1 DEF StepsWith, Steps, Sound, TargetOf
    <3>4. CASE r # "main"
      <4>1. cmd.steps[k].onError # <<>> /\ q = cmd.steps[k].onError[1]
        BY <2>2, <3>4 DEF Runs, RequestOf
      <4>2. 1 \in DOMAIN cmd.steps[k].onError /\ q \in StepsWith({<<>>})
        BY <3>2, <4>1
      <4> QED BY <2>2, <3>1, <4>1, <4>2 DEF StepsWith, Sound, TargetOf
    <3> QED BY <3>3, <3>4
  <2> QED BY <2>1, <2>2
<1>3. PICK name : Reach(name) /\ TargetOf(k, r) = Target(name)
  BY <1>2
<1>4. TargetOf(k, r).base \in Templates /\ TargetOf(k, r).auth \in Seq(AuthBlocks)
  <2>1. /\ \A e \in DOMAIN svc.endpoints : svc.endpoints[e] \in Endpoints
        /\ svc.base \in Templates
    BY Loaded
  <2>2. Target(name) \in Endpoints
    <3>1. CASE name = ""
      <4>1. <<>> \in Seq(AuthBlocks)
        OBVIOUS
      <4>2. Target(name) = [base |-> svc.base, auth |-> <<>>]
        BY <3>1 DEF Target
      <4> QED BY <2>1, <4>1, <4>2 DEF Endpoints
    <3>2. CASE name # ""
      BY <1>3, <2>1, <3>2 DEF Target, Reach
    <3> QED BY <3>1, <3>2
  <2> QED BY <1>3, <2>2 DEF Endpoints
<1>5. AuthOf(k, r) \in AuthBlocks
      /\ (TargetOf(k, r).auth = <<>> => AuthOf(k, r) = call.manifest.auth)
  BY <1>4, Loaded DEF AuthOf
<1>6. call.urlOverride \in Templates
  BY CallsAssumption DEF IsInvocation
<1>7. Base(k, r) \in Templates
  BY <1>4, <1>6 DEF Base
<1>8. k = 0 => q = cmd
  BY DEF RequestOf
<1> QED BY <1>1, <1>2, <1>5, <1>7, <1>8

\* The items of one template.
LEMMA AtItems ==
    ASSUME NEW tmpl \in Templates, NEW stage \in Stages
    PROVE  /\ At(stage, tmpl) \in Seq(Items) /\ Owed(At(stage, tmpl)) = SecretRefs(tmpl)
           /\ \A i \in Elems(At(stage, tmpl)) : i.stage = stage /\ i.token \in Elems(tmpl)
<1>1. tmpl \in [1 .. Len(tmpl) -> Tokens] /\ Len(tmpl) \in Nat
  BY DEF Templates
<1>2. At(stage, tmpl) = [n \in 1 .. Len(tmpl) |-> [stage |-> stage, token |-> tmpl[n]]]
  BY <1>1 DEF At
<1>3. At(stage, tmpl) \in [1 .. Len(tmpl) -> Items]
  BY <1>1, <1>2 DEF Items
<1>4. Elems(At(stage, tmpl)) = {[stage |-> stage, token |-> t] : t \in Elems(tmpl)}
  BY <1>1, <1>2 DEF Elems
<1>5. Owed(At(stage, tmpl)) = SecretRefs(tmpl)
  <2>1. \A i \in Elems(At(stage, tmpl)) : i.token \in Elems(tmpl)
    BY <1>4
  <2>2. \A t \in Elems(tmpl) : \E i \in Elems(At(stage, tmpl)) : i.token = t
    <3> SUFFICES ASSUME NEW t \in Elems(tmpl)
                 PROVE  \E i \in Elems(At(stage, tmpl)) : i.token = t
      OBVIOUS
    <3>1. [stage |-> stage, token |-> t] \in Elems(At(stage, tmpl))
      BY <1>4
    <3> QED BY <3>1
  <2> QED BY <2>1, <2>2, Zenon DEF Owed, SecretRefs
<1> QED BY <1>1, <1>3, <1>4, <1>5

LEMMA OwedConcat ==
    ASSUME NEW f \in Seq(Items), NEW g \in Seq(Items)
    PROVE  /\ f \o g \in Seq(Items) /\ Owed(f \o g) = Owed(f) \cup Owed(g)
           /\ Elems(f \o g) = Elems(f) \cup Elems(g)
BY ElemsOfConcat DEF Owed

LEMMA OwedTail ==
    ASSUME NEW ag \in Seq(Items), ag # <<>>
    PROVE  /\ Head(ag) \in Items /\ Tail(ag) \in Seq(Items)
           /\ Elems(ag) = {Head(ag)} \cup Elems(Tail(ag))
           /\ Owed(ag) = Owed(Tail(ag)) \cup
                IF Head(ag).token.kind = "secret" THEN {Head(ag).token.name} ELSE {}
<1>1. /\ Head(ag) \in Items /\ Tail(ag) \in Seq(Items)
      /\ Elems(ag) = {Head(ag)} \cup Elems(Tail(ag))
  BY ElemsOfTail
<1> QED BY <1>1 DEF Owed

LEMMA OwedEmpty == Owed(<<>>) = {} /\ <<>> \in Seq(Items)
BY ElemsOfEmpty DEF Owed

LEMMA OrderedHeaders ==
    ASSUME NEW h \in HeaderSets, NEW f \in Orders(h)
    PROVE  f \in Templates /\ SecretRefs(f) = HeaderRefs(h)
<1>1. Cardinality(h) \in Nat
  BY FS_CardinalityType DEF HeaderSets
<1>2. f \in Seq(h) /\ Elems(f) = h
  BY <1>1 DEF Orders
<1>3. f \in Templates
  BY <1>2 DEF HeaderSets, Templates
<1> QED BY <1>2, <1>3 DEF SecretRefs, HeaderRefs

\* An agenda that owes the secrets refs, each of its items in its place for the auth block a.
Owes(ag, refs, a) ==
    ag \in Seq(Items) /\ Owed(ag) = refs /\ \A i \in Elems(ag) : Rightful(i, a)

LEMMA OwesBoth ==
    ASSUME NEW a, NEW f, NEW g, NEW refs, NEW rest, Owes(f, refs, a), Owes(g, rest, a)
    PROVE  Owes(f \o g, refs \cup rest, a)
BY OwedConcat DEF Owes

LEMMA OwesNothing == ASSUME NEW a PROVE Owes(<<>>, {}, a)
BY OwedEmpty, ElemsOfEmpty DEF Owes

LEMMA OwesTemplate ==
    ASSUME NEW a, NEW tmpl \in Templates
    PROVE  /\ \A stage \in {"base", "path", "query", "header", "body", "params"} :
                 Owes(At(stage, tmpl), SecretRefs(tmpl), a)
           /\ tmpl = a.params => Owes(At("login", tmpl), SecretRefs(tmpl), a)
           /\ tmpl = CredentialOf(a) => Owes(At("auth", tmpl), SecretRefs(tmpl), a)
<1>1. ASSUME NEW stage \in Stages
      PROVE  /\ At(stage, tmpl) \in Seq(Items) /\ Owed(At(stage, tmpl)) = SecretRefs(tmpl)
             /\ \A i \in Elems(At(stage, tmpl)) : i.stage = stage /\ i.token \in Elems(tmpl)
  BY AtItems
<1>2. ASSUME NEW stage \in {"base", "path", "query", "header", "body", "params"}
      PROVE  Owes(At(stage, tmpl), SecretRefs(tmpl), a)
  <2>1. stage \in Stages
    BY DEF Stages
  <2> QED BY <1>1, <2>1 DEF Owes, Rightful
<1>3. ASSUME tmpl = a.params PROVE Owes(At("login", tmpl), SecretRefs(tmpl), a)
  <2>1. "login" \in Stages
    BY DEF Stages
  <2> QED BY <1>1, <1>3, <2>1 DEF Owes, Rightful
<1>4. ASSUME tmpl = CredentialOf(a) PROVE Owes(At("auth", tmpl), SecretRefs(tmpl), a)
  <2>1. "auth" \in Stages
    BY DEF Stages
  <2> QED BY <1>1, <1>4, <2>1 DEF Owes, Rightful
<1> QED BY <1>2, <1>3, <1>4

\* An agenda owes exactly the secrets of the templates behind it.
LEMMA AgendaContent ==
    ASSUME call \in Calls, Valid(call.manifest), CmdSound, NEW k, NEW r, Runs(k, r),
           NEW ag \in Agendas(k, r)
    PROVE  Owes(ag, AgendaRefs(k, r), AuthOf(k, r))
<1> DEFINE q == RequestOf(k, r)
           a == AuthOf(k, r)
           B == At("base", Base(k, r))
           P == At("path", q.path)
           Q == At("query", q.query)
<1>1. /\ q.path \in Templates /\ q.query \in Templates
      /\ q.body \in Templates /\ q.headers \in HeaderSets
      /\ Base(k, r) \in Templates /\ a \in AuthBlocks
      /\ k = 0 => q.params \in Templates /\ q.noauth \in BOOLEAN
  BY RequestTyped
<1> HIDE DEF q, a
<1>2. /\ Owes(B, SecretRefs(Base(k, r)), a) /\ Owes(P, SecretRefs(q.path), a)
      /\ Owes(Q, SecretRefs(q.query), a) /\ Owes(At("body", q.body), SecretRefs(q.body), a)
  BY <1>1, OwesTemplate
<1>3. CASE IsWs(k)
  <2> DEFINE L == IF q.noauth THEN <<>> ELSE At("login", a.params)
             owed == IF q.noauth THEN {} ELSE SecretRefs(a.params)
             M == At("params", q.params)
  <2>1. q.params \in Templates /\ a.params \in Templates
    BY <1>1, <1>3 DEF IsWs, AuthBlocks
  <2>2. Owes(M, SecretRefs(q.params), a) /\ Owes(At("login", a.params), SecretRefs(a.params), a)
    BY <2>1, OwesTemplate
  <2>3. Owes(L, owed, a)
    BY <2>2, OwesNothing
  <2>4. CASE call.dryRun
    <3>1. ag = B
      BY <1>3, <2>4 DEF Agendas
    <3>2. AgendaRefs(k, r) = SecretRefs(Base(k, r))
      BY <1>3, <2>4 DEF AgendaRefs
    <3> QED BY <1>2, <3>1, <3>2 DEF a
  <2>5. CASE ~call.dryRun
    <3>1. ag = (B \o L) \o M
      BY <1>3, <2>5 DEF Agendas, q, a
    <3>2. AgendaRefs(k, r) = (SecretRefs(Base(k, r)) \cup owed) \cup SecretRefs(q.params)
      BY <1>3, <2>5 DEF AgendaRefs, q, a
    <3> HIDE DEF B, L, M, owed
    <3>3. Owes(B \o L, SecretRefs(Base(k, r)) \cup owed, a)
      BY <1>2, <2>3, OwesBoth
    <3>4. Owes((B \o L) \o M, (SecretRefs(Base(k, r)) \cup owed) \cup SecretRefs(q.params), a)
      BY <2>2, <3>3, OwesBoth
    <3> QED BY <3>1, <3>2, <3>4 DEF a
  <2> QED BY <2>4, <2>5
<1>4. CASE ~IsWs(k)
  <2> DEFINE urlRefs == (SecretRefs(Base(k, r)) \cup SecretRefs(q.path)) \cup SecretRefs(q.query)
  <2>1. Owes((B \o P) \o Q, urlRefs, a)
    <3> HIDE DEF B, P, Q
    <3>1. Owes(B \o P, SecretRefs(Base(k, r)) \cup SecretRefs(q.path), a)
      BY <1>2, OwesBoth
    <3> QED BY <1>2, <3>1, OwesBoth
  <2>2. CASE call.dryRun
    <3>1. ag = (B \o P) \o Q
      BY <1>4, <2>2 DEF Agendas, q
    <3>2. AgendaRefs(k, r) = urlRefs
      BY <1>4, <2>2 DEF AgendaRefs, q
    <3> QED BY <2>1, <3>1, <3>2 DEF a
  <2>3. CASE ~call.dryRun
    <3>1. PICK h \in Orders(q.headers) :
            ag = (((B \o P) \o Q) \o At("header", h)) \o At("body", q.body)
      BY <1>4, <2>3 DEF Agendas, q
    <3>2. h \in Templates /\ SecretRefs(h) = HeaderRefs(q.headers)
      BY <1>1, OrderedHeaders
    <3>3. Owes(At("header", h), HeaderRefs(q.headers), a)
      <4>1. Owes(At("header", h), SecretRefs(h), a)
        BY <3>2, OwesTemplate
      <4> QED BY <3>2, <4>1
    <3>4. AgendaRefs(k, r) = (urlRefs \cup HeaderRefs(q.headers)) \cup SecretRefs(q.body)
      BY <1>4, <2>3 DEF AgendaRefs, q
    <3> DEFINE U == (B \o P) \o Q
    <3> HIDE DEF B, P, Q, U, urlRefs
    <3>5. Owes(U \o At("header", h), urlRefs \cup HeaderRefs(q.headers), a)
      BY <2>1, <3>3, OwesBoth DEF U
    <3>6. Owes((U \o At("header", h)) \o At("body", q.body),
               (urlRefs \cup HeaderRefs(q.headers)) \cup SecretRefs(q.body), a)
      BY <1>2, <3>5, OwesBoth
    <3> QED BY <3>1, <3>4, <3>6 DEF a, U
  <2> QED BY <2>2, <2>3
<1> QED BY <1>3, <1>4

-----------------------------------------------------------------------------
(* Where an invocation is.                                                 *)

\* Whatever is made of the invocation and the command alone stays with them.
LEMMA Stands ==
    ASSUME UNCHANGED <<call, cmd>>
    PROVE  /\ svc' = svc /\ EndpointName' = EndpointName /\ CmdSound' = CmdSound
           /\ \A k, r : Runs(k, r)' = Runs(k, r)
           /\ \A k : IsWs(k)' = IsWs(k)
<1>1. svc' = svc /\ EndpointName' = EndpointName
  BY DEF svc, EndpointName
<1>2. \A e : Reach(e)' = Reach(e)
  BY <1>1 DEF Reach
<1>3. CmdSound' = CmdSound
  BY <1>2, Zenon DEF CmdSound, Sound
<1>4. \A k, r : Runs(k, r)' = Runs(k, r)
  BY <1>1, <1>2, Zenon DEF Runs
<1>5. \A k : IsWs(k)' = IsWs(k)
  BY <1>1, Zenon DEF IsWs
<1> QED BY <1>1, <1>3, <1>4, <1>5

LEMMA BlankSound == ASSUME cmd = BlankCommand PROVE CmdSound
<1>1. IsCommand(BlankCommand)
  <2>1. {} \in HeaderSets
    BY FS_EmptySet DEF HeaderSets
  <2>2. <<>> \in Templates /\ <<>> \in Seq(Steps)
    BY DEF Templates
  <2> QED BY <2>1, <2>2 DEF BlankCommand, IsCommand, CommandFields
<1>2. cmd.steps = <<>> /\ cmd.endpoint = ""
  BY DEF BlankCommand
<1>3. DOMAIN cmd.steps = {}
  BY <1>2, NoIndex
<1> QED BY <1>1, <1>2, <1>3, Zenon DEF CmdSound, Reach

\* A command of a valid manifest, and one that is made of a generic verb.
LEMMA LookupFindsSound ==
    ASSUME call \in Calls, Valid(call.manifest), CmdSound, Lookup
    PROVE  call' = call /\ CmdSound'
<1>1. call' = call
  BY DEF Lookup, Finish, place
<1>2. svc' = svc
  BY <1>1 DEF svc
<1>3. CASE call.word \in DOMAIN FromManifest(svc) /\ cmd' = FromManifest(svc)[call.word]
  <2> DEFINE s == call.manifest
             c == s.commands[call.word]
  <2>1. /\ svc.commands = s.commands /\ DOMAIN s.endpoints \subseteq DOMAIN svc.endpoints
    BY Loaded
  <2>2. call.word \in DOMAIN s.commands /\ IsCommand(c) /\ CommandOK(c, s)
    BY <1>3, <2>1, CallsAssumption DEF FromManifest, IsInvocation, IsManifest, Valid
  <2>3. /\ DOMAIN cmd' = CommandFields
        /\ \A f \in CommandFields \ {"pagination", "output", "write"} : cmd'[f] = c[f]
        /\ cmd'.write = IsWrite(svc.transport, c.method)
    BY <1>3, <2>1, <2>2 DEF FromManifest, IsCommand, CommandFields
  <2>4. cmd'.write \in BOOLEAN
    <3>1. IsWrite(svc.transport, c.method) \in BOOLEAN
      BY Zenon DEF IsWrite
    <3> QED BY <2>3, <3>1
  <2>5. IsCommand(cmd')
    BY <2>2, <2>3, <2>4 DEF IsCommand, CommandFields
  <2>6. cmd'.steps = c.steps /\ cmd'.endpoint = c.endpoint
    BY <2>3 DEF CommandFields
  <2>7. cmd'.steps = <<>> => Reach(cmd.endpoint)'
    BY <1>2, <2>1, <2>2, <2>6 DEF CommandOK, Reach
  <2>8. ASSUME NEW k \in DOMAIN cmd'.steps PROVE Sound(cmd.steps[k])'
    <3>1. c.steps # <<>>
      BY <2>2, <2>6, <2>8 DEF IsCommand
    <3>2. StepOK(c.steps[k], s) /\ \A f \in Elems(c.steps[k].onError) : StepOK(f, s)
      BY <2>2, <2>6, <2>8, <3>1, Zenon DEF CommandOK
    <3>3. Reach(cmd.steps[k].endpoint)'
      BY <1>2, <2>1, <2>6, <3>2 DEF StepOK, Reach
    <3>4. \A f \in DOMAIN c.steps[k].onError : Reach(c.steps[k].onError[f].endpoint)
      BY <2>1, <3>2 DEF StepOK, Reach, Elems
    <3>5. \A f \in DOMAIN cmd'.steps[k].onError : Reach(cmd.steps[k].onError[f].endpoint)'
      BY <1>2, <2>6, <3>4 DEF Reach
    <3> QED BY <3>3, <3>5 DEF Sound
  <2> QED BY <1>1, <2>5, <2>7, <2>8, Zenon DEF CmdSound
<1>4. CASE VerbOK(call.word, call.args) /\ cmd' = Verb(svc.transport, call.word, call.args)
  <2>1. /\ cmd'.steps = <<>> /\ cmd'.endpoint = "" /\ cmd'.headers = {}
        /\ DOMAIN cmd' = CommandFields /\ cmd'.paramsIsArray = TRUE /\ cmd'.noauth = FALSE
        /\ cmd'.mcpIgnore = FALSE
    BY <1>4 DEF Verb, BlankCommand, CommandFields
  <2>2. /\ cmd'.path \in {<<>>, call.args.path} /\ cmd'.query \in {<<>>, call.args.query, call.args.extra}
        /\ cmd'.body \in {<<>>, call.args.extra} /\ cmd'.params \in {<<>>, call.args.extra}
    BY <1>4 DEF Verb, BlankCommand
  <2>3. cmd'.write \in BOOLEAN
    <3>1. \A t, m : IsWrite(t, m) \in BOOLEAN
      BY Zenon DEF IsWrite
    <3>2. \E t, m : cmd'.write = IsWrite(t, m)
      BY <1>4 DEF Verb, BlankCommand
    <3> QED BY <3>1, <3>2
  <2>4. {<<>>, call.args.path, call.args.query, call.args.extra} \subseteq Templates
    BY CallsAssumption DEF IsInvocation, Templates
  <2>5. {} \in HeaderSets /\ <<>> \in Seq(Steps)
    BY FS_EmptySet DEF HeaderSets
  <2>6. IsCommand(cmd')
    BY <2>1, <2>2, <2>3, <2>4, <2>5 DEF IsCommand
  <2>7. DOMAIN cmd'.steps = {}
    BY <2>1, NoIndex
  <2> QED BY <1>1, <2>1, <2>6, <2>7, Zenon DEF CmdSound, Reach
<1>5. CASE UNCHANGED cmd
  BY <1>1, <1>5, Stands
<1>6. UNCHANGED cmd
      \/ (call.word \in DOMAIN FromManifest(svc) /\ cmd' = FromManifest(svc)[call.word])
      \/ (VerbOK(call.word, call.args) /\ cmd' = Verb(svc.transport, call.word, call.args))
  BY DEF Lookup, Finish, place
<1> QED BY <1>1, <1>3, <1>4, <1>5, <1>6

\* What a request that is over leads to: the answer, or another request of the pipeline.
Onward == Replied \/ \E k \in 1 .. Len(cmd.steps), r \in {"main", "fallback"} : Runs(k, r) /\ Go(k, r)

LEMMA StepsAreFinite == ASSUME CmdSound PROVE Len(cmd.steps) \in Nat /\ DOMAIN cmd.steps = 1 .. Len(cmd.steps)
BY DEF CmdSound, IsCommand

LEMMA AdvanceGoesOn ==
    ASSUME CmdSound, Runs(step, role), Advance
    PROVE  Onward /\ (step = 0 => Replied)
<1>1. CASE step # 0 /\ step < Len(cmd.steps)
  <2>1. Go(step + 1, "main")
    BY <1>1 DEF Advance
  <2>2. step + 1 \in 1 .. Len(cmd.steps) /\ step + 1 # 0
    BY <1>1, StepsAreFinite DEF Runs
  <2>3. Runs(step + 1, "main")
    BY <2>2 DEF Runs
  <2> QED BY <1>1, <2>1, <2>2, <2>3 DEF Onward
<1>2. CASE ~(step # 0 /\ step < Len(cmd.steps))
  BY <1>2 DEF Advance, Onward
<1> QED BY <1>1, <1>2

LEMMA FailEndsOrGoesOn ==
    ASSUME CmdSound, Runs(step, role), NEW c, Fail(c)
    PROVE  Finish(c) \/ (step # 0 /\ Onward)
<1>1. CASE role = "fallback"
  <2>1. Advance
    BY <1>1 DEF Fail
  <2>2. step # 0
    BY <1>1 DEF Runs
  <2> QED BY <2>1, <2>2, AdvanceGoesOn
<1>2. CASE role # "fallback" /\ step # 0 /\ role = "main" /\ cmd.steps[step].onError # <<>>
  <2>1. Go(step, "fallback")
    BY <1>2 DEF Fail
  <2>2. step \in 1 .. Len(cmd.steps) /\ Runs(step, "fallback")
    BY <1>2, StepsAreFinite DEF Runs
  <2> QED BY <1>2, <2>1, <2>2 DEF Onward
<1>3. CASE role # "fallback" /\ ~(step # 0 /\ role = "main" /\ cmd.steps[step].onError # <<>>)
  BY <1>3 DEF Fail
<1> QED BY <1>1, <1>2, <1>3

\* Steps that stay with a request.
LEMMA WhereInPlace ==
    ASSUME Where, UNCHANGED place, pc \in Working, pc' \in Working, agenda' \in Seq(Items),
           pc' \in {"build", "auth"} \/ agenda' = <<>>,
           pc' \in {"page", "auth", "send"} => ~IsWs(step),
           pc' = "ws" => IsWs(step),
           call.dryRun => pc' = "build" /\ step = 0
    PROVE  Where'
<1>1. UNCHANGED <<call, cmd, step, role>>
  BY DEF place
<1>2. CmdSound' /\ Runs(step, role)'
  <2>1. Runs(step, role)' <=> Runs(step, role)
    BY <1>1, Zenon DEF Runs, EndpointName, Reach, svc
  <2> QED BY <1>1, <2>1, Stands DEF Where
<1>3. IsWs(step)' = IsWs(step)
  BY <1>1, Zenon DEF IsWs, svc
<1> QED BY <1>1, <1>2, <1>3 DEF Where, Labels, Working

LEMMA WhereFinished == ASSUME Where, NEW c, Finish(c) PROVE Where'
<1>1. UNCHANGED <<call, cmd, step, role>> /\ pc' = "done" /\ agenda' = <<>>
  BY DEF Finish, place
<1>2. CmdSound'
  BY <1>1, Stands DEF Where
<1> QED BY <1>1, <1>2, OwedEmpty DEF Where, Labels, Working

LEMMA WhereGone ==
    ASSUME Where, NEW k, NEW r, Runs(k, r), Go(k, r), call.dryRun => k = 0
    PROVE  Where'
<1>1. UNCHANGED <<call, cmd>> /\ step' = k /\ role' = r /\ pc' = "build" /\ agenda' \in Agendas(k, r)
  BY DEF Go
<1>2. CmdSound'
  BY <1>1, Stands DEF Where
<1>3. Runs(step, role)'
  BY <1>1, Zenon DEF Runs, EndpointName, Reach, svc
<1>4. agenda' \in Seq(Items)
  BY <1>1, AgendaContent DEF Where, Owes
<1>5. k \in Nat /\ r \in {"main", "fallback"} /\ (call.dryRun => k = 0)
  BY StepsAreFinite DEF Runs, Where
<1>6. step' \in Nat /\ role' \in {"main", "fallback"} /\ (call'.dryRun => step' = 0)
  BY <1>1, <1>5
<1> QED BY <1>1, <1>2, <1>3, <1>4, <1>6 DEF Where, Labels, Working

LEMMA WhereOnward == ASSUME Where, pc \in Working, ~call.dryRun, Onward PROVE Where'
<1>1. CASE Replied
  BY <1>1, OwedEmpty, WhereInPlace DEF Replied, Working, Labels
<1>2. CASE ~Replied
  BY <1>2, WhereGone DEF Onward
<1> QED BY <1>1, <1>2

LEMMA WhereFailed == ASSUME Where, pc \in Working, NEW c, Fail(c) PROVE Where'
<1>1. CmdSound /\ Runs(step, role) /\ (step # 0 => ~call.dryRun)
  BY DEF Where
<1> QED BY <1>1, FailEndsOrGoesOn, WhereFinished, WhereOnward

LEMMA WhereStarts == Init => Where
<1> SUFFICES ASSUME Init PROVE Where
  OBVIOUS
<1>1. CmdSound
  BY BlankSound DEF Init
<1> QED BY <1>1, OwedEmpty DEF Init, Where, Labels, Working

\* Working off the agenda.
LEMMA WhereExpanded == ASSUME Where, Expanding, Expanded PROVE Where'
<1>1. agenda' \in Seq(Items) /\ UNCHANGED <<place, pc>> /\ pc \in {"build", "auth"}
  BY OwedTail DEF Expanding, Expanded, Where
<1> QED BY <1>1, WhereInPlace DEF Where, Working, Labels

LEMMA WhereExpandFails == ASSUME Where, Expanding, NEW c, ExpandFails(c) PROVE Where'
<1>1. pc \in Working
  BY DEF Expanding, Working, Labels
<1> QED BY <1>1, WhereFailed DEF ExpandFails

\* A token is worked off, or the request ends.
LEMMA ExpandingSteps ==
    ASSUME Expand \/ SecretCached \/ SecretUndeclared \/ SecretFromEnv \/ SecretFromProvider
    PROVE  /\ Expanding /\ (Expanded \/ \E c : ExpandFails(c))
           /\ UNCHANGED <<pages, found, sent, failed, wsVars>>
BY DEF Expand, SecretCached, SecretUndeclared, SecretFromEnv, SecretFromProvider, progress

LEMMA CredentialTyped ==
    ASSUME call \in Calls, Valid(call.manifest), CmdSound, NEW k, NEW r, Runs(k, r)
    PROVE  CredentialOf(AuthOf(k, r)) \in Templates
<1> DEFINE a == AuthOf(k, r)
<1>1. a \in AuthBlocks
  BY RequestTyped
<1> HIDE DEF a
<1>2. a.value \in Templates /\ a.username \in Templates /\ a.password \in Templates
  BY <1>1 DEF AuthBlocks
<1>3. \A f, g \in Templates : f \o g \in Templates
  BY DEF Templates
<1>4. <<>> \in Templates
  BY DEF Templates
<1>5. CredentialOf(a) \in {<<>>, a.value, a.username \o a.password,
                           (a.value \o a.username) \o a.password}
  BY DEF CredentialOf
<1>6. {<<>>, a.value, a.username \o a.password, (a.value \o a.username) \o a.password}
        \subseteq Templates
  BY <1>2, <1>3, <1>4
<1> QED BY <1>5, <1>6 DEF a

\* Execute dispatches on a request that exists, or ends.
LEMMA BeginRuns ==
    ASSUME Where, Begin
    PROVE  \/ \E c : Finish(c)
           \/ \E k \in {0, 1} : Go(k, "main") /\ Runs(k, "main") /\ (call.dryRun => k = 0)
<1> SUFFICES ASSUME ~\E c : Finish(c)
             PROVE  \E k \in {0, 1} : Go(k, "main") /\ Runs(k, "main") /\ (call.dryRun => k = 0)
  OBVIOUS
<1>1. \/ cmd.steps # <<>> /\ ~call.dryRun /\ Go(1, "main")
      \/ cmd.steps = <<>> /\ Go(0, "main") /\ Reach(EndpointName)
  BY DEF Begin, Reach
<1>2. cmd.steps # <<>> => Len(cmd.steps) # 0
  BY DEF Where, CmdSound, IsCommand
<1>3. \/ cmd.steps # <<>> /\ ~call.dryRun /\ Go(1, "main") /\ Runs(1, "main")
      \/ cmd.steps = <<>> /\ Go(0, "main") /\ Runs(0, "main")
  BY <1>1, <1>2, StepsAreFinite DEF Runs, Where
<1> QED BY <1>3

LEMMA WhereKept == ASSUME Where, [Next]_vars PROVE Where'
<1>1. CASE Lookup
  <2>1. call' = call /\ CmdSound'
    BY <1>1, LookupFindsSound DEF Where
  <2>2. /\ UNCHANGED <<step, role>>
        /\ \/ pc' = "begin" /\ UNCHANGED agenda
           \/ pc' = "done" /\ agenda' = <<>>
    BY <1>1 DEF Lookup, Finish, place
  <2>3. pc = "lookup" /\ step = 0 /\ role = "main" /\ agenda = <<>>
    BY <1>1 DEF Lookup, Where, Working, Labels
  <2> QED BY <2>1, <2>2, <2>3, OwedEmpty DEF Where, Working, Labels
<1>2. CASE Begin
  BY <1>2, BeginRuns, WhereFinished, WhereGone
<1>3. CASE Expand \/ SecretCached \/ SecretUndeclared \/ SecretFromEnv \/ SecretFromProvider
  BY <1>3, ExpandingSteps, WhereExpanded, WhereExpandFails
<1>4. CASE Preview
  BY <1>4, WhereFinished DEF Preview
<1>5. CASE StartHTTP \/ StartWs
  <2>1. /\ pc = "build" /\ ~call.dryRun /\ agenda' = <<>> /\ UNCHANGED place
        /\ \/ pc' = "page" /\ ~IsWs(step)
           \/ pc' = "ws" /\ IsWs(step)
    BY <1>5 DEF StartHTTP, StartWs, Enter, Built
  <2> QED BY <2>1, WhereInPlace, OwedEmpty DEF Working, Labels
<1>6. CASE StartPage
  <2>1. pc = "page" /\ ~IsWs(step) /\ ~call.dryRun /\ pc \in Working
    BY <1>6 DEF StartPage, Where, Working, Labels
  <2>2. CASE Fail("malformed")
    BY <2>1, <2>2, WhereFailed
  <2>3. CASE ~Fail("malformed")
    <3>1. /\ pc' = "auth" /\ UNCHANGED place
          /\ agenda' = IF step = 0 /\ cmd.noauth THEN <<>>
                       ELSE At("auth", CredentialOf(AuthOf(step, role)))
      BY <1>6, <2>3 DEF StartPage
    <3>2. CredentialOf(AuthOf(step, role)) \in Templates
      BY <2>1, CredentialTyped DEF Where
    <3>3. agenda' \in Seq(Items)
      BY <3>1, <3>2, AtItems, OwedEmpty DEF Stages
    <3> QED BY <2>1, <3>1, <3>3, WhereInPlace DEF Working, Labels
  <2> QED BY <2>2, <2>3
<1>7. CASE Apply
  <2>1. pc = "auth" /\ ~IsWs(step) /\ ~call.dryRun /\ pc \in Working
    BY <1>7 DEF Apply, Where, Working, Labels
  <2>2. Enter("send") \/ Fail("credential")
    BY <1>7 DEF Apply
  <2> QED BY <2>1, <2>2, WhereFailed, WhereInPlace, OwedEmpty DEF Enter, Working, Labels
<1>8. CASE SendOK \/ SendFails
  <2>1. pc = "send" /\ ~IsWs(step) /\ ~call.dryRun /\ pc \in Working /\ CmdSound /\ Runs(step, role)
    BY <1>8 DEF SendOK, SendFails, Where, Working, Labels
  <2>2. Enter("page") \/ Advance \/ \E c : Fail(c)
    BY <1>8 DEF SendOK, SendFails
  <2> QED BY <2>1, <2>2, WhereFailed, WhereOnward, AdvanceGoesOn, WhereInPlace, OwedEmpty
          DEF Enter, Working, Labels
<1>9. CASE WsEnds
  <2>1. pc = "ws" /\ ~call.dryRun /\ pc \in Working
    BY <1>9 DEF WsEnds, Where, Working, Labels
  <2> QED BY <1>9, <2>1, WhereFinished, WhereOnward DEF WsEnds, Onward
<1>10. CASE Render
  BY <1>10, WhereFinished DEF Render
<1>11. CASE UNCHANGED eVars
  <2>1. UNCHANGED <<call, cmd, pc, step, role, agenda>>
    BY <1>11 DEF eVars
  <2>2. svc' = svc /\ EndpointName' = EndpointName /\ CmdSound' = CmdSound
        /\ Runs(step, role)' = Runs(step, role) /\ IsWs(step)' = IsWs(step)
    BY <2>1, Zenon DEF svc, EndpointName, CmdSound, Sound, Reach, Runs, IsWs
  <2> QED BY <2>1, <2>2 DEF Where
<1> QED BY <1>1, <1>2, <1>3, <1>4, <1>5, <1>6, <1>7, <1>8, <1>9, <1>10, <1>11
        DEF Next, Proceed, WsStep, ServerStep, Time, vars

\* The request at hand exists at every moment of every invocation (Execute, runStep).
THEOREM StaysInPlace == Spec => []Where
<1>1. Init => Where
  BY WhereStarts
<1>2. Where /\ [Next]_vars => Where'
  BY WhereKept
<1> QED BY <1>1, <1>2, PTL DEF Spec

-----------------------------------------------------------------------------
(* The call over a WebSocket within an invocation.                         *)

\* How a request that fails, and one that is over, leaves things.
LEMMA FailPc ==
    ASSUME NEW c, Fail(c)
    PROVE  pc' \in {"done", "build", "reply"} /\ UNCHANGED <<call, cmd>>
BY DEF Fail, Advance, Finish, Go, Replied, place

\* All steps but those of the WebSocket leave it alone, and do not begin a call.
Elsewhere ==
    \/ Lookup \/ Begin
    \/ Expand \/ SecretCached \/ SecretUndeclared \/ SecretFromEnv \/ SecretFromProvider
    \/ Preview \/ StartHTTP \/ StartPage \/ Apply \/ SendOK \/ SendFails \/ Render

LEMMA ElsewhereSteps ==
    ASSUME Elsewhere
    PROVE  /\ UNCHANGED wsVars /\ UNCHANGED call /\ pc \notin {"ws", "done"} /\ pc' # "ws"
           /\ pc = "reply" => pc' = "done"
           /\ pc # "lookup" => UNCHANGED cmd
<1>1. CASE Lookup
  BY <1>1 DEF Lookup, Finish, place
<1>2. CASE Begin
  BY <1>2 DEF Begin, Finish, place, Go
<1>3. CASE Expand \/ SecretCached \/ SecretUndeclared \/ SecretFromEnv \/ SecretFromProvider
  <2>1. Expanded \/ \E c : Fail(c)
    BY <1>3, ExpandingSteps DEF ExpandFails
  <2>2. pc \in {"build", "auth"} /\ UNCHANGED wsVars
    BY <1>3, ExpandingSteps DEF Expanding
  <2> QED BY <2>1, <2>2, FailPc DEF Expanded, place
<1>4. CASE Preview \/ StartHTTP
  BY <1>4 DEF Preview, StartHTTP, Enter, Built, Finish, place
<1>5. CASE StartPage \/ Apply
  <2>1. \/ pc' \in {"auth", "send"} /\ UNCHANGED place
        \/ \E c : Fail(c)
    BY <1>5 DEF StartPage, Apply, Enter
  <2> QED BY <1>5, <2>1, FailPc DEF StartPage, Apply, place
<1>6. CASE SendOK \/ SendFails
  <2>1. \/ pc' = "page" /\ UNCHANGED place
        \/ Advance
        \/ \E c : Fail(c)
    BY <1>6 DEF SendOK, SendFails, Enter
  <2>2. Advance => pc' \in {"build", "reply"} /\ UNCHANGED <<call, cmd>>
    BY DEF Advance, Go, Replied, place
  <2> QED BY <1>6, <2>1, <2>2, FailPc DEF SendOK, SendFails, place
<1>7. CASE Render
  BY <1>7 DEF Render, Finish, place
<1> QED BY <1>1, <1>2, <1>3, <1>4, <1>5, <1>6, <1>7 DEF Elsewhere

LEMMA NextIsElsewhere ==
    [Next]_vars => \/ Elsewhere \/ StartWs \/ WsStep \/ ServerStep \/ Time \/ WsEnds \/ UNCHANGED vars
BY DEF Next, Proceed, Elsewhere

LEMMA WsWhereKept == ASSUME Where, WsWhere, [Next]_vars PROVE WsWhere'
<1>1. CASE Elsewhere
  <2>1. WsInv' /\ wpc' = wpc /\ wres' = wres /\ call' = call
    BY <1>1, ElsewhereSteps, WsStands DEF WsWhere, wsVars
  <2>2. pc \notin {"ws", "done"} /\ pc' # "ws" /\ (pc = "reply" => pc' = "done")
    BY <1>1, ElsewhereSteps
  <2> QED BY <2>1, <2>2 DEF WsWhere, Where, Labels
<1>2. CASE StartWs
  <2>1. /\ wpc = "idle" /\ wpc' = "dial" /\ login' = ~cmd.noauth /\ pc' = "ws"
        /\ UNCHANGED <<phase, expired, inbox, got, answered, wres, result, call>>
        /\ ~call.dryRun
    BY <1>2 DEF StartWs, Built, WsWhere, Enter, place
  <2>2. login' \in BOOLEAN
    BY <2>1, Zenon
  <2>3. WsInv'
    BY <2>1, <2>2 DEF WsWhere, WsInv, WsShape, WsTypeOK, WsOrder, AnswerIsTheMethods, Genuine
  <2> QED BY <2>1, <2>3 DEF WsWhere
<1>3. CASE WsStep \/ ServerStep \/ Time
  <2>1. pc = "ws" /\ UNCHANGED <<pc, call>>
    BY <1>3 DEF WsStep, ServerStep, Time, eVars
  <2>2. WsInv' /\ wpc' # "idle"
    BY <1>3, ClientKeeps, ServerKeeps, ExpireKeeps DEF WsStep, ServerStep, Time, WsWhere
  <2> QED BY <2>1, <2>2 DEF WsWhere
<1>4. CASE WsEnds
  <2>1. WsInv' /\ wpc' = wpc /\ wres' = wres /\ pc = "ws"
    BY <1>4, WsStands DEF WsEnds, WsWhere, wsVars
  <2>2. call' = call /\ (pc' = "done" \/ (pc' = "reply" /\ wres = "ok"))
    BY <1>4 DEF WsEnds, Replied, Finish, place
  <2> QED BY <2>1, <2>2 DEF WsWhere
<1>5. CASE UNCHANGED vars
  <2>1. WsInv' /\ wpc' = wpc
    BY <1>5, WsStands DEF vars, WsWhere
  <2> QED BY <1>5, <2>1 DEF WsWhere, vars, eVars, wsVars
<1> QED BY <1>1, <1>2, <1>3, <1>4, <1>5, NextIsElsewhere

LEMMA WsWhereStarts == Init => WsWhere
BY WsStarts DEF Init, WsWhere

THEOREM WsStaysInPlace == Spec => []WsWhere
<1>1. Init => WsWhere
  BY WsWhereStarts
<1>2. Where /\ WsWhere /\ [Next]_vars => WsWhere'
  BY WsWhereKept
<1> QED BY <1>1, <1>2, StaysInPlace, PTL DEF Spec

\* A call over a WebSocket sends its method only after the server accepted the login, and
\* returns the server's own answer to the method (DoJSONRPCWS, readResponse).
THEOREM LoginsPrecedeAnswers == Spec => []LoginThenAnswer
<1>1. WsWhere => LoginThenAnswer
  BY DEF WsWhere, WsInv, WsOrder, LoginThenAnswer, MethodOnlyAfterLogin
<1> QED BY <1>1, WsStaysInPlace, PTL

-----------------------------------------------------------------------------
(* The resolver.                                                           *)

\* The invocation itself never changes.
LEMMA CallStands == ASSUME [Next]_vars PROVE UNCHANGED call
<1>1. CASE Elsewhere
  BY <1>1, ElsewhereSteps
<1>2. CASE StartWs \/ WsStep \/ ServerStep \/ Time \/ WsEnds \/ UNCHANGED vars
  BY <1>2 DEF StartWs, Enter, WsStep, ServerStep, Time, WsEnds, Replied, Finish, place, eVars, vars
<1> QED BY <1>1, <1>2, NextIsElsewhere

\* Only the two steps that obtain a secret touch the cache.
LEMMA CacheStands ==
    ASSUME [Next]_vars, ~SecretFromEnv, ~SecretFromProvider
    PROVE  UNCHANGED <<cache, fetches>>
<1>1. CASE Lookup \/ Begin \/ Expand \/ SecretCached \/ SecretUndeclared
  BY <1>1 DEF Lookup, Begin, Expand, SecretCached, SecretUndeclared, progress
<1>2. CASE Preview \/ StartHTTP \/ StartWs \/ StartPage \/ Apply
  BY <1>2 DEF Preview, StartHTTP, StartWs, StartPage, Apply, progress
<1>3. CASE SendOK \/ SendFails \/ WsEnds \/ Render
  BY <1>3 DEF SendOK, SendFails, WsEnds, Render, progress
<1>4. CASE WsStep \/ ServerStep \/ Time \/ UNCHANGED vars
  BY <1>4 DEF WsStep, ServerStep, Time, vars, eVars
<1> QED BY <1>1, <1>2, <1>3, <1>4 DEF Next, Proceed

LEMMA FetchedKept == ASSUME Fetched, [Next]_vars PROVE Fetched'
<1>1. svc' = svc /\ \A x : InEnv(x)' = InEnv(x)
  BY CallStands, Zenon DEF svc, InEnv
<1>2. CASE SecretFromEnv
  <2>1. /\ token.name \in DOMAIN svc.secrets \ cache /\ InEnv(token.name)
        /\ cache' = cache \cup {token.name} /\ UNCHANGED fetches
    BY <1>2 DEF SecretFromEnv, progress
  <2> QED BY <1>1, <2>1 DEF Fetched
<1>3. CASE SecretFromProvider
  <2>1. /\ token.name \in DOMAIN svc.secrets \ cache
        /\ \/ UNCHANGED <<cache, fetches>>
           \/ /\ cache' = cache \cup {token.name}
              /\ fetches' = [fetches EXCEPT ![token.name] = @ + 1]
    BY <1>3 DEF SecretFromProvider
  <2>2. CASE UNCHANGED <<cache, fetches>>
    BY <1>1, <2>2 DEF Fetched
  <2>3. CASE /\ cache' = cache \cup {token.name}
             /\ fetches' = [fetches EXCEPT ![token.name] = @ + 1]
    <3>1. fetches[token.name] = 0
      BY <2>1 DEF Fetched
    <3>2. fetches' = [fetches EXCEPT ![token.name] = 1]
      BY <2>1, <2>3, <3>1 DEF Fetched
    <3> QED BY <1>1, <2>1, <2>3, <3>2 DEF Fetched
  <2> QED BY <2>1, <2>2, <2>3
<1>4. CASE ~SecretFromEnv /\ ~SecretFromProvider
  BY <1>1, <1>4, CacheStands DEF Fetched
<1> QED BY <1>2, <1>3, <1>4

LEMMA FetchedStarts == Init => Fetched
BY DEF Init, Fetched

THEOREM CacheHoldsWhatWasFetched == Spec => []Fetched
<1>1. Init => Fetched
  BY FetchedStarts
<1>2. Fetched /\ [Next]_vars => Fetched'
  BY FetchedKept
<1> QED BY <1>1, <1>2, PTL DEF Spec

\* A provider delivers a secret at most once in an invocation, and the resolver holds
\* exactly what was delivered or stood in the environment (Resolver.Secret).
THEOREM SecretsComeOnce == Spec => []SecretsAreFetchedOnce
<1>1. Fetched => SecretsAreFetchedOnce
  BY DEF Fetched, SecretsAreFetchedOnce
<1> QED BY <1>1, CacheHoldsWhatWasFetched, PTL

-----------------------------------------------------------------------------
(* What has been resolved when.                                            *)

\* The request of the next state, in terms of this one.
LEMMA RefsFollow ==
    ASSUME UNCHANGED <<call, cmd>>, NEW k, NEW r, step' = k, role' = r
    PROVE  /\ AgendaRefs(step, role)' = AgendaRefs(k, r)
           /\ CredRefs(step, role)' = CredRefs(k, r)
           /\ AuthOf(step, role)' = AuthOf(k, r)
           /\ AgendaRefs(0, "main")' = AgendaRefs(0, "main")
<1>1. svc' = svc /\ EndpointName' = EndpointName
  BY Stands
<1>2. RequestOf(step, role)' = RequestOf(k, r) /\ RequestOf(0, "main")' = RequestOf(0, "main")
  BY Zenon DEF RequestOf
<1>3. TargetOf(step, role)' = TargetOf(k, r) /\ TargetOf(0, "main")' = TargetOf(0, "main")
  BY <1>1, <1>2, Zenon DEF TargetOf, Target
<1>4. AuthOf(step, role)' = AuthOf(k, r) /\ AuthOf(0, "main")' = AuthOf(0, "main")
  BY <1>1, <1>3, Zenon DEF AuthOf
<1>5. Base(step, role)' = Base(k, r) /\ Base(0, "main")' = Base(0, "main")
  BY <1>1, <1>3, Zenon DEF Base
<1>6. IsWs(step)' = IsWs(k) /\ IsWs(0)' = IsWs(0)
  BY <1>1, Zenon DEF IsWs
<1>7. AgendaRefs(step, role)' = AgendaRefs(k, r)
  BY <1>2, <1>4, <1>5, <1>6, Zenon DEF AgendaRefs
<1>8. AgendaRefs(0, "main")' = AgendaRefs(0, "main")
  BY <1>2, <1>4, <1>5, <1>6, Zenon DEF AgendaRefs
<1>9. CredRefs(step, role)' = CredRefs(k, r)
  BY <1>4, Zenon DEF CredRefs
<1> QED BY <1>4, <1>7, <1>8, <1>9

\* Steps that leave the request where it is.
LEMMA RefsStand ==
    ASSUME UNCHANGED place
    PROVE  /\ AgendaRefs(step, role)' = AgendaRefs(step, role)
           /\ CredRefs(step, role)' = CredRefs(step, role)
           /\ AuthOf(step, role)' = AuthOf(step, role)
           /\ AgendaRefs(0, "main")' = AgendaRefs(0, "main")
<1>1. PICK k, r : k = step /\ r = role
  OBVIOUS
<1>2. UNCHANGED <<call, cmd>> /\ step' = k /\ role' = r
  BY <1>1 DEF place
<1> QED BY <1>1, <1>2, RefsFollow

LEMMA ResolvedOver ==
    ASSUME Resolved, UNCHANGED <<place, cache>>, pc' \in {"done", "reply"},
           UNCHANGED sent \/ ~call.dryRun
    PROVE  Resolved'
<1>1. AgendaRefs(0, "main")' = AgendaRefs(0, "main")
  BY RefsStand
<1> QED BY <1>1 DEF Resolved, place

LEMMA ResolvedGone ==
    ASSUME Where, Resolved, NEW k, NEW r, Runs(k, r), Go(k, r), UNCHANGED cache,
           UNCHANGED sent \/ ~call.dryRun, call.dryRun => cache = {}
    PROVE  Resolved'
<1>1. UNCHANGED <<call, cmd>> /\ step' = k /\ role' = r /\ pc' = "build" /\ agenda' \in Agendas(k, r)
  BY DEF Go
<1>2. Owes(agenda', AgendaRefs(k, r), AuthOf(k, r))
  BY <1>1, AgendaContent DEF Where
<1>3. /\ AgendaRefs(step, role)' = AgendaRefs(k, r)
      /\ AuthOf(step, role)' = AuthOf(k, r)
  BY <1>1, RefsFollow
<1>4. Owed(agenda)' = AgendaRefs(step, role)'
  BY <1>2, <1>3, Zenon DEF Owes, Owed
<1>5. \A i \in Elems(agenda') : Rightful(i, AuthOf(step, role))'
  BY <1>2, <1>3, Zenon DEF Owes, Rightful
<1> QED BY <1>1, <1>4, <1>5 DEF Resolved

LEMMA ResolvedOnward ==
    ASSUME Where, Resolved, Onward, UNCHANGED cache, ~call.dryRun PROVE Resolved'
<1>1. CASE Replied
  BY <1>1, ResolvedOver DEF Replied
<1>2. CASE ~Replied
  BY <1>2, ResolvedGone DEF Onward
<1> QED BY <1>1, <1>2

LEMMA ResolvedFailed ==
    ASSUME Where, Resolved, pc \in Working, NEW c, Fail(c), UNCHANGED cache,
           UNCHANGED sent \/ ~call.dryRun
    PROVE  Resolved'
<1>1. CmdSound /\ Runs(step, role) /\ (step # 0 => ~call.dryRun)
  BY DEF Where
<1>2. Finish(c) \/ (step # 0 /\ Onward)
  BY <1>1, FailEndsOrGoesOn
<1>3. CASE Finish(c)
  BY <1>3, ResolvedOver DEF Finish
<1>4. CASE step # 0 /\ Onward
  BY <1>1, <1>4, ResolvedOnward
<1> QED BY <1>2, <1>3, <1>4

LEMMA ResolvedExpanded ==
    ASSUME Where, Resolved, Expanding, Expanded, UNCHANGED sent,
           cache' \in {cache, cache \cup {token.name}},
           token.kind = "secret" => token.name \in cache',
           token.kind # "secret" => cache' = cache
    PROVE  Resolved'
<1>1. /\ AgendaRefs(step, role)' = AgendaRefs(step, role)
      /\ CredRefs(step, role)' = CredRefs(step, role)
      /\ AuthOf(step, role)' = AuthOf(step, role)
      /\ AgendaRefs(0, "main")' = AgendaRefs(0, "main")
      /\ UNCHANGED <<place, pc>> /\ agenda' = Tail(agenda) /\ pc \in {"build", "auth"}
  BY RefsStand DEF Expanded, Expanding
<1>2. /\ Elems(agenda) = {Head(agenda)} \cup Elems(agenda')
      /\ Owed(agenda) = Owed(agenda') \cup IF token.kind = "secret" THEN {token.name} ELSE {}
  BY <1>1, OwedTail DEF Where, Expanding, token
<1>3. Owed(agenda)' = Owed(agenda')
  BY Zenon DEF Owed
<1>4. \A i \in Elems(agenda') : Rightful(i, AuthOf(step, role))'
  BY <1>1, <1>2, Zenon DEF Resolved, Rightful
<1>5. cache \cup Owed(agenda) \subseteq cache' \cup Owed(agenda')
  BY <1>2
<1>6. pc = "build" => /\ Owed(agenda') \subseteq AgendaRefs(step, role)
                      /\ AgendaRefs(step, role) \subseteq cache' \cup Owed(agenda')
  BY <1>2, <1>5 DEF Resolved
<1>7. pc = "auth" => /\ Owed(agenda') \subseteq CredRefs(step, role)
                     /\ CredRefs(step, role) \subseteq cache' \cup Owed(agenda')
                     /\ AgendaRefs(step, role) \subseteq cache'
  BY <1>2, <1>5 DEF Resolved
<1>8. ASSUME call.dryRun, cache' # {}
      PROVE  cmd.steps = <<>> /\ cache' \subseteq AgendaRefs(0, "main")
  <2>1. pc = "build" /\ step = 0 /\ role = "main" /\ cmd.steps = <<>>
    BY <1>1, <1>8 DEF Where, Working, Labels, Runs
  <2>2. cache' = cache \/ (token.kind = "secret" /\ cache' = cache \cup {token.name})
    OBVIOUS
  <2>3. token.kind = "secret" => token.name \in AgendaRefs(0, "main")
    BY <1>2, <2>1 DEF Resolved
  <2>4. cache \subseteq AgendaRefs(0, "main")
    BY <1>8 DEF Resolved
  <2> QED BY <2>1, <2>2, <2>3, <2>4
<1>9. UNCHANGED <<call, cmd, pc, sent>>
  BY <1>1 DEF place
<1> QED BY <1>1, <1>3, <1>4, <1>6, <1>7, <1>8, <1>9 DEF Resolved

LEMMA ResolvedKept == ASSUME Where, Resolved, [Next]_vars PROVE Resolved'
<1>1. CASE Lookup
  <2>1. cache = {} /\ UNCHANGED <<call, cache, sent>> /\ pc' \in {"begin", "done"}
    BY <1>1 DEF Lookup, Finish, place, progress, Resolved
  <2> QED BY <2>1 DEF Resolved
<1>2. CASE Begin
  <2>1. cache = {} /\ UNCHANGED <<cache, sent>>
    BY <1>2 DEF Begin, progress, Resolved
  <2>2. CASE \E c : Finish(c)
    BY <2>1, <2>2, ResolvedOver DEF Finish
  <2> QED BY <1>2, <2>1, <2>2, BeginRuns, ResolvedGone
<1>3. CASE Expand \/ SecretCached \/ SecretUndeclared \/ SecretFromEnv \/ SecretFromProvider
  <2>1. Expanding /\ UNCHANGED sent
    BY <1>3, ExpandingSteps
  <2>2. pc \in Working
    BY <2>1 DEF Expanding, Working, Labels
  <2>3. \/ /\ Expanded /\ cache' \in {cache, cache \cup {token.name}}
           /\ token.kind = "secret" => token.name \in cache'
           /\ token.kind # "secret" => cache' = cache
        \/ \E c : ExpandFails(c) /\ UNCHANGED cache
    BY <1>3 DEF Expand, SecretCached, SecretUndeclared, SecretFromEnv, SecretFromProvider
  <2> QED BY <2>1, <2>2, <2>3, ResolvedExpanded, ResolvedFailed DEF ExpandFails
<1>4. CASE Preview
  BY <1>4, ResolvedOver DEF Preview, Finish, progress
<1>5. CASE StartHTTP \/ StartWs
  <2>1. /\ pc = "build" /\ agenda = <<>> /\ pc' \in {"page", "ws"}
        /\ UNCHANGED <<place, cache, sent>>
    BY <1>5 DEF StartHTTP, StartWs, Enter, Built, progress
  <2>2. AgendaRefs(step, role)' = AgendaRefs(step, role)
        /\ AgendaRefs(0, "main")' = AgendaRefs(0, "main")
    BY <2>1, RefsStand
  <2>3. AgendaRefs(step, role) \subseteq cache
    BY <2>1, OwedEmpty DEF Resolved
  <2> QED BY <2>1, <2>2, <2>3 DEF Resolved, place
<1>6. CASE StartPage
  <2>1. pc = "page" /\ pc \in Working /\ UNCHANGED <<cache, sent>>
    BY <1>6 DEF StartPage, progress, Working, Labels
  <2>2. CASE Fail("malformed")
    BY <2>1, <2>2, ResolvedFailed
  <2>3. CASE ~Fail("malformed")
    <3>1. /\ pc' = "auth" /\ UNCHANGED place
          /\ agenda' = IF step = 0 /\ cmd.noauth THEN <<>>
                       ELSE At("auth", CredentialOf(AuthOf(step, role)))
      BY <1>6, <2>3 DEF StartPage
    <3>2. Owes(agenda', CredRefs(step, role), AuthOf(step, role))
      <4>1. CASE step = 0 /\ cmd.noauth
        BY <3>1, <4>1, OwesNothing DEF CredRefs
      <4>2. CASE ~(step = 0 /\ cmd.noauth)
        <5>1. CredentialOf(AuthOf(step, role)) \in Templates
          BY <2>1, CredentialTyped DEF Where
        <5>2. Owes(At("auth", CredentialOf(AuthOf(step, role))),
                   SecretRefs(CredentialOf(AuthOf(step, role))), AuthOf(step, role))
          BY <5>1, OwesTemplate
        <5> QED BY <3>1, <4>2, <5>2 DEF CredRefs
      <4> QED BY <4>1, <4>2
    <3>3. /\ AgendaRefs(step, role)' = AgendaRefs(step, role)
          /\ CredRefs(step, role)' = CredRefs(step, role)
          /\ AuthOf(step, role)' = AuthOf(step, role)
          /\ AgendaRefs(0, "main")' = AgendaRefs(0, "main")
      BY <3>1, RefsStand
    <3>4. Owed(agenda)' = CredRefs(step, role)
      BY <3>2, Zenon DEF Owes, Owed
    <3>5. \A i \in Elems(agenda') : Rightful(i, AuthOf(step, role))'
      BY <3>2, <3>3, Zenon DEF Owes, Rightful
    <3> QED BY <2>1, <3>1, <3>3, <3>4, <3>5 DEF Resolved, place
  <2> QED BY <2>2, <2>3
<1>7. CASE Apply
  <2>1. pc = "auth" /\ agenda = <<>> /\ pc \in Working /\ UNCHANGED <<cache, sent>>
    BY <1>7 DEF Apply, progress, Working, Labels
  <2>2. CASE Enter("send")
    <3>1. /\ AgendaRefs(step, role)' = AgendaRefs(step, role)
          /\ CredRefs(step, role)' = CredRefs(step, role)
          /\ AgendaRefs(0, "main")' = AgendaRefs(0, "main")
          /\ UNCHANGED place /\ pc' = "send"
      BY <2>2, RefsStand DEF Enter
    <3>2. CredRefs(step, role) \subseteq cache
      BY <2>1, OwedEmpty DEF Resolved
    <3> QED BY <2>1, <3>1, <3>2 DEF Resolved, place
  <2>3. CASE Fail("credential")
    BY <2>1, <2>3, ResolvedFailed
  <2> QED BY <1>7, <2>2, <2>3 DEF Apply
<1>8. CASE SendOK \/ SendFails
  <2>1. /\ pc = "send" /\ pc \in Working /\ ~call.dryRun /\ CmdSound /\ Runs(step, role)
        /\ UNCHANGED cache
    BY <1>8 DEF SendOK, SendFails, Where, Working, Labels
  <2>2. CASE Enter("page")
    <3>1. /\ AgendaRefs(step, role)' = AgendaRefs(step, role)
          /\ AgendaRefs(0, "main")' = AgendaRefs(0, "main")
          /\ UNCHANGED place /\ pc' = "page"
      BY <2>2, RefsStand DEF Enter
    <3> QED BY <2>1, <3>1 DEF Resolved, place
  <2>3. CASE Advance \/ \E c : Fail(c)
    BY <2>1, <2>3, ResolvedFailed, ResolvedOnward, AdvanceGoesOn
  <2> QED BY <1>8, <2>2, <2>3 DEF SendOK, SendFails
<1>9. CASE WsEnds \/ Render
  BY <1>9, ResolvedOver DEF WsEnds, Render, Replied, Finish, progress
<1>10. CASE UNCHANGED eVars
  <2>1. /\ AgendaRefs(step, role)' = AgendaRefs(step, role)
        /\ CredRefs(step, role)' = CredRefs(step, role)
        /\ AuthOf(step, role)' = AuthOf(step, role)
        /\ AgendaRefs(0, "main")' = AgendaRefs(0, "main")
    BY <1>10, RefsStand DEF eVars, place
  <2>2. Owed(agenda)' = Owed(agenda) /\ Elems(agenda') = Elems(agenda)
    BY <1>10, Zenon DEF eVars, Owed
  <2>3. UNCHANGED <<call, cmd, pc, cache, sent>>
    BY <1>10 DEF eVars
  <2>4. \A i : Rightful(i, AuthOf(step, role))' = Rightful(i, AuthOf(step, role))
    BY <2>1, Zenon DEF Rightful
  <2> QED BY <2>1, <2>2, <2>3, <2>4 DEF Resolved
<1> QED BY <1>1, <1>2, <1>3, <1>4, <1>5, <1>6, <1>7, <1>8, <1>9, <1>10
        DEF Next, Proceed, WsStep, ServerStep, Time, vars

LEMMA ResolvedStarts == Init => Resolved
BY DEF Init, Resolved

THEOREM ResolvesBeforeItLeaves == Spec => []Resolved
<1>1. Init => Resolved
  BY ResolvedStarts
<1>2. Where /\ Resolved /\ [Next]_vars => Resolved'
  BY ResolvedKept
<1> QED BY <1>1, <1>2, StaysInPlace, PTL DEF Spec

\* A strategy expands what the request carries, and no more than Validate looked at.
LEMMA CredentialRefs ==
    ASSUME NEW a \in AuthBlocks
    PROVE  SecretRefs(CredentialOf(a)) = UNION {SecretRefs(t) : t \in Carried(a)}
<1>1. a.value \in Seq(Tokens) /\ a.username \in Seq(Tokens) /\ a.password \in Seq(Tokens)
  BY DEF AuthBlocks, Templates
<1>2. \A f, g \in Seq(Tokens) :
         f \o g \in Seq(Tokens) /\ SecretRefs(f \o g) = SecretRefs(f) \cup SecretRefs(g)
  BY ElemsOfConcat DEF SecretRefs
<1>3. SecretRefs(a.username \o a.password) = SecretRefs(a.username) \cup SecretRefs(a.password)
  BY <1>1, <1>2
<1>4. SecretRefs((a.value \o a.username) \o a.password) =
        (SecretRefs(a.value) \cup SecretRefs(a.username)) \cup SecretRefs(a.password)
  <2>1. /\ a.value \o a.username \in Seq(Tokens)
        /\ SecretRefs(a.value \o a.username) = SecretRefs(a.value) \cup SecretRefs(a.username)
    BY <1>1, <1>2
  <2>2. SecretRefs((a.value \o a.username) \o a.password) =
          SecretRefs(a.value \o a.username) \cup SecretRefs(a.password)
    BY <1>1, <1>2, <2>1
  <2> QED BY <2>1, <2>2
<1>5. CASE a.strategy \in {"header-key", "bearer"}
  BY <1>5 DEF Carried, CredentialOf
<1>6. CASE a.strategy = "basic"
  BY <1>3, <1>6 DEF Carried, CredentialOf
<1>7. CASE a.strategy = "oauth2-client-credentials"
  BY <1>4, <1>7 DEF Carried, CredentialOf
<1>8. CASE a.strategy \notin {"header-key", "bearer", "basic", "oauth2-client-credentials"}
  <2>1. SecretRefs(<<>>) = {}
    BY ElemsOfEmpty DEF SecretRefs
  <2> QED BY <1>8, <2>1 DEF Carried, CredentialOf
<1> QED BY <1>5, <1>6, <1>7, <1>8

LEMMA ExpandedIsDeclared ==
    ASSUME NEW a \in AuthBlocks
    PROVE  SecretRefs(CredentialOf(a)) \subseteq UNION {SecretRefs(t) : t \in AuthTemplates(a)}
<1>1. Carried(a) \subseteq AuthTemplates(a)
  BY DEF Carried, AuthTemplates
<1> QED BY <1>1, CredentialRefs

\* Nothing is sent and nothing dialled before every secret it carries is resolved
\* (the stages of executeHTTP, executeJSONRPCWS and runStep).
THEOREM NothingUnresolvedLeaves == Spec => []NothingLeavesUnresolved
<1>1. ASSUME Where, Resolved, pc = "send" PROVE Needs \subseteq cache
  <2> DEFINE q == RequestOf(step, role)
             a == AuthOf(step, role)
  <2>1. ~IsWs(step) /\ ~call.dryRun /\ Runs(step, role)
    BY <1>1 DEF Where, Working, Labels
  <2>2. SecretRefs(Base(step, role)) \cup SecretRefs(q.path) \cup SecretRefs(q.query)
          \cup HeaderRefs(q.headers) \cup SecretRefs(q.body) \subseteq cache
    BY <1>1, <2>1 DEF Resolved, AgendaRefs
  <2>3. ASSUME ~(step = 0 /\ cmd.noauth)
        PROVE  UNION {SecretRefs(t) : t \in Carried(a)} \subseteq cache
    <3>1. a \in AuthBlocks
      BY <1>1, <2>1, RequestTyped DEF Where
    <3>2. SecretRefs(CredentialOf(a)) \subseteq cache
      BY <1>1, <2>3 DEF Resolved, CredRefs
    <3> QED BY <3>1, <3>2, CredentialRefs
  <2>4. Needs = SecretRefs(Base(step, role)) \cup
                (SecretRefs(q.path) \cup SecretRefs(q.query) \cup SecretRefs(q.body)
                  \cup HeaderRefs(q.headers) \cup
                  IF step = 0 /\ cmd.noauth THEN {}
                  ELSE UNION {SecretRefs(t) : t \in Carried(a)})
    BY <2>1, Zenon DEF Needs, HeaderRefs
  <2> HIDE DEF q, a
  <2> QED BY <2>2, <2>3, <2>4
<1>2. ASSUME Where, Resolved, pc = "ws" PROVE Needs \subseteq cache
  <2>1. IsWs(step) /\ ~call.dryRun /\ step = 0 /\ RequestOf(step, role) = cmd
    BY <1>2 DEF Where, Working, Labels, IsWs, RequestOf
  <2>2. SecretRefs(Base(step, role)) \cup SecretRefs(cmd.params)
          \cup (IF cmd.noauth THEN {} ELSE SecretRefs(AuthOf(step, role).params)) \subseteq cache
    BY <1>2, <2>1 DEF Resolved, AgendaRefs
  <2> QED BY <2>1, <2>2 DEF Needs
<1>3. Where /\ Resolved => NothingLeavesUnresolved
  BY <1>1, <1>2 DEF NothingLeavesUnresolved
<1> QED BY <1>3, StaysInPlace, ResolvesBeforeItLeaves, PTL

\* A dry run sends nothing, logs in nowhere, and resolves no secret of a header, a body,
\* the params or the credential (executeHTTP, executeJSONRPCWS).
THEOREM DryRunsStayHome == Spec => []DryRunStaysHome
<1>1. ASSUME WsWhere, Resolved, call.dryRun
      PROVE  sent = 0 /\ got = {} /\ wpc = "idle"
  BY <1>1 DEF WsWhere, WsInv, WsShape, Resolved
<1>2. ASSUME Resolved, call.dryRun, cache # {}
      PROVE  cmd.steps = <<>> /\ cache \subseteq SecretRefs(Base(0, "main"))
                                   \cup SecretRefs(cmd.path) \cup SecretRefs(cmd.query)
  <2>1. RequestOf(0, "main") = cmd
    BY DEF RequestOf
  <2> QED BY <1>2, <2>1 DEF Resolved, AgendaRefs
<1>3. WsWhere /\ Resolved => DryRunStaysHome
  BY <1>1, <1>2 DEF DryRunStaysHome
<1> QED BY <1>3, WsStaysInPlace, ResolvesBeforeItLeaves, PTL

-----------------------------------------------------------------------------
(* How an invocation ends.                                                 *)

\* What has to be true of a cause for the invocation to end with it.
Fitting(c, sentNow, failedNow) ==
    /\ c = "status" => failedNow = "status"
    /\ c = "network" => failedNow = "network" \/ wres = "network"
    /\ c = "rpc" => wres = "rpc"
    /\ c # "transport"
    /\ c = "endpoint" => call.endpoint # "" \/ cmd.steps # <<>>
    /\ cmd.steps = <<>> =>
          /\ failedNow # "none" => c = failedNow
          /\ wres \notin {"none", "ok"} => c = wres
          /\ c \in {"usage", "incomplete", "config"} => sentNow = 0 /\ got = {}
          /\ c = "none" => call.dryRun \/ sentNow > 0 \/ wres = "ok"

LEMMA EndedFinished ==
    ASSUME Ended, NEW c, Finish(c), UNCHANGED wsVars, sent' \in Nat, Fitting(c, sent', failed')
    PROVE  Ended'
<1>1. /\ pc' = "done" /\ cause' = c /\ UNCHANGED <<call, cmd>>
      /\ class' = IF c = "none" THEN "ok" ELSE Reported(c)
  BY DEF Finish, place
<1>2. UNCHANGED <<wres, got>>
  BY DEF wsVars
<1>3. Reported(cause)' = Reported(c)
  BY <1>1, Zenon DEF Reported, Classify
<1>4. class' = IF cause' = "none" THEN "ok" ELSE Reported(cause)'
  BY <1>1, <1>3
<1> QED BY <1>1, <1>2, <1>4 DEF Ended, Fitting, Working, Labels

\* Steps of an invocation that goes on.
LEMMA EndedGoesOn ==
    ASSUME Ended, pc # "done", pc' \in Working, UNCHANGED <<call, cmd, cause>>, sent' \in Nat,
           cmd.steps = <<>> =>
              /\ failed' = "none"
              /\ pc' \in {"build", "ws"} => sent' = 0
              /\ sent' > 0 => CredRefs(step, role)' \subseteq cache'
              /\ pc' = "reply" => sent' > 0 \/ wres' = "ok"
    PROVE  Ended'
BY DEF Ended, Working, Labels

LEMMA OneRequest ==
    ASSUME Where, pc \in Working, cmd.steps = <<>> PROVE step = 0
<1>1. step \in 0 .. Len(cmd.steps)
  BY DEF Where, Runs
<1> QED BY <1>1

LEMMA EndedFailed ==
    ASSUME Where, Ended, pc \in Working, NEW c, Fail(c), UNCHANGED wsVars, sent' \in Nat,
           Fitting(c, sent', failed')
    PROVE  Ended'
<1>1. CmdSound /\ Runs(step, role)
  BY DEF Where
<1>2. CASE Finish(c)
  BY <1>2, EndedFinished
<1>3. CASE step # 0 /\ Onward
  <2>1. cmd.steps # <<>>
    BY <1>3, OneRequest
  <2>2. pc' \in {"build", "reply"} /\ UNCHANGED <<call, cmd, cause>>
    BY <1>3 DEF Onward, Go, Replied, place
  <2> QED BY <2>1, <2>2, EndedGoesOn DEF Working, Labels
<1> QED BY <1>1, <1>2, <1>3, FailEndsOrGoesOn

\* While nothing is going on over a WebSocket.
LEMMA Idle ==
    ASSUME WsWhere, pc \in {"lookup", "begin", "build", "page", "auth", "send"}
    PROVE  wres = "none" /\ got = {}
BY DEF WsWhere, WsInv, WsShape, WsTypeOK

LEMMA EndedStarts == Init => Ended
BY DEF Init, Ended, Working, Labels

LEMMA EndedOnLookup == ASSUME Where, WsWhere, Ended, Lookup PROVE Ended'
<1>1. /\ pc = "lookup" /\ cmd = BlankCommand /\ sent = 0 /\ failed = "none" /\ cause = "none"
      /\ UNCHANGED <<sent, failed, wsVars>> /\ wres = "none" /\ got = {}
  BY Idle DEF Lookup, Where, Ended, progress
<1>2. CASE Finish("usage")
  <2>1. Fitting("usage", sent', failed')
    BY <1>1 DEF Fitting
  <2> QED BY <1>1, <1>2, <2>1, EndedFinished
<1>3. CASE ~Finish("usage")
  <2>1. pc' = "begin" /\ UNCHANGED <<call, cause>>
    BY <1>3 DEF Lookup
  <2> QED BY <1>1, <2>1 DEF Ended, Working, Labels
<1> QED BY <1>2, <1>3

LEMMA EndedOnBegin == ASSUME Where, WsWhere, Ended, Begin PROVE Ended'
<1>1. /\ pc = "begin" /\ sent = 0 /\ failed = "none"
      /\ UNCHANGED <<sent, failed, wsVars>> /\ wres = "none" /\ got = {}
  BY Idle DEF Begin, Ended, progress
<1>2. CASE Finish("incomplete")
  BY <1>1, <1>2, EndedFinished DEF Fitting
<1>3. CASE Finish("endpoint") /\ EndpointName # "" /\ EndpointName \notin DOMAIN svc.endpoints
  <2>1. call.endpoint # "" \/ cmd.steps # <<>>
    BY <1>3 DEF EndpointName, Where, CmdSound, Reach
  <2> QED BY <1>1, <1>3, <2>1, EndedFinished DEF Fitting
<1>4. CASE Finish("none") /\ call.dryRun
  BY <1>1, <1>4, EndedFinished DEF Fitting
<1>5. CASE \E k, r : Go(k, r)
  <2>1. pc' = "build" /\ UNCHANGED <<call, cmd, cause>>
    BY <1>5 DEF Go
  <2> QED BY <1>1, <2>1, EndedGoesOn DEF Working, Labels
<1> QED
  <2>1. svc.transport \in Transports
    BY Loaded DEF Where
  <2> QED BY <1>2, <1>3, <1>4, <1>5, <2>1 DEF Begin

\* A secret that is not in the cache when a credential is applied: nothing has been sent.
LEMMA ConfigBeforeSending ==
    ASSUME Where, Resolved, Ended, cmd.steps = <<>>, Expanding, token.kind = "secret",
           token.name \notin cache
    PROVE  sent = 0
<1>1. CASE pc = "build"
  BY <1>1 DEF Ended
<1>2. CASE pc = "auth"
  <2>1. agenda \in Seq(Items) /\ agenda # <<>>
    BY DEF Where, Expanding
  <2>2. token.name \in Owed(agenda)
    BY <2>1, OwedTail DEF token
  <2>3. token.name \in CredRefs(step, role)
    BY <1>2, <2>2 DEF Resolved
  <2>4. sent \in Nat /\ ~(sent > 0)
    BY <1>2, <2>3 DEF Ended, Working, Labels
  <2> QED BY <2>4
<1> QED BY <1>1, <1>2 DEF Expanding

LEMMA EndedOnExpanding ==
    ASSUME Where, WsWhere, Resolved, Ended,
           Expand \/ SecretCached \/ SecretUndeclared \/ SecretFromEnv \/ SecretFromProvider
    PROVE  Ended'
<1>1. /\ Expanding /\ UNCHANGED <<pages, found, sent, failed, wsVars>> /\ pc \in {"build", "auth"}
      /\ wres = "none" /\ got = {} /\ sent \in Nat /\ pc \in Working /\ cause = "none"
  BY ExpandingSteps, Idle DEF Expanding, Ended, Working, Labels
<1>2. /\ cmd.steps = <<>> => failed = "none"
      /\ cmd.steps = <<>> /\ sent > 0 => CredRefs(step, role) \subseteq cache
      /\ cmd.steps = <<>> /\ pc = "build" => sent = 0
  BY <1>1 DEF Ended
<1>3. CASE Expanded
  <2>1. UNCHANGED <<place, pc, cause>>
    BY <1>3 DEF Expanded
  <2>2. CredRefs(step, role)' = CredRefs(step, role)
    BY <2>1, RefsStand
  <2>3. cache \subseteq cache'
    BY <1>3 DEF Expand, SecretCached, SecretUndeclared, SecretFromEnv, SecretFromProvider
  <2> QED BY <1>1, <1>2, <2>1, <2>2, <2>3, EndedGoesOn DEF place
<1>4. CASE ~Expanded
  <2>1. \E c \in {"template", "config", "provider"} :
           /\ ExpandFails(c)
           /\ c = "config" => token.kind = "secret" /\ token.name \notin cache
    BY <1>4 DEF Expand, SecretCached, SecretUndeclared, SecretFromEnv, SecretFromProvider
  <2>2. PICK c \in {"template", "config", "provider", "credential"} :
           /\ Fail(c)
           /\ c = "config" => token.kind = "secret" /\ token.name \notin cache
    BY <2>1 DEF ExpandFails
  <2>3. cmd.steps = <<>> /\ c = "config" => sent = 0
    BY <1>1, <2>2, ConfigBeforeSending
  <2>4. Fitting(c, sent', failed')
    BY <1>1, <1>2, <2>3 DEF Fitting
  <2> QED BY <1>1, <2>2, <2>4, EndedFailed
<1> QED BY <1>3, <1>4

LEMMA EndedOnSending ==
    ASSUME Where, WsWhere, Resolved, Ended, SendOK \/ SendFails PROVE Ended'
<1>1. /\ pc = "send" /\ pc \in Working /\ UNCHANGED <<cache, wsVars>> /\ wres = "none" /\ got = {}
      /\ sent \in Nat /\ sent' = sent + 1 /\ sent' \in Nat /\ sent' > 0 /\ cause = "none"
      /\ CmdSound /\ Runs(step, role) /\ CredRefs(step, role) \subseteq cache
  <2>1. pc = "send" /\ UNCHANGED <<cache, wsVars>> /\ sent' = sent + 1
    BY DEF SendOK, SendFails
  <2>2. wres = "none" /\ got = {}
    BY <2>1, Idle
  <2>3. sent \in Nat /\ sent' \in Nat /\ sent' > 0 /\ cause = "none"
    BY <2>1 DEF Ended
  <2>4. pc \in Working /\ CmdSound /\ Runs(step, role) /\ CredRefs(step, role) \subseteq cache
    BY <2>1 DEF Where, Resolved, Working, Labels
  <2> QED BY <2>1, <2>2, <2>3, <2>4
<1>2. CASE SendOK
  <2>1. failed' = "none"
    BY <1>2 DEF SendOK
  <2>2. CASE Enter("page") \/ Replied
    <3>1. UNCHANGED <<place, cause>> /\ pc' \in {"page", "reply"}
      BY <2>2 DEF Enter, Replied
    <3>2. CredRefs(step, role)' = CredRefs(step, role)
      BY <3>1, RefsStand
    <3> QED BY <1>1, <2>1, <3>1, <3>2, EndedGoesOn DEF place, Working, Labels
  <2>3. CASE Fail("answer")
    BY <1>1, <2>1, <2>3, EndedFailed DEF Fitting
  <2>4. CASE Advance /\ step # 0
    <3>1. cmd.steps # <<>>
      BY <1>1, <2>4, OneRequest
    <3>2. pc' \in {"build", "reply"} /\ UNCHANGED <<call, cmd, cause>>
      BY <2>4 DEF Advance, Go, Replied, place
    <3> QED BY <1>1, <3>1, <3>2, EndedGoesOn DEF Working, Labels
  <2> QED BY <1>1, <1>2, <2>2, <2>3, <2>4, AdvanceGoesOn DEF SendOK
<1>3. CASE SendFails
  <2>1. PICK c \in {"status", "network"} : failed' = c /\ Fail(c)
    BY <1>3 DEF SendFails
  <2>2. Fitting(c, sent', failed')
    BY <1>1, <2>1 DEF Fitting
  <2> QED BY <1>1, <2>1, <2>2, EndedFailed
<1> QED BY <1>2, <1>3

LEMMA EndedKept == ASSUME Where, WsWhere, Resolved, Ended, [Next]_vars PROVE Ended'
<1>1. CASE Lookup \/ Begin
  BY <1>1, EndedOnLookup, EndedOnBegin
<1>2. CASE Expand \/ SecretCached \/ SecretUndeclared \/ SecretFromEnv \/ SecretFromProvider
  BY <1>2, EndedOnExpanding
<1>3. CASE Preview
  <2>1. /\ Finish("none") /\ call.dryRun /\ wres = "none" /\ pc = "build" /\ failed' = failed
        /\ UNCHANGED wsVars /\ sent' = sent /\ pc \in Working
    BY <1>3, Idle DEF Preview, Built, progress, Working, Labels
  <2>2. Fitting("none", sent', failed')
    BY <2>1 DEF Fitting, Ended
  <2> QED BY <2>1, <2>2, EndedFinished DEF Ended
<1>4. CASE StartHTTP \/ StartWs
  <2>1. /\ pc = "build" /\ pc' \in {"page", "ws"} /\ UNCHANGED <<place, cause, cache, sent, failed>>
    BY <1>4 DEF StartHTTP, StartWs, Built, Enter, progress
  <2> QED BY <2>1, EndedGoesOn DEF place, Ended, Working, Labels
<1>5. CASE StartPage \/ Apply
  <2>1. /\ pc \in {"page", "auth"} /\ pc \in Working /\ UNCHANGED <<cache, sent, failed, wsVars>>
        /\ wres = "none" /\ sent \in Nat /\ cause = "none"
        /\ cmd.steps = <<>> => failed = "none" /\ (sent > 0 => CredRefs(step, role) \subseteq cache)
    BY <1>5, Idle DEF StartPage, Apply, progress, Ended, Working, Labels
  <2>2. CASE pc' \in {"auth", "send"} /\ UNCHANGED <<place, cause>>
    <3>1. CredRefs(step, role)' = CredRefs(step, role)
      BY <2>2, RefsStand
    <3> QED BY <2>1, <2>2, <3>1, EndedGoesOn DEF place, Working, Labels
  <2>3. CASE Fail("malformed") \/ Fail("credential")
    <3>1. Fitting("malformed", sent', failed') /\ Fitting("credential", sent', failed')
      BY <2>1 DEF Fitting
    <3> QED BY <2>1, <2>3, <3>1, EndedFailed
  <2> QED BY <1>5, <2>2, <2>3 DEF StartPage, Apply, Enter
<1>6. CASE SendOK \/ SendFails
  BY <1>6, EndedOnSending
<1>7. CASE WsEnds
  <2>1. /\ pc = "ws" /\ pc \in Working /\ UNCHANGED <<sent, failed, wsVars>> /\ sent \in Nat
        /\ cmd.steps = <<>> => failed = "none" /\ sent = 0
        /\ wres \in {"ok", "network", "refused", "rpc"}
    BY <1>7 DEF WsEnds, progress, Ended, WsWhere, WsInv, WsShape, WsTypeOK, Working, Labels
  <2>2. CASE wres = "ok"
    <3>1. pc' = "reply" /\ UNCHANGED <<call, cmd, cause, wres>>
      BY <1>7, <2>2 DEF WsEnds, Replied, place, wsVars
    <3> QED BY <2>1, <2>2, <3>1, EndedGoesOn DEF Working, Labels
  <2>3. CASE wres # "ok"
    <3>1. Finish(wres)
      BY <1>7, <2>3 DEF WsEnds
    <3>2. Fitting(wres, sent', failed')
      BY <2>1, <2>3 DEF Fitting
    <3> QED BY <2>1, <3>1, <3>2, EndedFinished
  <2> QED BY <2>2, <2>3
<1>8. CASE Render
  <2>1. /\ pc = "reply" /\ pc \in Working /\ UNCHANGED <<sent, failed, wsVars>> /\ sent \in Nat
        /\ cmd.steps = <<>> => failed = "none" /\ (sent > 0 \/ wres = "ok")
        /\ wres \in {"none", "ok"} /\ step \in 0 .. Len(cmd.steps)
    BY <1>8 DEF Render, progress, Ended, WsWhere, WsInv, WsShape, WsTypeOK, Where, Runs, Working, Labels
  <2>2. PICK c \in {"none", "render", "filter"} : Finish(c)
    BY <1>8 DEF Render
  <2>3. Fitting(c, sent', failed')
    BY <2>1 DEF Fitting
  <2> QED BY <2>1, <2>2, <2>3, EndedFinished
<1>9. CASE WsStep \/ ServerStep \/ Time
  <2>1. pc = "ws" /\ UNCHANGED eVars
    BY <1>9 DEF WsStep, ServerStep, Time
  <2>2. UNCHANGED <<call, cmd, pc, place, cause, cache, sent, failed>> /\ pc \in Working
    BY <2>1 DEF eVars, place, Working, Labels
  <2>3. CredRefs(step, role)' = CredRefs(step, role)
    BY <2>2, RefsStand
  <2> QED BY <2>1, <2>2, <2>3, EndedGoesOn DEF Ended, Working, Labels
<1>10. CASE UNCHANGED vars
  <2>1. UNCHANGED <<call, cmd, pc, place, cause, class, cache, sent, failed, wres, got>>
    BY <1>10 DEF vars, eVars, wsVars, place
  <2>2. CredRefs(step, role)' = CredRefs(step, role)
    BY <2>1, RefsStand
  <2>3. Reported(cause)' = Reported(cause)
    BY <2>1, Zenon DEF Reported, Classify
  <2> QED BY <2>1, <2>2, <2>3 DEF Ended
<1> QED BY <1>1, <1>2, <1>3, <1>4, <1>5, <1>6, <1>7, <1>8, <1>9, <1>10 DEF Next, Proceed

THEOREM EndsFollow == Spec => []Ended
<1>1. Init => Ended
  BY EndedStarts
<1>2. Where /\ WsWhere /\ Resolved /\ Ended /\ [Next]_vars => Ended'
  BY EndedKept
<1> QED BY <1>1, <1>2, StaysInPlace, WsStaysInPlace, ResolvesBeforeItLeaves, PTL DEF Spec

\* For any invocation of a server that does not say "unknown command": the classes http
\* and network of any command, and every class of a plain one, tell what was sent and what
\* came back (Classify over the wrapping of every layer).
THEOREM ExitClassesAreTrue == Spec => []ExitClassTellsWhatHappened
<1>1. ASSUME Ended, WsWhere, pc = "done", call.serverSays # "unknown command"
      PROVE  /\ class = "http" => failed = "status" \/ answered[2] = "error"
             /\ class = "network" => failed = "network" \/ wres = "network"
             /\ cmd.steps = <<>> =>
                   /\ class = "usage" => sent = 0 /\ got = {}
                   /\ failed = "status" \/ wres = "rpc" => class = "http"
                   /\ failed = "network" \/ wres = "network" => class = "network"
                   /\ wres = "refused" => class = "auth"
                   /\ class = "ok" => call.dryRun \/ sent > 0 \/ wres = "ok"
  <2>1. class = IF cause = "none" THEN "ok" ELSE Classify(cause)
    BY <1>1 DEF Ended, Reported
  <2>2. wres = "rpc" => answered[2] = "error"
    BY <1>1 DEF WsWhere, WsInv, AnswerIsTheMethods
  <2>3. /\ class = "http" => cause \in {"status", "rpc"}
        /\ class = "network" => cause = "network"
        /\ class = "usage" => cause \in {"usage", "incomplete", "config"}
        /\ class = "ok" => cause = "none"
    BY <2>1 DEF Classify
  <2>4. /\ cause \in {"status", "rpc"} => class = "http"
        /\ cause = "network" => class = "network"
        /\ cause = "refused" => class = "auth"
    BY <2>1 DEF Classify
  <2> QED BY <1>1, <2>2, <2>3, <2>4 DEF Ended
<1>2. Ended /\ WsWhere => ExitClassTellsWhatHappened
  BY <1>1 DEF ExitClassTellsWhatHappened
<1> QED BY <1>2, EndsFollow, WsStaysInPlace, PTL

\* For any accepted manifest and any profile the engine knows the transport, finds the
\* endpoint a plain command names, and finds the secrets of the auth block of the service
\* declared.  Other endpoints, and the secrets of other templates, are not settled by
\* Validate.
THEOREM LintedServicesKnowTheirParts == Spec => []LintedServicesDoNotMisfire
<1>1. ASSUME Where, Resolved, Expanding, token.kind = "secret",
             Head(agenda).stage \in {"auth", "login"}, TargetOf(step, role).auth = <<>>
      PROVE  token.name \in DOMAIN svc.secrets
  <2> DEFINE a == call.manifest.auth
  <2>1. pc \in Working /\ pc \in {"build", "auth"} /\ agenda \in Seq(Items) /\ agenda # <<>>
    BY <1>1 DEF Expanding, Where, Working, Labels
  <2>2. Head(agenda) \in Elems(agenda)
    BY <2>1, OwedTail
  <2>3. AuthOf(step, role) = a /\ a \in AuthBlocks
    BY <1>1, <2>1, RequestTyped DEF Where
  <2>4. token \in Elems(a.params) \/ token \in Elems(CredentialOf(a))
    BY <1>1, <2>1, <2>2, <2>3 DEF Resolved, Rightful, token
  <2>5. UNION {SecretRefs(t) : t \in AuthTemplates(a)} \subseteq DOMAIN call.manifest.secrets
    BY <1>1 DEF Where, Valid, AuthOK
  <2>6. token.name \in UNION {SecretRefs(t) : t \in AuthTemplates(a)}
    <3>1. CASE token \in Elems(a.params)
      BY <1>1, <3>1 DEF AuthTemplates, SecretRefs
    <3>2. CASE token \in Elems(CredentialOf(a))
      <4>1. token.name \in SecretRefs(CredentialOf(a))
        BY <1>1, <3>2 DEF SecretRefs
      <4> QED BY <2>3, <4>1, ExpandedIsDeclared
    <3> QED BY <2>4, <3>1, <3>2
  <2>7. DOMAIN call.manifest.secrets \subseteq DOMAIN svc.secrets
    BY <1>1, Loaded DEF Where
  <2> QED BY <2>5, <2>6, <2>7
<1>2. Where /\ Resolved /\ Ended => LintedServicesDoNotMisfire
  BY <1>1 DEF LintedServicesDoNotMisfire, Ended
<1> QED BY <1>2, StaysInPlace, ResolvesBeforeItLeaves, EndsFollow, PTL

-----------------------------------------------------------------------------
(* Types, and the cap on pages.                                            *)

Classes == {"none", "ok", "usage", "auth", "http", "network", "decode", "error"}

Counted ==
    /\ pages \in 0 .. MaxPages /\ (pc \notin {"reply", "done"} => pages < MaxPages)
    /\ failed \in {"none", "status", "network"}
    /\ class \in Classes

\* Only a request that is over touches the class.
LEMMA EndsWithAClass ==
    /\ \A c : Finish(c) => class' \in Classes /\ pc' = "done"
    /\ \A k, r : Go(k, r) => class' = class
    /\ Replied => class' = class /\ pc' = "reply"
<1>1. \A c : Reported(c) \in Classes
  BY DEF Reported, Classify, Classes
<1> QED BY <1>1, Zenon DEF Finish, Go, Replied, Classes

LEMMA AdvanceClass == ASSUME Advance PROVE class' = class /\ (step = 0 => pc' = "reply")
BY EndsWithAClass DEF Advance

LEMMA FailClass ==
    ASSUME class \in Classes, NEW c, Fail(c)
    PROVE  class' \in Classes /\ (step = 0 => pc' \in {"done", "reply"})
<1>1. CASE role = "fallback"
  BY <1>1, AdvanceClass DEF Fail
<1>2. CASE role # "fallback" /\ step # 0 /\ role = "main" /\ cmd.steps[step].onError # <<>>
  BY <1>2, EndsWithAClass DEF Fail
<1>3. CASE role # "fallback" /\ ~(step # 0 /\ role = "main" /\ cmd.steps[step].onError # <<>>)
  BY <1>3, EndsWithAClass DEF Fail
<1> QED BY <1>1, <1>2, <1>3

LEMMA CountedKept == ASSUME Counted, [Next]_vars PROVE Counted'
<1>0. pages \in Nat /\ MaxPages \in Nat /\ class \in Classes
  BY MaxPagesAssumption DEF Counted
<1>1. CASE Lookup
  BY <1>1, EndsWithAClass DEF Lookup, Counted, progress
<1>2. CASE Begin
  BY <1>2, EndsWithAClass DEF Begin, Counted, progress
<1>3. CASE Expand \/ SecretCached \/ SecretUndeclared \/ SecretFromEnv \/ SecretFromProvider
  <2>1. /\ Expanding /\ UNCHANGED <<pages, failed>>
        /\ UNCHANGED class \/ \E c : Fail(c)
    BY <1>3, ExpandingSteps DEF Expanded, ExpandFails
  <2> QED BY <1>0, <2>1, FailClass DEF Expanding, Counted
<1>4. CASE Preview \/ StartHTTP \/ StartWs
  BY <1>4, EndsWithAClass DEF Preview, StartHTTP, StartWs, Built, Enter, Counted, progress
<1>5. CASE StartPage \/ Apply
  <2>1. /\ pc \in {"page", "auth"} /\ UNCHANGED <<pages, failed>>
        /\ UNCHANGED class \/ \E c : Fail(c)
    BY <1>5 DEF StartPage, Apply, Enter, progress
  <2> QED BY <1>0, <2>1, FailClass DEF Counted
<1>6. CASE SendOK
  <2>1. /\ pc = "send" /\ failed' = "none" /\ pages < MaxPages
        /\ pages' = IF Paginated THEN pages + 1 ELSE pages
    BY <1>6 DEF SendOK, Counted
  <2>2. pages' \in 0 .. MaxPages /\ (~Paginated => pages' < MaxPages)
    BY <1>0, <2>1
  <2>3. CASE Paginated /\ pages' < MaxPages /\ Enter("page")
    BY <2>1, <2>2, <2>3 DEF Enter, Counted
  <2>4. CASE Fail("answer")
    <3>1. class' \in Classes /\ (step = 0 => pc' \in {"done", "reply"})
      BY <1>0, <2>4, FailClass
    <3> QED BY <2>1, <2>2, <3>1 DEF Paginated, Counted
  <2>5. CASE Advance
    BY <1>0, <2>1, <2>2, <2>5, AdvanceClass DEF Paginated, Counted
  <2> QED BY <1>6, <2>3, <2>4, <2>5 DEF SendOK
<1>7. CASE SendFails
  <2>1. pc = "send" /\ UNCHANGED pages /\ \E c \in {"status", "network"} : failed' = c /\ Fail(c)
    BY <1>7 DEF SendFails
  <2> QED BY <1>0, <2>1, FailClass DEF Counted
<1>8. CASE WsEnds \/ Render
  BY <1>0, <1>8, EndsWithAClass DEF WsEnds, Render, Counted, progress
<1>9. CASE UNCHANGED eVars
  BY <1>9 DEF Counted, eVars
<1> QED BY <1>1, <1>2, <1>3, <1>4, <1>5, <1>6, <1>7, <1>8, <1>9
        DEF Next, Proceed, WsStep, ServerStep, Time, vars

LEMMA FoundKept == ASSUME Where, found \subseteq STRING, [Next]_vars PROVE found' \subseteq STRING
<1>1. CASE SendOK
  <2>1. Taken \subseteq STRING /\ \A part \in TakenInPart : part \subseteq STRING
    <3>1. pc = "send"
      BY <1>1 DEF SendOK
    <3>2. step # 0 => RequestOf(step, role).extract \cup RequestOf(step, role).capture \subseteq STRING
      BY <3>1, RequestTyped DEF Where, Working, Labels
    <3> QED BY <3>2 DEF Taken, TakenInPart
  <2> QED BY <1>1, <2>1 DEF SendOK
<1>2. CASE Lookup \/ Begin \/ Expand \/ SecretCached \/ SecretUndeclared \/ SecretFromEnv
           \/ SecretFromProvider
  BY <1>2 DEF Lookup, Begin, Expand, SecretCached, SecretUndeclared, SecretFromEnv,
              SecretFromProvider, progress
<1>3. CASE Preview \/ StartHTTP \/ StartWs \/ StartPage \/ Apply \/ SendFails \/ WsEnds \/ Render
  BY <1>3 DEF Preview, StartHTTP, StartWs, StartPage, Apply, SendFails, WsEnds, Render, progress
<1>4. CASE WsStep \/ ServerStep \/ Time \/ UNCHANGED vars
  BY <1>4 DEF WsStep, ServerStep, Time, vars, eVars
<1> QED BY <1>1, <1>2, <1>3, <1>4 DEF Next, Proceed

\* No listing takes more pages than the cap (executePaginated), and every variable has
\* its type.
THEOREM Typed == Spec => []TypeOK
<1>1. Init => Counted /\ found \subseteq STRING
  BY MaxPagesAssumption DEF Init, Counted, Classes
<1>2. Where /\ Counted /\ found \subseteq STRING /\ [Next]_vars
        => (Counted /\ found \subseteq STRING)'
  BY CountedKept, FoundKept
<1>3. Where /\ WsWhere /\ Fetched /\ Ended /\ Counted /\ found \subseteq STRING => TypeOK
  <2> SUFFICES ASSUME Where, WsWhere, Fetched, Ended, Counted, found \subseteq STRING PROVE TypeOK
    OBVIOUS
  <2>1. call \in Calls /\ pc \in Labels /\ step \in Nat /\ role \in {"main", "fallback"}
    BY DEF Where
  <2>2. WsTypeOK
    BY DEF WsWhere, WsInv, WsShape
  <2>3. cache \subseteq DOMAIN svc.secrets /\ fetches \in [DOMAIN svc.secrets -> Nat]
    BY DEF Fetched
  <2>4. sent \in Nat
    BY DEF Ended
  <2> QED BY <2>1, <2>2, <2>3, <2>4 DEF Counted, TypeOK, Labels, Classes
<1> QED BY <1>1, <1>2, <1>3, StaysInPlace, WsStaysInPlace, CacheHoldsWhatWasFetched, EndsFollow, PTL
        DEF Spec
=============================================================================
