----------------------------- MODULE TokenCache -----------------------------
(***************************************************************************)
(* The OAuth2 token cache (internal/auth/oauth2.go): files shared by all   *)
(* anyctl processes of a user, one for each client, token URL and scope.   *)
(* fetchOAuth2Token takes a cached token that is good for more than a      *)
(* safety margin; otherwise it evicts the file, asks the token endpoint    *)
(* and replaces the file by a rename.  Processes interleave, time passes   *)
(* between any two steps, requests fail and processes die.                 *)
(*                                                                         *)
(* A token is its key and the time its endpoint will honour it until.      *)
(***************************************************************************)
EXTENDS Naturals

CONSTANTS
    Procs,
    Endpoints,    \* client and token URL
    Scopes,
    Lifetimes,    \* the expires_in an endpoint may state
    DefaultLife,  \* what a missing expires_in is taken for (3600 s)
    Margin,       \* the safety margin (60 s)
    Timeout,      \* the client's timeout (30 s)
    MaxTime,      \* bound on the clock
    NoKey, NoToken, NoEntry

Keys == Endpoints \X Scopes

ASSUME TimeAssumption ==
    /\ Margin \in Nat /\ Timeout \in Nat /\ Timeout <= Margin
    /\ DefaultLife \in Nat \ {0}
    /\ Lifetimes \subseteq Nat \ {0}
    /\ MaxTime \in Nat
\* stated: the endpoint said how long it honours the token.
Tokens == [key : Keys, until : Nat, stated : BOOLEAN]
CacheEntries == [token : Tokens, expiresAt : Nat]

ASSUME NoneAssumption ==
    /\ NoKey \notin Keys
    /\ NoToken \notin Tokens
    /\ NoEntry \notin CacheEntries

VARIABLES
    clock,
    file,    \* [Keys -> CacheEntries \cup {NoEntry}]: the cache directory
    pc,      \* per process: where in fetchOAuth2Token it is
    key,     \* the key it needs a token for
    buf,     \* the entry it has read, or is about to rename into place
    fresh,   \* the token an endpoint has issued to it
    sentAt,  \* when it sent its request
    got      \* the token its command uses

process == <<pc, key, buf, fresh, sentAt, got>>
vars == <<clock, file, process>>

Labels == {"idle", "lookup", "check", "evict", "request", "reply", "rename", "done"}

TypeOK ==
    /\ clock \in Nat
    /\ file \in [Keys -> CacheEntries \cup {NoEntry}]
    /\ pc \in [Procs -> Labels]
    /\ key \in [Procs -> Keys \cup {NoKey}]
    /\ buf \in [Procs -> CacheEntries \cup {NoEntry}]
    /\ fresh \in [Procs -> Tokens \cup {NoToken}]
    /\ sentAt \in [Procs -> Nat]
    /\ got \in [Procs -> Tokens \cup {NoToken}]

-----------------------------------------------------------------------------
Goto(p, label) == pc' = [pc EXCEPT ![p] = label]

\* MUTANT of CacheFile: the scope is not part of the file name.
CacheFileWithoutScope(k) == <<k[1], CHOOSE s \in Scopes : TRUE>>

\* cacheFileName: client, token URL and scope, hashed without a collision.
CacheFile(k) == k

Begin(p, k) ==
    /\ pc[p] = "idle"
    /\ Goto(p, "lookup")
    /\ key' = [key EXCEPT ![p] = k]
    /\ UNCHANGED <<clock, file, buf, fresh, sentAt, got>>

\* The command has its token, or has failed without one; the process exits.
End(p) ==
    /\ Goto(p, "idle")
    /\ key' = [key EXCEPT ![p] = NoKey]
    /\ buf' = [buf EXCEPT ![p] = NoEntry]
    /\ fresh' = [fresh EXCEPT ![p] = NoToken]
    /\ sentAt' = [sentAt EXCEPT ![p] = 0]
    /\ got' = [got EXCEPT ![p] = NoToken]
    /\ UNCHANGED <<clock, file>>

\* readCache: the file is read as a whole.  Without one, or with one that cannot be
\* read or is not the regular file writeCache made, the endpoint is asked.
Lookup(p) ==
    /\ pc[p] = "lookup"
    /\ \E entry \in {file[CacheFile(key[p])], NoEntry} :
          /\ buf' = [buf EXCEPT ![p] = entry]
          /\ Goto(p, IF entry = NoEntry THEN "request" ELSE "check")
    /\ UNCHANGED <<clock, file, key, fresh, sentAt, got>>

\* MUTANT of Check: a token is used until it expires.
CheckWithoutMargin(p) ==
    /\ pc[p] = "check"
    /\ \/ /\ clock <= buf[p].expiresAt
          /\ got' = [got EXCEPT ![p] = buf[p].token]
          /\ Goto(p, "done")
       \/ /\ clock > buf[p].expiresAt
          /\ Goto(p, "evict")
          /\ UNCHANGED got
    /\ buf' = [buf EXCEPT ![p] = NoEntry]
    /\ UNCHANGED <<clock, file, key, fresh, sentAt>>

\* The token is used if it is good for more than the margin.
Check(p) ==
    /\ pc[p] = "check"
    /\ \/ /\ clock + Margin < buf[p].expiresAt
          /\ got' = [got EXCEPT ![p] = buf[p].token]
          /\ Goto(p, "done")
       \/ /\ clock + Margin >= buf[p].expiresAt
          /\ Goto(p, "evict")
          /\ UNCHANGED got
    /\ buf' = [buf EXCEPT ![p] = NoEntry]
    /\ UNCHANGED <<clock, file, key, fresh, sentAt>>

\* os.Remove(path), best effort: it removes the file that is there by now.
Evict(p) ==
    /\ pc[p] = "evict"
    /\ file' \in {file, [file EXCEPT ![CacheFile(key[p])] = NoEntry]}
    /\ Goto(p, "request")
    /\ UNCHANGED <<clock, key, buf, fresh, sentAt, got>>

\* External: the endpoint issues a token while the request is under way.  How long
\* it honours one without expires_in is not known.
Issue(p) ==
    /\ pc[p] = "request"
    /\ \E token \in {[key |-> key[p], until |-> clock + life, stated |-> TRUE] : life \in Lifetimes}
                    \cup {[key |-> key[p], until |-> clock, stated |-> FALSE]} :
          fresh' = [fresh EXCEPT ![p] = token]
    /\ sentAt' = [sentAt EXCEPT ![p] = clock]
    /\ Goto(p, "reply")
    /\ UNCHANGED <<clock, file, key, buf, got>>

\* An error before, at or after the request ends the command: an expansion, a
\* status other than 200, a body that is not JSON, an empty token, the timeout.
RequestFails(p) == pc[p] \in {"request", "reply"} /\ End(p)

\* The reply is decoded, and writeCache reckons the expiry from the time it is:
\* expires_in counts from when the token was issued.
Receive(p) ==
    /\ pc[p] = "reply"
    /\ LET life == fresh[p].until - sentAt[p]
           expiresIn == IF fresh[p].stated THEN life ELSE DefaultLife
       IN buf' = [buf EXCEPT ![p] = [token |-> fresh[p], expiresAt |-> clock + expiresIn]]
    /\ sentAt' = [sentAt EXCEPT ![p] = 0]
    /\ Goto(p, "rename")
    /\ UNCHANGED <<clock, file, key, fresh, got>>

\* The rest of writeCache, a temporary file of its own and its rename; when any of
\* it fails the token is used all the same.
Rename(p) ==
    /\ pc[p] = "rename"
    /\ file' \in {file, [file EXCEPT ![CacheFile(key[p])] = buf[p]]}
    /\ got' = [got EXCEPT ![p] = fresh[p]]
    /\ buf' = [buf EXCEPT ![p] = NoEntry]
    /\ fresh' = [fresh EXCEPT ![p] = NoToken]
    /\ Goto(p, "done")
    /\ UNCHANGED <<clock, key, sentAt>>

\* The process dies, or exits when it is done; the files stay.
Crash(p) == pc[p] # "idle" /\ End(p)

\* Time passes, but not while a reply is overdue: the client gives up first.
Tick ==
    /\ clock < MaxTime
    /\ \A p \in Procs : pc[p] = "reply" => clock < sentAt[p] + Timeout
    /\ clock' = clock + 1
    /\ UNCHANGED <<file, process>>

Init ==
    /\ clock = 0
    /\ file = [k \in Keys |-> NoEntry]
    /\ pc = [p \in Procs |-> "idle"]
    /\ key = [p \in Procs |-> NoKey]
    /\ buf = [p \in Procs |-> NoEntry]
    /\ fresh = [p \in Procs |-> NoToken]
    /\ sentAt = [p \in Procs |-> 0]
    /\ got = [p \in Procs |-> NoToken]

Step(p) ==
    \/ Lookup(p)
    \/ Check(p)
    \/ Evict(p)
    \/ Issue(p)
    \/ RequestFails(p)
    \/ Receive(p)
    \/ Rename(p)

Next ==
    \/ \E p \in Procs : (\E k \in Keys : Begin(p, k)) \/ Step(p) \/ Crash(p)
    \/ Tick

Spec == Init /\ [][Next]_vars

-----------------------------------------------------------------------------
\* A command never uses a token that was issued for another client, token URL or
\* scope, whoever wrote the cache file (cacheFileName).
TokenOfItsKey == \A p \in Procs : got[p] # NoToken => got[p].key = key[p]

\* A cached token that is taken is still honoured by its endpoint, although its
\* expiry was reckoned from the end of a request that may have taken the whole
\* timeout: this is what the margin is for (readCache, writeCache).
CacheHitsAreHonoured ==
    [][\A p \in Procs : pc[p] = "check" /\ got'[p] # got[p] /\ got'[p].stated =>
         clock < got'[p].until]_vars
=============================================================================
