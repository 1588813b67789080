-------------------------- MODULE TokenCacheProofs --------------------------
(***************************************************************************)
(* Theorems about TokenCache, for any processes, keys, lifetimes, margin   *)
(* and timeout, as long as the timeout is not above the margin.            *)
(***************************************************************************)
EXTENDS TokenCache, TLAPS

-----------------------------------------------------------------------------
\* The expiry in a cache file is late by no more than a request can take.
Reckoned(entry) ==
    entry.token.stated => entry.expiresAt <= entry.token.until + Timeout

\* Every cache file belongs to the key it is named after.
FilesKept ==
    \A k \in Keys : file[k] # NoEntry => Reckoned(file[k]) /\ file[k].token.key = k

\* So does what a process holds, and a reply is not overdue.
Held(p) ==
    /\ pc[p] # "idle" => key[p] \in Keys
    /\ buf[p] # NoEntry => Reckoned(buf[p]) /\ buf[p].token.key = key[p]
    /\ fresh[p] # NoToken => fresh[p].key = key[p]
    /\ got[p] # NoToken => got[p].key = key[p]
    /\ pc[p] \in {"check", "rename"} <=> buf[p] # NoEntry
    /\ pc[p] \in {"reply", "rename"} <=> fresh[p] # NoToken
    /\ got[p] # NoToken => pc[p] = "done"
    /\ pc[p] = "reply" => /\ sentAt[p] <= clock
                          /\ clock <= sentAt[p] + Timeout
                          /\ fresh[p].stated => sentAt[p] <= fresh[p].until

IInv == TypeOK /\ FilesKept /\ \A p \in Procs : Held(p)

-----------------------------------------------------------------------------
\* A step of p that leaves the clock and the cache directory alone, and what the other
\* processes hold.
Alone(p) ==
    /\ UNCHANGED <<clock, file>>
    /\ \A q \in Procs \ {p} :
          /\ pc'[q] = pc[q] /\ key'[q] = key[q] /\ buf'[q] = buf[q]
          /\ fresh'[q] = fresh[q] /\ sentAt'[q] = sentAt[q] /\ got'[q] = got[q]

LEMMA AloneKeeps ==
    ASSUME IInv, NEW p \in Procs, Alone(p), Held(p)'
    PROVE  FilesKept' /\ \A q \in Procs : Held(q)'
<1>1. FilesKept'
  BY DEF IInv, FilesKept, Reckoned, Alone
<1>2. ASSUME NEW q \in Procs \ {p} PROVE Held(q)'
  BY DEF IInv, Held, Reckoned, Alone
<1> QED BY <1>1, <1>2

LEMMA BeginStep ==
    ASSUME IInv, NEW p \in Procs, NEW k \in Keys, Begin(p, k) PROVE IInv'
<1> USE DEF IInv, TypeOK
<1>1. TypeOK'
  BY DEF Begin, Goto, Labels
<1>2. Alone(p)
  BY DEF Begin, Goto, Alone
<1>3. Held(p)'
  BY NoneAssumption DEF Begin, Goto, Held, Reckoned
<1> QED BY <1>1, <1>2, <1>3, AloneKeeps

LEMMA EndStep ==
    ASSUME IInv, NEW p \in Procs, End(p) PROVE IInv'
<1> USE DEF IInv, TypeOK
<1>1. TypeOK'
  BY DEF End, Goto, Labels
<1>2. Alone(p)
  BY DEF End, Goto, Alone
<1>3. Held(p)'
  BY DEF End, Goto, Held, Reckoned
<1> QED BY <1>1, <1>2, <1>3, AloneKeeps

LEMMA LookupStep ==
    ASSUME IInv, NEW p \in Procs, Lookup(p) PROVE IInv'
<1> USE DEF IInv, TypeOK
<1>0. key[p] \in Keys
  BY DEF Lookup, Held
<1>1. TypeOK'
  BY <1>0 DEF Lookup, Goto, Labels, CacheFile
<1>2. Alone(p)
  BY DEF Lookup, Goto, Alone
<1>3. Held(p)'
  BY <1>0 DEF Lookup, Goto, Held, FilesKept, Reckoned, CacheFile
<1> QED BY <1>1, <1>2, <1>3, AloneKeeps

LEMMA CheckStep ==
    ASSUME IInv, NEW p \in Procs, Check(p) PROVE IInv'
<1> USE DEF IInv, TypeOK
<1>0. buf[p] \in CacheEntries
  BY DEF Check, Held
<1>1. TypeOK'
  BY <1>0 DEF Check, Goto, Labels, CacheEntries
<1>2. Alone(p)
  BY DEF Check, Goto, Alone
<1>3. Held(p)'
  BY <1>0 DEF Check, Goto, Held, Reckoned
<1> QED BY <1>1, <1>2, <1>3, AloneKeeps

LEMMA EvictStep ==
    ASSUME IInv, NEW p \in Procs, Evict(p) PROVE IInv'
<1> USE DEF IInv, TypeOK
<1>1. TypeOK'
  BY DEF Evict, Goto, Labels, CacheFile
<1>2. FilesKept'
  BY DEF Evict, FilesKept, Reckoned, CacheFile
<1>3. ASSUME NEW q \in Procs PROVE Held(q)'
  BY DEF Evict, Goto, Held, Reckoned
<1> QED BY <1>1, <1>2, <1>3

LEMMA IssueStep ==
    ASSUME IInv, NEW p \in Procs, Issue(p) PROVE IInv'
<1> USE DEF IInv, TypeOK
<1>0. key[p] \in Keys
  BY DEF Issue, Held
<1>1. PICK token \in Tokens :
        /\ fresh' = [fresh EXCEPT ![p] = token]
        /\ token.key = key[p] /\ clock <= token.until
  <2>1. ASSUME NEW life \in Lifetimes
        PROVE  /\ [key |-> key[p], until |-> clock + life, stated |-> TRUE] \in Tokens
               /\ clock <= clock + life
    BY <1>0, TimeAssumption DEF Tokens
  <2>2. [key |-> key[p], until |-> clock, stated |-> FALSE] \in Tokens
    BY <1>0 DEF Tokens
  <2>3. PICK token : /\ fresh' = [fresh EXCEPT ![p] = token]
                     /\ \/ \E life \in Lifetimes :
                              token = [key |-> key[p], until |-> clock + life, stated |-> TRUE]
                        \/ token = [key |-> key[p], until |-> clock, stated |-> FALSE]
    BY DEF Issue
  <2>4. token \in Tokens /\ token.key = key[p] /\ clock <= token.until
    <3>1. ASSUME NEW life \in Lifetimes, token = [key |-> key[p], until |-> clock + life, stated |-> TRUE]
          PROVE  token \in Tokens /\ token.key = key[p] /\ clock <= token.until
      BY <2>1, <3>1
    <3>2. ASSUME token = [key |-> key[p], until |-> clock, stated |-> FALSE]
          PROVE  token \in Tokens /\ token.key = key[p] /\ clock <= token.until
      BY <2>2, <3>2
    <3> QED BY <2>3, <3>1, <3>2
  <2> QED BY <2>3, <2>4
<1>2. TypeOK'
  BY <1>1 DEF Issue, Goto, Labels
<1>3. Alone(p)
  BY DEF Issue, Goto, Alone
<1>4. Held(p)'
  BY <1>0, <1>1, NoneAssumption, TimeAssumption DEF Issue, Goto, Held, Reckoned
<1> QED BY <1>2, <1>3, <1>4, AloneKeeps

LEMMA ReceiveStep ==
    ASSUME IInv, NEW p \in Procs, Receive(p) PROVE IInv'
<1> USE DEF IInv, TypeOK
<1> DEFINE expiresIn == IF fresh[p].stated THEN fresh[p].until - sentAt[p] ELSE DefaultLife
           entry == [token |-> fresh[p], expiresAt |-> clock + expiresIn]
<1>0. /\ key[p] \in Keys /\ fresh[p] \in Tokens /\ fresh[p].key = key[p]
      /\ fresh[p].until \in Nat /\ sentAt[p] \in Nat /\ clock <= sentAt[p] + Timeout
      /\ fresh[p].stated => sentAt[p] <= fresh[p].until
  BY DEF Receive, Held, Tokens
<1>1. entry \in CacheEntries
  <2>1. expiresIn \in Nat
    BY <1>0, TimeAssumption
  <2> QED BY <1>0, <2>1 DEF CacheEntries
<1>2. Reckoned(entry)
  BY <1>0, TimeAssumption DEF Reckoned
<1>3. buf' = [buf EXCEPT ![p] = entry]
  BY DEF Receive
<1> HIDE DEF entry
<1>4. TypeOK'
  BY <1>1, <1>3 DEF Receive, Goto, Labels
<1>5. Alone(p)
  BY DEF Receive, Goto, Alone
<1>6. entry.token = fresh[p]
  BY DEF entry
<1>7. Held(p)'
  BY <1>0, <1>1, <1>2, <1>3, <1>6, NoneAssumption DEF Receive, Goto, Held, Reckoned
<1> QED BY <1>4, <1>5, <1>7, AloneKeeps

LEMMA RenameStep ==
    ASSUME IInv, NEW p \in Procs, Rename(p) PROVE IInv'
<1> USE DEF IInv, TypeOK
<1>0. /\ key[p] \in Keys /\ fresh[p] \in Tokens /\ fresh[p].key = key[p]
      /\ buf[p] \in CacheEntries /\ Reckoned(buf[p]) /\ buf[p].token.key = key[p]
  BY DEF Rename, Held
<1>1. TypeOK'
  BY <1>0 DEF Rename, Goto, Labels, CacheFile
<1>2. FilesKept'
  BY <1>0 DEF Rename, FilesKept, Reckoned, CacheFile
<1>3. ASSUME NEW q \in Procs PROVE Held(q)'
  BY <1>0 DEF Rename, Goto, Held, Reckoned
<1> QED BY <1>1, <1>2, <1>3

LEMMA TickStep == IInv /\ Tick => IInv'
<1> SUFFICES ASSUME IInv, Tick PROVE IInv'
  OBVIOUS
<1> USE DEF IInv, TypeOK, Tick, process
<1>1. TypeOK'
  OBVIOUS
<1>2. FilesKept'
  BY DEF FilesKept, Reckoned
<1>3. ASSUME NEW q \in Procs PROVE Held(q)'
  BY TimeAssumption DEF Held, Reckoned
<1> QED BY <1>1, <1>2, <1>3

-----------------------------------------------------------------------------
\* The inductive invariant.
THEOREM CacheInductive == Spec => []IInv
<1>1. Init => IInv
  BY DEF Init, IInv, TypeOK, FilesKept, Held, Labels
<1>2. IInv /\ UNCHANGED vars => IInv'
  BY DEF vars, process, IInv, TypeOK, FilesKept, Held, Reckoned
<1>3. IInv /\ Next => IInv'
  BY BeginStep, EndStep, LookupStep, CheckStep, EvictStep, IssueStep, ReceiveStep, RenameStep, TickStep
     DEF Next, Step, RequestFails, Crash
<1> QED BY <1>1, <1>2, <1>3, PTL DEF Spec

\* Every cache file and everything a process holds has its type.
THEOREM CacheTypeCorrect == Spec => []TypeOK
<1>1. IInv => TypeOK
  BY DEF IInv
<1> QED BY <1>1, CacheInductive, PTL

\* A command never uses the token of another client, token URL or scope
\* (cacheFileName), with any number of processes on the cache.
THEOREM TokensBelongToTheirKey == Spec => []TokenOfItsKey
<1>1. IInv => TokenOfItsKey
  BY DEF IInv, Held, TokenOfItsKey
<1> QED BY <1>1, CacheInductive, PTL

\* A cached token that is taken is still honoured, for every margin that is not below
\* the timeout of the token request (readCache, writeCache).
THEOREM TheMarginSuffices == Spec => CacheHitsAreHonoured
<1>1. ASSUME IInv, [Next]_vars, NEW p \in Procs,
             pc[p] = "check", got'[p] # got[p], got'[p].stated
      PROVE  clock < got'[p].until
  <2> USE DEF IInv, TypeOK
  <2>1. got[p] = NoToken
    BY <1>1 DEF Held
  <2>2. ~UNCHANGED vars /\ ~Tick
    BY <1>1 DEF vars, process, Tick
  <2>3. ~End(p)
    BY <1>1, <2>1 DEF End
  <2>4. ASSUME NEW q \in Procs, q # p
        PROVE  /\ ~\E k \in Keys : Begin(q, k)
               /\ ~Step(q) /\ ~Crash(q)
    BY <1>1, <2>4 DEF Begin, Step, Lookup, Check, Evict, Issue, RequestFails, Receive, Rename, Crash, End
  <2>5. Check(p)
    BY <1>1, <2>2, <2>3, <2>4
       DEF Next, Begin, Step, Lookup, Evict, Issue, RequestFails, Receive, Rename, Crash
  <2>6. /\ got'[p] = buf[p].token
        /\ clock + Margin < buf[p].expiresAt
    BY <1>1, <2>5 DEF Check
  <2>7. buf[p] \in CacheEntries /\ Reckoned(buf[p])
    BY <1>1 DEF Held
  <2>8. /\ buf[p].token.until \in Nat /\ buf[p].expiresAt \in Nat
        /\ buf[p].expiresAt <= buf[p].token.until + Timeout
    BY <1>1, <2>6, <2>7 DEF CacheEntries, Tokens, Reckoned
  <2> QED BY <1>1, <2>6, <2>8, TimeAssumption
<1>2. IInv /\ [Next]_vars =>
        [\A p \in Procs : pc[p] = "check" /\ got'[p] # got[p] /\ got'[p].stated =>
           clock < got'[p].until]_vars
  BY <1>1
<1> QED BY <1>2, CacheInductive, PTL DEF Spec, CacheHitsAreHonoured
=============================================================================
