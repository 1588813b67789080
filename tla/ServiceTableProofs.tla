------------------------- MODULE ServiceTableProofs -------------------------
(***************************************************************************)
(* Theorems about ServiceTable, for any catalogs, files, names, manifests  *)
(* and profiles.                                                           *)
(***************************************************************************)
EXTENDS ServiceTable, TLAPS

-----------------------------------------------------------------------------
\* What has been read and settled at each phase.
Order ==
    /\ phase \in {"config", "catalogs", "names"} =>
          \A p \in Present : p[1] = Local => p \in unread
    /\ phase \in {"names", "local", "done"} => \A p \in Installed : p \notin unread
    /\ phase = "done" => unread = {}
    /\ phase # "names" => unsettled = {}
    /\ phase # "failed" => culprit = NoService
    /\ \A name \in unsettled : definers[name] # {}

\* A definer has a manifest of that name, which was read.
DefinersRead ==
    \A cat \in Catalogs, name \in Names : cat \in definers[name] =>
        \E p \in Installed \ unread : p[1] = cat /\ NameOf(p) = name

\* The name and the qualified selector of a manifest.
Bears(p, s) == NameOf(p) = s \/ (p \in Installed /\ Qualified(p[1], NameOf(p)) = s)

TableLeads == \A s \in Selectors : services[s] # NoService => \E p \in Present : Bears(p, s)

OrphansWarned == phase = "done" => warned = {b \in bound : services[b] = NoService}

\* What holds whatever the names look like.
BaseInv ==
    /\ TypeOK
    /\ Order
    /\ DefinersRead
    /\ TableLeads
    /\ OrphansWarned
    /\ WhatTheGateAcceptsLoads

\* A manifest of a catalog that was read is under its qualified selector.
Registered(p) ==
    /\ services[Qualified(p[1], NameOf(p))] = p
    /\ origins[Qualified(p[1], NameOf(p))] = p[1]
    /\ p[1] \in definers[NameOf(p)]

\* A qualified selector comes from a manifest that was read, and so does a definer.
Rooted(cat, name) ==
    /\ services[Qualified(cat, name)] # NoService =>
          \E p \in Installed \ unread :
              services[Qualified(cat, name)] = p /\ p[1] = cat /\ NameOf(p) = name
    /\ cat \in definers[name] => services[Qualified(cat, name)] # NoService

Blank(name) == services[name] = NoService /\ origins[name] = "" /\ ambiguous[name] = {}

\* A bare name as the catalogs leave it, and as a local manifest leaves it.
ByCatalogs(name) ==
    \/ \E cat \in definers[name] :
          /\ definers[name] = {cat}
          /\ services[name] = services[Qualified(cat, name)]
          /\ origins[name] = cat
          /\ ambiguous[name] = {}
    \/ /\ \A cat \in definers[name] : definers[name] # {cat}
       /\ services[name] = NoService
       /\ origins[name] = ""
       /\ ambiguous[name] = definers[name]

ByLocal(name, p) ==
    /\ services[name] = p
    /\ origins[name] = IF definers[name] = {} THEN "local" ELSE "override"
    /\ ambiguous[name] = {}

ReadLocals(name) == {p \in Present \ unread : p[1] = Local /\ NameOf(p) = name}

Settled(name) ==
    /\ \A p \in ReadLocals(name) : ByLocal(name, p)
    /\ ReadLocals(name) = {} => ByCatalogs(name)

BareName(name) ==
    /\ phase \in {"config", "catalogs"} \/ name \in unsettled => Blank(name)
    /\ phase \in {"names", "local", "done"} /\ name \notin unsettled => Settled(name)

Table ==
    /\ \A p \in Installed \ unread : Registered(p)
    /\ \A cat \in Catalogs, name \in Names : Rooted(cat, name)
    /\ \A name \in BareNames : BareName(name)
    /\ \A name \in Names \ BareNames : ambiguous[name] = {}

IInv == BaseInv /\ PlainNames /\ Table

-----------------------------------------------------------------------------
LEMMA PlaceFacts ==
    ASSUME TypeOK, NEW p \in Present
    PROVE  /\ p \in Places /\ p[1] \in Catalogs \cup {Local}
           /\ disk[p] \in Manifests
           /\ NameOf(p) \in Names
           /\ p \in Installed => p[1] \in Catalogs
<1>1. p \in Places /\ disk[p] # NoFile /\ p[1] \in Catalogs \cup {Local} /\ p[2] \in Files
  BY DEF Present, Places
<1>2. disk[p] \in Manifests
  BY <1>1 DEF TypeOK
<1>3. disk[p].name \in Names \cup {Unnamed}
  BY <1>2, SourceAssumption
<1>4. NameOf(p) \in Names
  BY <1>1, <1>3, SourceAssumption DEF NameOf
<1>5. p \in Installed => p[1] \in Catalogs
  BY <1>1 DEF Installed
<1> QED BY <1>1, <1>2, <1>4, <1>5

\* Qualified selectors are told apart by their parts, and from plain names.
LEMMA SelectorFacts ==
    ASSUME NEW cat \in Catalogs, NEW name \in Names
    PROVE  /\ Qualified(cat, name) \in Selectors
           /\ name \in Selectors
           /\ Qualified(cat, name)[1] = cat /\ Qualified(cat, name)[2] = name
           /\ Qualified(cat, name) \notin BareNames
           /\ \A c \in Catalogs, n \in Names :
                 Qualified(c, n) = Qualified(cat, name) => c = cat /\ n = name
<1>1. Qualified(cat, name) = <<cat, name>> /\ <<cat, name>> \in Catalogs \X Names
  BY DEF Qualified
<1>2. Qualified(cat, name) \in Selectors /\ name \in Selectors
  BY <1>1 DEF Selectors
<1>3. Qualified(cat, name)[1] = cat /\ Qualified(cat, name)[2] = name
  BY <1>1
<1>4. Qualified(cat, name) \notin BareNames
  BY <1>1 DEF BareNames
<1>5. \A c \in Catalogs, n \in Names : Qualified(c, n) = Qualified(cat, name) => c = cat /\ n = name
  BY DEF Qualified
<1> QED BY <1>2, <1>3, <1>4, <1>5

\* The constant part of the state.
LEMMA SameDisk ==
    ASSUME disk' = disk
    PROVE  /\ Present' = Present /\ Installed' = Installed
           /\ \A p : NameOf(p)' = NameOf(p)
           /\ \A cat : GateAccepts(cat)' = GateAccepts(cat)
           /\ \A p, s : Bears(p, s)' = Bears(p, s)
           /\ PlainNames' = PlainNames
  BY DEF Present, Installed, NameOf, GateAccepts, Bears, PlainNames

-----------------------------------------------------------------------------
(* What holds whatever the names look like. *)

\* A step that leaves the table alone, or fails.
LEMMA BaseStays ==
    ASSUME BaseInv, UNCHANGED <<input, services, definers, unread>>
    PROVE  DefinersRead' /\ TableLeads'
<1>1. /\ Present' = Present /\ Installed' = Installed /\ \A p : NameOf(p)' = NameOf(p)
      /\ \A p, s : Bears(p, s)' = Bears(p, s)
  BY SameDisk DEF input
<1>2. DefinersRead'
  BY <1>1 DEF BaseInv, DefinersRead
<1>3. TableLeads'
  BY <1>1 DEF BaseInv, TableLeads
<1> QED BY <1>2, <1>3

LEMMA BaseFails ==
    ASSUME BaseInv, NEW p \in unread, FailsAt(p), phase # "names",
           p[1] # Local => ~GateAccepts(p[1])
    PROVE  BaseInv'
<1>1. TypeOK'
  BY SameDisk DEF BaseInv, TypeOK, FailsAt, input, table, Present
<1>2. Order'
  BY SameDisk DEF BaseInv, Order, FailsAt, input
<1>3. DefinersRead' /\ TableLeads'
  BY BaseStays DEF FailsAt, table
<1>4. OrphansWarned' /\ WhatTheGateAcceptsLoads'
  BY SameDisk DEF OrphansWarned, WhatTheGateAcceptsLoads, FailsAt, input
<1> QED BY <1>1, <1>2, <1>3, <1>4 DEF BaseInv

\* The steps between the reads.
LEMMA BaseMovesOn ==
    ASSUME BaseInv, ReadConfig \/ EndOfCatalogs \/ EndOfNames \/ EndLoad
    PROVE  BaseInv'
<1>1. UNCHANGED <<input, services, definers, unread>>
  BY DEF ReadConfig, EndOfCatalogs, EndOfNames, EndLoad, table
<1>2. Present' = Present /\ Installed' = Installed
  BY <1>1, SameDisk DEF input
<1>3. TypeOK'
  <2>1. /\ disk' \in [Places -> Manifests \cup {NoFile}] /\ bound' \in SUBSET Selectors
        /\ phase' \in {"config", "catalogs", "names", "local", "done", "failed"}
        /\ unread' \in SUBSET Present' /\ definers' \in [Names -> SUBSET Catalogs]
        /\ services' \in [Selectors -> Places \cup {NoService}]
    BY <1>1, <1>2 DEF BaseInv, TypeOK, ReadConfig, EndOfCatalogs, EndOfNames, EndLoad, input
  <2>2. /\ origins' \in [Selectors -> Catalogs \cup {"local", "override", ""}]
        /\ ambiguous' \in [Names -> SUBSET Catalogs]
        /\ culprit' \in Places \cup {NoService}
    BY DEF BaseInv, TypeOK, ReadConfig, EndOfCatalogs, EndOfNames, EndLoad, table
  <2>3. unsettled' \in SUBSET Names /\ warned' \in SUBSET Selectors
    BY DEF BaseInv, TypeOK, ReadConfig, EndOfCatalogs, EndOfNames, EndLoad
  <2> QED BY <2>1, <2>2, <2>3 DEF TypeOK
<1>4. Order'
  BY <1>1, <1>2 DEF BaseInv, Order, ReadConfig, EndOfCatalogs, EndOfNames, EndLoad
<1>5. DefinersRead' /\ TableLeads'
  BY <1>1, BaseStays
<1>6. OrphansWarned'
  BY DEF OrphansWarned, ReadConfig, EndOfCatalogs, EndOfNames, EndLoad, input, table
<1>7. WhatTheGateAcceptsLoads'
  BY DEF BaseInv, Order, WhatTheGateAcceptsLoads, ReadConfig, EndOfCatalogs, EndOfNames, EndLoad
<1> QED BY <1>3, <1>4, <1>5, <1>6, <1>7 DEF BaseInv

\* What reading a manifest of a catalog does to the table.
Enters(p, cat, name) ==
    /\ services' = [services EXCEPT ![Qualified(cat, name)] = p]
    /\ origins' = [origins EXCEPT ![Qualified(cat, name)] = cat]
    /\ definers' = [definers EXCEPT ![name] = @ \cup {cat}]
    /\ unread' = unread \ {p}
    /\ UNCHANGED <<input, phase, unsettled, ambiguous, culprit, warned>>

LEMMA BaseReadsInstalled ==
    ASSUME BaseInv, NEW p \in unread, ReadInstalled(p) PROVE BaseInv'
<1>a. TypeOK /\ p \in Installed /\ p \in Present /\ phase = "catalogs" /\ p \in Places
  BY DEF BaseInv, ReadInstalled, Installed, Present
<1>b. p[1] \in Catalogs /\ NameOf(p) \in Names
  BY <1>a, PlaceFacts
<1>1. CASE FailsAt(p) /\ ~Loads(p)
  <2>1. disk[p].kind # "good"
    BY <1>1 DEF Loads
  <2>2. ~GateAccepts(p[1])
    BY <2>1, <1>a DEF GateAccepts
  <2> QED BY <2>2, <1>1, <1>a, BaseFails
<1>2. CASE FailsAt(p) /\ p[1] \in definers[NameOf(p)]
  <2>1. PICK q \in Installed \ unread : q[1] = p[1] /\ NameOf(q) = NameOf(p)
    BY <1>2, <1>b DEF BaseInv, DefinersRead
  <2>2. ~GateAccepts(p[1])
    BY <2>1, <1>a DEF GateAccepts
  <2> QED BY <2>2, <1>2, <1>a, BaseFails
<1>3. CASE Enters(p, p[1], NameOf(p))
  <2> DEFINE cat == p[1]
             name == NameOf(p)
             sel == Qualified(cat, name)
  <2>1. /\ services' = [services EXCEPT ![sel] = p] /\ origins' = [origins EXCEPT ![sel] = cat]
        /\ definers' = [definers EXCEPT ![name] = @ \cup {cat}] /\ unread' = unread \ {p}
        /\ UNCHANGED <<input, phase, unsettled, ambiguous, culprit, warned>>
    BY <1>3 DEF Enters
  <2>2. Present' = Present /\ Installed' = Installed
        /\ (\A q : NameOf(q)' = NameOf(q)) /\ \A q, s : Bears(q, s)' = Bears(q, s)
    BY <2>1, SameDisk DEF input
  <2>3. sel \in Selectors /\ Bears(p, sel) /\ cat \in Catalogs /\ name \in Names
    BY <1>a, <1>b, SelectorFacts DEF Bears
  <2>n. NameOf(p)' = name
    BY <2>2
  <2> HIDE DEF cat, name, sel
  <2>4. TypeOK'
    <3>1. disk' \in [Places -> Manifests \cup {NoFile}] /\ bound' \in SUBSET Selectors
          /\ unread' \in SUBSET Present'
      BY <2>1, <2>2, <1>a DEF TypeOK, input
    <3>2. definers' \in [Names -> SUBSET Catalogs]
      BY <2>1, <2>3, <1>a DEF TypeOK
    <3>3. services' \in [Selectors -> Places \cup {NoService}]
      BY <2>1, <2>3, <1>a DEF TypeOK
    <3>4. origins' \in [Selectors -> Catalogs \cup {"local", "override", ""}]
      BY <2>1, <2>3, <1>a DEF TypeOK
    <3> QED BY <3>1, <3>2, <3>3, <3>4, <2>1, <1>a DEF TypeOK
  <2>5. Order'
    <3>1. p[1] # Local /\ unsettled = {} /\ culprit = NoService
      BY <1>a DEF BaseInv, Order, Installed
    <3>2. \A q \in Present : q[1] = Local => q \in unread'
      BY <3>1, <1>a, <2>1 DEF BaseInv, Order
    <3> QED BY <3>1, <3>2, <1>a, <2>1, <2>2 DEF Order
  <2>6. ASSUME NEW c \in Catalogs, NEW n \in Names, c \in definers'[n]
        PROVE  \E q \in Installed' \ unread' : q[1] = c /\ NameOf(q)' = n
    <3>1. CASE c \in definers[n]
      <4>1. PICK q \in Installed \ unread : q[1] = c /\ NameOf(q) = n
        BY <3>1 DEF BaseInv, DefinersRead
      <4> QED BY <4>1, <2>1, <2>2
    <3>2. CASE c \notin definers[n]
      <4>1. c = cat /\ n = name
        BY <3>2, <2>6, <2>1, <2>3, <1>a DEF TypeOK
      <4> QED BY <4>1, <2>n, <2>1, <2>2, <1>a DEF cat
    <3> QED BY <3>1, <3>2
  <2>7. ASSUME NEW s \in Selectors, services'[s] # NoService PROVE \E q \in Present' : Bears(q, s)'
    <3>1. CASE s = sel
      BY <3>1, <2>2, <2>3, <1>a
    <3>2. CASE s # sel
      <4>1. services[s] # NoService
        BY <3>2, <2>1, <2>7, <1>a DEF TypeOK
      <4> QED BY <4>1, <2>2 DEF BaseInv, TableLeads
    <3> QED BY <3>1, <3>2
  <2>8. DefinersRead' /\ TableLeads'
    BY <2>6, <2>7 DEF DefinersRead, TableLeads
  <2>9. OrphansWarned' /\ WhatTheGateAcceptsLoads'
    BY <1>a, <2>1 DEF OrphansWarned, WhatTheGateAcceptsLoads
  <2> QED BY <2>4, <2>5, <2>8, <2>9 DEF BaseInv
<1> QED BY <1>1, <1>2, <1>3 DEF ReadInstalled, Enters

\* A step that gives one bare name another service.
LEMMA BaseTouches ==
    ASSUME BaseInv, NEW name \in Names, phase \in {"names", "local"},
           UNCHANGED <<input, phase, definers, culprit, warned>>,
           NEW p \in Places \cup {NoService}, services' = [services EXCEPT ![name] = p],
           p # NoService => \E q \in Present : NameOf(q) = name,
           unread' \subseteq unread, unsettled' \subseteq unsettled,
           phase = "names" => unread' = unread,
           origins' \in [Selectors -> Catalogs \cup {"local", "override", ""}],
           ambiguous' \in [Names -> SUBSET Catalogs]
    PROVE  BaseInv'
<1>a. TypeOK /\ name \in Selectors
  BY DEF BaseInv, Selectors
<1>b. Present' = Present /\ Installed' = Installed
      /\ (\A q : NameOf(q)' = NameOf(q)) /\ \A q, s : Bears(q, s)' = Bears(q, s)
  BY SameDisk DEF input
<1>1. TypeOK'
  <2>1. services' \in [Selectors -> Places \cup {NoService}]
    BY <1>a DEF TypeOK
  <2> QED BY <2>1, <1>a, <1>b DEF TypeOK, input
<1>2. Order'
  BY <1>b DEF BaseInv, Order
<1>3. DefinersRead'
  <2> SUFFICES ASSUME NEW c \in Catalogs, NEW n \in Names, c \in definers'[n]
               PROVE  \E q \in Installed' \ unread' : q[1] = c /\ NameOf(q)' = n
    BY DEF DefinersRead
  <2>1. PICK q \in Installed \ unread : q[1] = c /\ NameOf(q) = n
    BY DEF BaseInv, DefinersRead
  <2> QED BY <2>1, <1>b
<1>4. TableLeads'
  <2> SUFFICES ASSUME NEW s \in Selectors, services'[s] # NoService
               PROVE  \E q \in Present' : Bears(q, s)'
    BY DEF TableLeads
  <2>1. CASE s = name
    <3>1. p # NoService
      BY <2>1, <1>a DEF TypeOK
    <3> QED BY <3>1, <2>1, <1>b DEF Bears
  <2>2. CASE s # name
    <3>1. services[s] # NoService
      BY <2>2, <1>a DEF TypeOK
    <3> QED BY <3>1, <1>b DEF BaseInv, TableLeads
  <2> QED BY <2>1, <2>2
<1>5. OrphansWarned' /\ WhatTheGateAcceptsLoads'
  BY DEF OrphansWarned, WhatTheGateAcceptsLoads
<1> QED BY <1>1, <1>2, <1>3, <1>4, <1>5 DEF BaseInv

LEMMA BaseSettles ==
    ASSUME BaseInv, NEW name \in unsettled, SettleBareName(name) PROVE BaseInv'
<1>a. /\ TypeOK /\ name \in Names /\ name \in Selectors /\ phase = "names"
      /\ definers[name] \subseteq Catalogs
      /\ unsettled' \subseteq unsettled
      /\ UNCHANGED <<input, phase, unread, definers, culprit, warned>>
  BY DEF BaseInv, TypeOK, Selectors, SettleBareName
<1>1. ASSUME NEW cat \in definers[name],
             services' = [services EXCEPT ![name] = services[Qualified(cat, name)]],
             origins' = [origins EXCEPT ![name] = cat], ambiguous' = ambiguous
      PROVE  BaseInv'
  <2>1. cat \in Catalogs /\ services[Qualified(cat, name)] \in Places \cup {NoService}
    BY <1>a, SelectorFacts DEF TypeOK
  <2>2. \E q \in Present : NameOf(q) = name
    BY <2>1, <1>a DEF BaseInv, DefinersRead, Installed
  <2>3. /\ origins' \in [Selectors -> Catalogs \cup {"local", "override", ""}]
        /\ ambiguous' \in [Names -> SUBSET Catalogs]
    BY <1>1, <2>1, <1>a DEF TypeOK
  <2> QED BY <1>1, <2>1, <2>2, <2>3, <1>a, BaseTouches
<1>2. ASSUME services' = [services EXCEPT ![name] = NoService],
             origins' = [origins EXCEPT ![name] = ""],
             ambiguous' = [ambiguous EXCEPT ![name] = definers[name]]
      PROVE  BaseInv'
  <2>1. /\ origins' \in [Selectors -> Catalogs \cup {"local", "override", ""}]
        /\ ambiguous' \in [Names -> SUBSET Catalogs]
    BY <1>2, <1>a DEF TypeOK
  <2> QED BY <1>2, <2>1, <1>a, BaseTouches
<1> QED BY <1>1, <1>2 DEF SettleBareName

LEMMA BaseReadsLocal ==
    ASSUME BaseInv, NEW p \in unread, ReadLocal(p) PROVE BaseInv'
<1>a. /\ TypeOK /\ p \in Present /\ p \in Places /\ phase = "local" /\ p[1] = Local
      /\ NameOf(p) \in Names /\ NameOf(p) \in Selectors
  <2>1. TypeOK /\ p \in Present /\ phase = "local"
    BY DEF BaseInv, TypeOK, ReadLocal
  <2>2. p \in Places /\ NameOf(p) \in Names
    BY <2>1, PlaceFacts
  <2> QED BY <2>1, <2>2 DEF BaseInv, Order, Installed, Selectors
<1>1. CASE FailsAt(p)
  BY <1>1, <1>a, BaseFails
<1>2. CASE ~FailsAt(p)
  <2> DEFINE name == NameOf(p)
  <2>1. /\ services' = [services EXCEPT ![name] = p]
        /\ \E o \in {"local", "override"} : origins' = [origins EXCEPT ![name] = o]
        /\ ambiguous' = [ambiguous EXCEPT ![name] = {}]
        /\ unread' = unread \ {p}
        /\ UNCHANGED <<input, phase, unsettled, definers, culprit, warned>>
    BY <1>2 DEF ReadLocal
  <2> HIDE DEF name
  <2>2. /\ origins' \in [Selectors -> Catalogs \cup {"local", "override", ""}]
        /\ ambiguous' \in [Names -> SUBSET Catalogs]
    BY <2>1, <1>a DEF TypeOK, name
  <2>3. name \in Names /\ \E q \in Present : NameOf(q) = name
    BY <1>a DEF name
  <2> QED BY <2>1, <2>2, <2>3, <1>a, BaseTouches
<1> QED BY <1>1, <1>2

LEMMA BaseInit == Init => BaseInv
<1> SUFFICES ASSUME Init PROVE BaseInv OBVIOUS
<1>1. TypeOK
  BY SourceAssumption DEF Init, TypeOK
<1>2. Order
  BY DEF Init, Order, Installed
<1>3. DefinersRead /\ TableLeads
  BY DEF Init, DefinersRead, TableLeads
<1>4. OrphansWarned /\ WhatTheGateAcceptsLoads
  BY DEF Init, OrphansWarned, WhatTheGateAcceptsLoads
<1> QED BY <1>1, <1>2, <1>3, <1>4 DEF BaseInv

LEMMA BaseKeeps == BaseInv /\ [Next]_vars => BaseInv'
<1> SUFFICES ASSUME BaseInv, [Next]_vars PROVE BaseInv' OBVIOUS
<1>1. CASE UNCHANGED vars
  <2>1. /\ Present' = Present /\ Installed' = Installed
        /\ \A cat : GateAccepts(cat)' = GateAccepts(cat)
    BY <1>1, SameDisk DEF vars, input
  <2>2. TypeOK' /\ Order'
    BY <1>1, <2>1 DEF BaseInv, TypeOK, Order, vars, input, table
  <2>3. DefinersRead' /\ TableLeads'
    BY <1>1, BaseStays DEF vars, table
  <2>4. OrphansWarned' /\ WhatTheGateAcceptsLoads'
    BY <1>1, <2>1 DEF BaseInv, OrphansWarned, WhatTheGateAcceptsLoads, vars, input, table
  <2> QED BY <2>2, <2>3, <2>4 DEF BaseInv
<1>2. CASE Next
  BY <1>2, BaseMovesOn, BaseReadsInstalled, BaseReadsLocal, BaseSettles DEF Next
<1> QED BY <1>1, <1>2

\* What holds of every load, whatever its manifests are called.
THEOREM BaseHolds == Spec => []BaseInv
  BY BaseInit, BaseKeeps, PTL DEF Spec

\* The type invariant of the table.
THEOREM TableTypeCorrect == Spec => []TypeOK
<1>1. BaseInv => TypeOK
  BY DEF BaseInv
<1> QED BY <1>1, BaseHolds, PTL

\* What catalog add accepts, the loader loads.
THEOREM AcceptedCatalogsLoad == Spec => []WhatTheGateAcceptsLoads
<1>1. BaseInv => WhatTheGateAcceptsLoads
  BY DEF BaseInv
<1> QED BY <1>1, BaseHolds, PTL

\* A binding that bears neither the name nor the qualified selector of a manifest is
\* reported, whatever the manifests are called.
THEOREM OrphansShow == Spec => []OrphansAreReported
<1>1. ASSUME BaseInv, phase = "done", NEW b \in bound, \A p \in Present : ~Bears(p, b)
      PROVE  b \in warned
  <2>1. services[b] = NoService
    BY <1>1 DEF BaseInv, TypeOK, TableLeads
  <2> QED BY <1>1, <2>1 DEF BaseInv, OrphansWarned
<1>2. BaseInv => OrphansAreReported
  BY <1>1 DEF OrphansAreReported, Bears
<1> QED BY <1>2, BaseHolds, PTL

-----------------------------------------------------------------------------
\* A step that leaves the table alone, whatever it does to the phase.
LEMMA TableStays ==
    ASSUME UNCHANGED <<input, unread, definers, table>>
    PROVE  /\ \A p : Registered(p)' = Registered(p)
           /\ \A cat, name : Rooted(cat, name)' = Rooted(cat, name)
           /\ \A name : Blank(name)' = Blank(name) /\ Settled(name)' = Settled(name)
<1> USE SameDisk DEF input, table
<1>1. ASSUME NEW p PROVE Registered(p)' = Registered(p)
  BY DEF Registered
<1>2. ASSUME NEW cat, NEW name PROVE Rooted(cat, name)' = Rooted(cat, name)
  BY DEF Rooted
<1>3. ASSUME NEW name PROVE Blank(name)' = Blank(name)
  BY DEF Blank
<1>4. ASSUME NEW name PROVE Settled(name)' = Settled(name)
  BY DEF Settled, ReadLocals, ByLocal, ByCatalogs
<1> QED BY <1>1, <1>2, <1>3, <1>4

\* A step between the reads leaves what was registered, and what is ambiguous.
LEMMA QualifiedStay ==
    ASSUME IInv, UNCHANGED <<input, unread, definers, table>>
    PROVE  /\ (\A q \in Installed \ unread : Registered(q))'
           /\ (\A cat \in Catalogs, name \in Names : Rooted(cat, name))'
           /\ (\A name \in Names \ BareNames : ambiguous[name] = {})'
  BY SameDisk, TableStays DEF IInv, Table, input, table

LEMMA FailStep ==
    ASSUME IInv, NEW p \in unread, FailsAt(p), phase # "names"
    PROVE  Table'
<1>1. (\A name \in BareNames : BareName(name))'
  BY DEF IInv, BaseInv, Order, BareName, FailsAt
<1> QED BY <1>1, QualifiedStay DEF Table, FailsAt

LEMMA ReadConfigStep == ASSUME IInv, ReadConfig PROVE Table'
<1>1. ASSUME NEW name \in BareNames PROVE BareName(name)'
  <2>1. Blank(name)' = Blank(name)
    BY TableStays DEF ReadConfig
  <2> QED BY <2>1 DEF IInv, BaseInv, Table, Order, BareName, ReadConfig
<1> QED BY <1>1, QualifiedStay DEF Table, ReadConfig

LEMMA EndOfCatalogsStep == ASSUME IInv, EndOfCatalogs PROVE Table'
<1>1. ASSUME NEW name \in BareNames PROVE BareName(name)'
  <2>1. Blank(name)' = Blank(name) /\ Settled(name)' = Settled(name) /\ name \in Names
    BY TableStays DEF EndOfCatalogs, BareNames
  <2>2. Blank(name) /\ ReadLocals(name) = {}
    BY DEF IInv, BaseInv, Table, Order, BareName, EndOfCatalogs, ReadLocals
  <2>3. definers[name] = {} => Settled(name)
    BY <2>2 DEF Settled, ByCatalogs, Blank
  <2> QED BY <2>1, <2>2, <2>3 DEF BareName, EndOfCatalogs
<1> QED BY <1>1, QualifiedStay DEF Table, EndOfCatalogs

LEMMA EndOfNamesStep == ASSUME IInv, EndOfNames PROVE Table'
<1>1. ASSUME NEW name \in BareNames PROVE BareName(name)'
  <2>1. Settled(name)' = Settled(name)
    BY TableStays DEF EndOfNames
  <2> QED BY <2>1 DEF IInv, Table, BareName, EndOfNames
<1> QED BY <1>1, QualifiedStay DEF Table, EndOfNames

LEMMA EndLoadStep == ASSUME IInv, EndLoad PROVE Table'
<1>1. ASSUME NEW name \in BareNames PROVE BareName(name)'
  <2>1. Settled(name)' = Settled(name)
    BY TableStays DEF EndLoad
  <2> QED BY <2>1 DEF IInv, BaseInv, Table, Order, BareName, EndLoad
<1> QED BY <1>1, QualifiedStay DEF Table, EndLoad

-----------------------------------------------------------------------------
LEMMA RegisterStep ==
    ASSUME IInv, phase = "catalogs", NEW p \in unread \cap Installed,
           p[1] \notin definers[NameOf(p)], Enters(p, p[1], NameOf(p))
    PROVE  Table'
<1> DEFINE cat == p[1]
           name == NameOf(p)
           sel == Qualified(cat, name)
<1>a. TypeOK /\ p \in Present /\ p \in Installed /\ p \in unread
  BY DEF IInv, BaseInv, Installed
<1>b. cat \in Catalogs /\ name \in Names /\ p \in Places
  BY <1>a, PlaceFacts
<1>c. sel \in Selectors /\ sel \notin BareNames
      /\ \A c \in Catalogs, n \in Names : Qualified(c, n) \in Selectors /\ (Qualified(c, n) = sel => c = cat /\ n = name)
  BY <1>b, SelectorFacts
<1>d. Present' = Present /\ Installed' = Installed /\ \A q : NameOf(q)' = NameOf(q)
  BY SameDisk DEF Enters, input
<1>e. services' = [services EXCEPT ![sel] = p] /\ origins' = [origins EXCEPT ![sel] = cat]
      /\ definers' = [definers EXCEPT ![name] = @ \cup {cat}] /\ unread' = unread \ {p}
      /\ UNCHANGED <<input, phase, unsettled, ambiguous, culprit, warned>>
  BY DEF Enters
<1> HIDE DEF cat, name, sel
<1>f. /\ services'[sel] = p /\ \A s \in Selectors : s # sel => services'[s] = services[s]
      /\ origins'[sel] = cat /\ \A s \in Selectors : s # sel => origins'[s] = origins[s]
  BY <1>a, <1>c, <1>e DEF TypeOK
<1>g. /\ definers'[name] = definers[name] \cup {cat}
      /\ \A n \in Names : n # name => definers'[n] = definers[n]
  BY <1>a, <1>b, <1>e DEF TypeOK
<1>3. (\A q \in Installed \ unread : Registered(q))'
  <2> SUFFICES ASSUME NEW q \in Installed, q \notin unread' PROVE Registered(q)'
    BY <1>d
  <2>1. CASE q = p
    BY <2>1, <1>d, <1>f, <1>g DEF Registered, cat, name, sel
  <2>2. CASE q # p
    <3>1. Registered(q) /\ q[1] \in Catalogs /\ NameOf(q) \in Names
      BY <2>2, <1>a, <1>e, PlaceFacts DEF IInv, Table, Installed
    <3>2. Qualified(q[1], NameOf(q)) # sel
      BY <3>1, <1>b, <1>c DEF Registered, cat, name
    <3>3. Qualified(q[1], NameOf(q)) \in Selectors
      BY <3>1, <1>c
    <3>4. q[1] \in definers'[NameOf(q)]
      BY <3>1, <1>g DEF Registered
    <3> QED BY <3>1, <3>2, <3>3, <3>4, <1>d, <1>f DEF Registered
  <2> QED BY <2>1, <2>2
<1>4. ASSUME NEW c \in Catalogs, NEW n \in Names PROVE Rooted(c, n)'
  <2>1. Rooted(c, n) /\ Qualified(c, n) \in Selectors
    BY <1>c DEF IInv, Table
  <2>2. CASE c = cat /\ n = name
    <3>1. Qualified(c, n) = sel
      BY <2>2 DEF sel
    <3>2. p \in Installed' \ unread' /\ p[1] = c /\ NameOf(p)' = n
      BY <2>2, <1>a, <1>d, <1>e DEF cat, name
    <3>3. p # NoService
      BY <1>b, SourceAssumption
    <3> QED BY <3>1, <3>2, <3>3, <1>f DEF Rooted
  <2>3. CASE ~(c = cat /\ n = name)
    <3>1. Qualified(c, n) # sel
      BY <2>3, <1>c
    <3>2. services'[Qualified(c, n)] = services[Qualified(c, n)]
      BY <3>1, <2>1, <1>f
    <3>3. c \in definers'[n] => c \in definers[n]
      BY <2>3, <1>g
    <3>4. Installed \ unread \subseteq Installed' \ unread'
      BY <1>d, <1>e
    <3> QED BY <3>2, <3>3, <3>4, <2>1, <1>d DEF Rooted
  <2> QED BY <2>2, <2>3
<1>5. ASSUME NEW n \in BareNames PROVE BareName(n)'
  <2>1. Blank(n)
    BY DEF IInv, Table, BareName
  <2>2. n \in Selectors /\ n # sel
    BY <1>c DEF Selectors, BareNames
  <2>3. Blank(n)'
    BY <2>1, <2>2, <1>e, <1>f DEF Blank
  <2> QED BY <2>3, <1>e DEF BareName
<1>6. \A n \in Names \ BareNames : ambiguous'[n] = {}
  BY <1>e DEF IInv, Table
<1> QED BY <1>3, <1>4, <1>5, <1>6 DEF Table

LEMMA ReadInstalledStep == ASSUME IInv, NEW p \in unread, ReadInstalled(p) PROVE Table'
<1>a. p \in Installed /\ phase = "catalogs"
  BY DEF IInv, BaseInv, ReadInstalled
<1>1. CASE FailsAt(p)
  BY <1>1, <1>a, FailStep
<1>2. CASE p[1] \notin definers[NameOf(p)] /\ Enters(p, p[1], NameOf(p))
  BY <1>2, <1>a, RegisterStep
<1> QED BY <1>1, <1>2 DEF ReadInstalled, Enters

-----------------------------------------------------------------------------
\* A step that touches one bare name leaves the qualified selectors and the other
\* names alone.
Touches(name) ==
    /\ name \in BareNames
    /\ \A s \in Selectors \ {name} : services'[s] = services[s] /\ origins'[s] = origins[s]
    /\ \A n \in Names \ {name} : ambiguous'[n] = ambiguous[n]
    /\ UNCHANGED <<input, phase, definers, culprit, warned>>

LEMMA TouchKeepsQualified ==
    ASSUME IInv, NEW name, Touches(name),
           unread' \subseteq unread, \A p \in Installed : p \in unread <=> p \in unread'
    PROVE  /\ (\A p \in Installed \ unread : Registered(p))'
           /\ (\A cat \in Catalogs, n \in Names : Rooted(cat, n))'
           /\ (\A n \in Names \ BareNames : ambiguous[n] = {})'
<1>a. Present' = Present /\ Installed' = Installed /\ \A q : NameOf(q)' = NameOf(q)
  BY SameDisk DEF Touches, input
<1>b. ASSUME NEW c \in Catalogs, NEW n \in Names
      PROVE  /\ services'[Qualified(c, n)] = services[Qualified(c, n)]
             /\ origins'[Qualified(c, n)] = origins[Qualified(c, n)]
  <2>1. Qualified(c, n) \in Selectors \ {name}
    BY SelectorFacts DEF Touches
  <2> QED BY <2>1 DEF Touches
<1>1. ASSUME NEW q \in Installed, q \notin unread' PROVE Registered(q)'
  <2>1. Registered(q) /\ q[1] \in Catalogs /\ NameOf(q) \in Names
    BY <1>1, PlaceFacts DEF IInv, BaseInv, Table, Installed
  <2>2. definers' = definers
    BY DEF Touches
  <2> QED BY <2>1, <2>2, <1>a, <1>b DEF Registered
<1>2. ASSUME NEW c \in Catalogs, NEW n \in Names PROVE Rooted(c, n)'
  <2>1. Rooted(c, n) /\ definers' = definers
    BY DEF IInv, Table, Touches
  <2>2. Installed' \ unread' = Installed \ unread
    BY <1>a
  <2> QED BY <2>1, <2>2, <1>a, <1>b DEF Rooted
<1>3. ASSUME NEW n \in Names \ BareNames PROVE ambiguous'[n] = {}
  BY DEF IInv, Table, Touches
<1> QED BY <1>1, <1>2, <1>3, <1>a

LEMMA TouchKeepsOthers ==
    ASSUME IInv, NEW name, Touches(name), NEW n \in BareNames, n # name,
           ReadLocals(n)' = ReadLocals(n)
    PROVE  Blank(n)' = Blank(n) /\ Settled(n)' = Settled(n)
<1>1. n \in Selectors \ {name} /\ n \in Names
  BY DEF Selectors, BareNames
<1>2. /\ services'[n] = services[n] /\ origins'[n] = origins[n] /\ ambiguous'[n] = ambiguous[n]
      /\ definers' = definers
  BY <1>1 DEF Touches
<1>3. ASSUME NEW c \in Catalogs PROVE services'[Qualified(c, n)] = services[Qualified(c, n)]
  <2>1. Qualified(c, n) \in Selectors \ {name}
    BY <1>1, SelectorFacts DEF Touches
  <2> QED BY <2>1 DEF Touches
<1>4. definers[n] \subseteq Catalogs
  BY <1>1 DEF IInv, BaseInv, TypeOK
<1>5. Blank(n)' = Blank(n)
  BY <1>2 DEF Blank
<1>6. ByCatalogs(n)' = ByCatalogs(n)
  BY <1>2, <1>3, <1>4 DEF ByCatalogs
<1>7. \A p : ByLocal(n, p)' = ByLocal(n, p)
  BY <1>2 DEF ByLocal
<1> QED BY <1>5, <1>6, <1>7 DEF Settled

LEMMA SettleStep == ASSUME IInv, NEW name \in unsettled, SettleBareName(name) PROVE Table'
<1>a. /\ TypeOK /\ name \in Names /\ name \in BareNames /\ phase = "names"
      /\ definers[name] \subseteq Catalogs
  <2>1. TypeOK /\ name \in Names /\ phase = "names" /\ definers[name] \subseteq Catalogs
    BY DEF IInv, BaseInv, TypeOK, SettleBareName
  <2>2. \E p \in Present : NameOf(p) = name
    BY <2>1 DEF IInv, BaseInv, Order, DefinersRead, Installed
  <2> QED BY <2>1, <2>2 DEF IInv, PlainNames
<1>b. name \in Selectors /\ \A c \in Catalogs : Qualified(c, name) \in Selectors
  <2>1. name \in Selectors
    BY <1>a DEF Selectors
  <2>2. \A c \in Catalogs : Qualified(c, name) \in Selectors
    BY <1>a, SelectorFacts
  <2> QED BY <2>1, <2>2
<1>c. Present' = Present /\ Installed' = Installed /\ \A q : NameOf(q)' = NameOf(q)
  BY SameDisk DEF SettleBareName, input
<1>d. /\ unsettled' = unsettled \ {name}
      /\ UNCHANGED <<input, phase, unread, definers, culprit, warned>>
  BY DEF SettleBareName
<1>e. Touches(name) /\ ByCatalogs(name)'
  <2>1. ASSUME NEW cat \in definers[name], definers[name] = {cat},
               services' = [services EXCEPT ![name] = services[Qualified(cat, name)]],
               origins' = [origins EXCEPT ![name] = cat],
               ambiguous' = ambiguous
        PROVE  Touches(name) /\ ByCatalogs(name)'
    <3>1. cat \in Catalogs /\ Qualified(cat, name) \in Selectors /\ Qualified(cat, name) # name
      BY <1>a, <1>b, SelectorFacts
    <3>3. Touches(name)
      BY <2>1, <1>a, <1>d DEF TypeOK, Touches
    <3>4. Blank(name)
      BY <1>a DEF IInv, Table, BareName
    <3>5. services'[name] = services'[Qualified(cat, name)] /\ origins'[name] = cat /\ ambiguous'[name] = {}
      BY <2>1, <3>1, <3>4, <1>a, <1>b DEF TypeOK, Blank
    <3>6. ByCatalogs(name)'
      BY <2>1, <3>5, <1>d DEF ByCatalogs
    <3> QED BY <3>3, <3>6
  <2>2. ASSUME \A cat \in definers[name] : definers[name] # {cat},
               services' = [services EXCEPT ![name] = NoService],
               origins' = [origins EXCEPT ![name] = ""],
               ambiguous' = [ambiguous EXCEPT ![name] = definers[name]]
        PROVE  Touches(name) /\ ByCatalogs(name)'
    <3>3. Touches(name)
      BY <2>2, <1>a, <1>d DEF TypeOK, Touches
    <3>5. services'[name] = NoService /\ origins'[name] = "" /\ ambiguous'[name] = definers[name]
      BY <2>2, <1>a, <1>b DEF TypeOK
    <3>6. ByCatalogs(name)'
      BY <2>2, <3>5, <1>d DEF ByCatalogs
    <3> QED BY <3>3, <3>6
  <2> QED BY <2>1, <2>2 DEF SettleBareName
<1>3. /\ (\A p \in Installed \ unread : Registered(p))'
      /\ (\A cat \in Catalogs, n \in Names : Rooted(cat, n))'
      /\ (\A n \in Names \ BareNames : ambiguous[n] = {})'
  BY <1>d, <1>e, TouchKeepsQualified
<1>4. ASSUME NEW n \in BareNames PROVE BareName(n)'
  <2>1. ReadLocals(n)' = ReadLocals(n)
    BY <1>c, <1>d DEF ReadLocals
  <2>2. CASE n = name
    <3>1. ReadLocals(n) = {}
      BY <1>a DEF IInv, BaseInv, Order, ReadLocals
    <3> QED BY <2>1, <2>2, <3>1, <1>a, <1>d, <1>e DEF BareName, Settled
  <2>3. CASE n # name
    <3>1. Blank(n)' = Blank(n) /\ Settled(n)' = Settled(n)
      BY <2>1, <2>3, <1>e, TouchKeepsOthers
    <3> QED BY <3>1, <2>3, <1>d DEF IInv, Table, BareName
  <2> QED BY <2>2, <2>3
<1> QED BY <1>3, <1>4 DEF Table

-----------------------------------------------------------------------------
\* What a sound local manifest does to the table.
Takes(p, name) ==
    /\ services' = [services EXCEPT ![name] = p]
    /\ origins' = [origins EXCEPT ![name] =
                     IF origins[name] \in Catalogs \/ ambiguous[name] # {} THEN "override" ELSE "local"]
    /\ ambiguous' = [ambiguous EXCEPT ![name] = {}]
    /\ unread' = unread \ {p}
    /\ UNCHANGED <<input, phase, unsettled, definers, culprit, warned>>

LEMMA TakeStep ==
    ASSUME IInv, phase = "local", NEW p \in unread, NEW name, name = NameOf(p),
           origins[name] \notin {"local", "override"}, Takes(p, name)
    PROVE  Table'
<1>a. TypeOK /\ p \in Present /\ p \notin Installed /\ p \in Places /\ name \in Names
      /\ unsettled = {} /\ p[1] = Local /\ name \in BareNames
  BY PlaceFacts DEF IInv, BaseInv, TypeOK, Order, Installed, PlainNames
<1>b. name \in Selectors
  BY <1>a DEF Selectors
<1>c. Present' = Present /\ Installed' = Installed /\ \A q : NameOf(q)' = NameOf(q)
  BY SameDisk DEF Takes, input
<1>d. /\ services' = [services EXCEPT ![name] = p]
      /\ origins' = [origins EXCEPT ![name] =
                     IF origins[name] \in Catalogs \/ ambiguous[name] # {} THEN "override" ELSE "local"]
      /\ ambiguous' = [ambiguous EXCEPT ![name] = {}]
      /\ unread' = unread \ {p}
      /\ UNCHANGED <<input, phase, unsettled, definers, culprit, warned>>
      /\ origins[name] \notin {"local", "override"}
  BY DEF Takes
<1>e. Settled(name)
  BY <1>a DEF IInv, Table, BareName
<1>g. ReadLocals(name) = {}
  BY <1>d, <1>e DEF Settled, ByLocal
<1>h. origins[name] \in Catalogs \/ ambiguous[name] # {} <=> definers[name] # {}
  <2>1. ByCatalogs(name) /\ definers[name] \subseteq Catalogs
    BY <1>a, <1>e, <1>g DEF Settled, TypeOK
  <2> QED BY <2>1, OriginAssumption DEF ByCatalogs
<1>i. /\ services'[name] = p /\ ambiguous'[name] = {}
      /\ origins'[name] = IF definers[name] = {} THEN "local" ELSE "override"
  BY <1>a, <1>b, <1>d, <1>h DEF TypeOK
<1>j. Touches(name)
  BY <1>a, <1>d DEF TypeOK, Touches
<1>3. /\ (\A q \in Installed \ unread : Registered(q))'
      /\ (\A cat \in Catalogs, n \in Names : Rooted(cat, n))'
      /\ (\A n \in Names \ BareNames : ambiguous[n] = {})'
  BY <1>a, <1>d, <1>j, TouchKeepsQualified
<1>4. ASSUME NEW n \in BareNames PROVE BareName(n)'
  <2>1. CASE n = name
    <3>1. ReadLocals(name)' = {p}
      BY <1>a, <1>c, <1>d, <1>g DEF ReadLocals
    <3>2. ByLocal(name, p)'
      BY <1>d, <1>i DEF ByLocal
    <3>3. Settled(name)'
      BY <3>1, <3>2 DEF Settled
    <3> QED BY <3>3, <2>1, <1>a, <1>d DEF BareName
  <2>2. CASE n # name
    <3>1. ReadLocals(n)' = ReadLocals(n)
      BY <2>2, <1>c, <1>d DEF ReadLocals
    <3>2. Settled(n)' = Settled(n)
      BY <2>2, <3>1, <1>j, TouchKeepsOthers
    <3> QED BY <3>2, <1>a, <1>d DEF IInv, Table, BareName
  <2> QED BY <2>1, <2>2
<1> QED BY <1>3, <1>4 DEF Table

LEMMA ReadLocalStep == ASSUME IInv, NEW p \in unread, ReadLocal(p) PROVE Table'
<1>1. phase = "local"
  BY DEF ReadLocal
<1>2. CASE FailsAt(p)
  BY <1>1, <1>2, FailStep
<1>3. CASE origins[NameOf(p)] \notin {"local", "override"} /\ Takes(p, NameOf(p))
  BY <1>1, <1>3, TakeStep
<1> QED BY <1>2, <1>3 DEF ReadLocal, Takes

-----------------------------------------------------------------------------
LEMMA InitHolds == Init /\ PlainNames => IInv
<1> SUFFICES ASSUME Init, PlainNames PROVE IInv OBVIOUS
<1>1. \A p \in Installed \ unread : Registered(p)
  BY DEF Init, Installed
<1>2. ASSUME NEW cat \in Catalogs, NEW name \in Names PROVE Rooted(cat, name)
  BY SelectorFacts DEF Init, Rooted
<1>3. \A name \in BareNames : BareName(name)
  BY DEF Init, BareName, Blank, Selectors, BareNames
<1>4. \A name \in Names \ BareNames : ambiguous[name] = {}
  BY DEF Init
<1> QED BY <1>1, <1>2, <1>3, <1>4, BaseInit DEF IInv, Table

LEMMA NextKeeps == IInv /\ [Next]_vars => IInv'
<1> SUFFICES ASSUME IInv, [Next]_vars PROVE IInv' OBVIOUS
<1>1. BaseInv'
  BY BaseKeeps DEF IInv
<1>2. PlainNames'
  <2>1. input' = input
    BY DEF Next, vars, ReadConfig, ReadInstalled, ReadLocal, EndOfCatalogs, SettleBareName,
           EndOfNames, EndLoad, FailsAt
  <2> QED BY <2>1, SameDisk DEF IInv, input
<1>3. Table'
  <2>1. CASE UNCHANGED vars
    <3>1. UNCHANGED <<input, unread, definers, table>>
      BY <2>1 DEF vars
    <3>2. ASSUME NEW name \in BareNames PROVE BareName(name)'
      <4>1. Blank(name)' = Blank(name) /\ Settled(name)' = Settled(name)
        BY <3>1, TableStays
      <4> QED BY <2>1, <4>1 DEF IInv, Table, BareName, vars
    <3> QED BY <3>1, <3>2, QualifiedStay DEF Table
  <2>2. CASE Next
    BY <2>2, ReadConfigStep, ReadInstalledStep, ReadLocalStep, EndOfCatalogsStep, SettleStep,
       EndOfNamesStep, EndLoadStep DEF Next
  <2> QED BY <2>1, <2>2
<1> QED BY <1>1, <1>2, <1>3 DEF IInv

\* The inductive invariant of the load, for plain names: the table is what the
\* manifests read so far have made of it.
THEOREM TableInductive == Spec => [](PlainNames => IInv)
<1>1. Init => (PlainNames => IInv)
  BY InitHolds
<1>2. (PlainNames => IInv) /\ [Next]_vars => (PlainNames => IInv)'
  <2>1. ASSUME [Next]_vars PROVE PlainNames' = PlainNames
    <3>1. input' = input
      BY <2>1 DEF Next, vars, ReadConfig, ReadInstalled, ReadLocal, EndOfCatalogs,
             SettleBareName, EndOfNames, EndLoad, FailsAt
    <3> QED BY <3>1, SameDisk DEF input
  <2> QED BY <2>1, NextKeeps
<1> QED BY <1>1, <1>2, PTL DEF Spec

-----------------------------------------------------------------------------
\* What a finished load has made of a bare name.
LEMMA DoneFacts ==
    ASSUME IInv, phase = "done"
    PROVE  /\ \A p \in Present : p \notin unread
           /\ \A p \in Installed :
                 Registered(p) /\ p \in Present /\ p[1] \in Catalogs /\ NameOf(p) \in BareNames
           /\ \A cat \in Catalogs, name \in Names : Rooted(cat, name)
           /\ \A name \in BareNames :
                 /\ definers[name] = {p[1] : p \in {q \in Installed : NameOf(q) = name}}
                 /\ \A p \in Present : p[1] = Local /\ NameOf(p) = name => ByLocal(name, p)
                 /\ (\A p \in Present : ~(p[1] = Local /\ NameOf(p) = name)) => ByCatalogs(name)
<1>1. unread = {} /\ unsettled = {} /\ TypeOK
  BY DEF IInv, BaseInv, Order
<1>2. ASSUME NEW p \in Installed
      PROVE  Registered(p) /\ p \in Present /\ p[1] \in Catalogs /\ NameOf(p) \in BareNames
  BY <1>1, PlaceFacts DEF IInv, Table, PlainNames, Installed
<1>3. ASSUME NEW name \in BareNames
      PROVE  definers[name] = {p[1] : p \in {q \in Installed : NameOf(q) = name}}
  <2>1. ASSUME NEW p \in Installed, NameOf(p) = name PROVE p[1] \in definers[name]
    BY <2>1, <1>2 DEF Registered
  <2>2. ASSUME NEW cat \in definers[name] PROVE \E p \in Installed : NameOf(p) = name /\ p[1] = cat
    <3>1. cat \in Catalogs /\ name \in Names
      BY <1>1 DEF TypeOK, BareNames
    <3> QED BY <3>1 DEF IInv, BaseInv, DefinersRead
  <2> QED BY <2>1, <2>2
<1>4. ASSUME NEW name \in BareNames PROVE Settled(name)
  BY <1>1 DEF IInv, Table, BareName
<1>5. ASSUME NEW name \in BareNames
      PROVE  /\ \A p \in Present : p[1] = Local /\ NameOf(p) = name => ByLocal(name, p)
             /\ (\A p \in Present : ~(p[1] = Local /\ NameOf(p) = name)) => ByCatalogs(name)
  BY <1>1, <1>4 DEF Settled, ReadLocals
<1> QED BY <1>1, <1>2, <1>3, <1>5 DEF IInv, Table

\* A selector that resolves leads to a manifest of its name, and of its catalog.
LEMMA ResolvedFacts ==
    ASSUME IInv, phase = "done"
    PROVE  /\ \A cat \in Catalogs, name \in Names :
                 LET p == services[Qualified(cat, name)]
                 IN p # NoService => p \in Installed /\ p[1] = cat /\ NameOf(p) = name
           /\ \A name \in BareNames : services[name] # NoService =>
                 /\ services[name] \in Present
                 /\ NameOf(services[name]) = name
                 /\ ambiguous[name] = {}
<1>1. ASSUME NEW cat \in Catalogs, NEW name \in Names, services[Qualified(cat, name)] # NoService
      PROVE  LET p == services[Qualified(cat, name)]
             IN p \in Installed /\ p[1] = cat /\ NameOf(p) = name
  BY <1>1, DoneFacts DEF Rooted
<1>2. ASSUME NEW name \in BareNames, services[name] # NoService
      PROVE  services[name] \in Present /\ NameOf(services[name]) = name /\ ambiguous[name] = {}
  <2>1. CASE \E p \in Present : p[1] = Local /\ NameOf(p) = name
    BY <2>1, DoneFacts DEF ByLocal
  <2>2. CASE \A p \in Present : ~(p[1] = Local /\ NameOf(p) = name)
    <3>1. ByCatalogs(name) /\ definers[name] \subseteq Catalogs /\ name \in Names
      BY <2>2, DoneFacts DEF IInv, BaseInv, TypeOK, BareNames
    <3>2. PICK cat \in Catalogs : services[name] = services[Qualified(cat, name)] /\ ambiguous[name] = {}
      BY <3>1, <1>2 DEF ByCatalogs
    <3> QED BY <3>1, <3>2, <1>1, <1>2 DEF Installed
  <2> QED BY <2>1, <2>2
<1> QED BY <1>1, <1>2

-----------------------------------------------------------------------------
LEMMA SettledAsDeclared ==
    ASSUME IInv, phase = "done", NEW name \in BareNames
    PROVE  BareNameIsAsDeclared(name)
<1> DEFINE local == {p \in Places : Defines(Local, name, p)}
           catalog == {p \in Installed : NameOf(p) = name}
<1>1. local = {p \in Present : p[1] = Local /\ NameOf(p) = name}
  BY DEF Defines, Present
<1>2. definers[name] = {p[1] : p \in catalog}
  BY DoneFacts
<1>7. definers[name] = {} <=> catalog = {}
  BY <1>2
<1>3. ASSUME NEW p \in catalog, NEW q \in catalog, p[1] = q[1] PROVE p = q
  BY <1>3, DoneFacts DEF Registered
<1>4. ASSUME NEW p \in catalog PROVE catalog = {p} <=> definers[name] = {p[1]}
  <2>1. ASSUME definers[name] = {p[1]}, NEW q \in catalog PROVE q = p
    <3>1. q[1] = p[1]
      BY <2>1, <1>2
    <3> QED BY <3>1, <1>3
  <2>2. catalog = {p} => definers[name] = {p[1]}
    BY <1>2
  <2> QED BY <2>1, <2>2
<1>5. ASSUME NEW p \in local
      PROVE  /\ Lookup(name) = p
             /\ origins[name] = IF catalog = {} THEN "local" ELSE "override"
             /\ ambiguous[name] = {}
  <2>1. ByLocal(name, p)
    BY <1>1, DoneFacts
  <2> QED BY <2>1, <1>7 DEF ByLocal, Lookup
<1>6. ASSUME local = {}
      PROVE  /\ \/ \E p \in catalog : catalog = {p} /\ Lookup(name) = p /\ origins[name] = p[1]
                \/ /\ \A p \in catalog : catalog # {p}
                   /\ Lookup(name) = NoService
                   /\ origins[name] = ""
             /\ ambiguous[name] = IF \A p \in catalog : catalog # {p} THEN {p[1] : p \in catalog} ELSE {}
  <2>1. ByCatalogs(name)
    BY <1>1, <1>6, DoneFacts
  <2>2. CASE \E cat \in definers[name] : /\ definers[name] = {cat}
                                       /\ services[name] = services[Qualified(cat, name)]
                                       /\ origins[name] = cat /\ ambiguous[name] = {}
    <3>1. PICK p \in catalog : /\ definers[name] = {p[1]} /\ origins[name] = p[1] /\ ambiguous[name] = {}
                              /\ services[name] = services[Qualified(p[1], name)]
      BY <2>2, <1>2
    <3>2. catalog = {p}
      BY <3>1, <1>4
    <3>3. services[name] = p
      BY <3>1, DoneFacts DEF Registered
    <3> QED BY <3>1, <3>2, <3>3 DEF Lookup
  <2>3. CASE /\ \A cat \in definers[name] : definers[name] # {cat}
             /\ services[name] = NoService /\ origins[name] = "" /\ ambiguous[name] = definers[name]
    <3>1. \A p \in catalog : catalog # {p}
      BY <2>3, <1>2, <1>4
    <3> QED BY <3>1, <2>3, <1>2 DEF Lookup
  <2> QED BY <2>1, <2>2, <2>3 DEF ByCatalogs
<1> QED BY <1>5, <1>6 DEF BareNameIsAsDeclared

\* In whatever order files and names are visited, the table is the declared one, if no
\* manifest is called like a qualified selector.
THEOREM TableDeclared == Spec => []TableIsAsDeclared
<1>1. ASSUME IInv, phase = "done", NEW p \in Installed
      PROVE  /\ Lookup(Qualified(p[1], NameOf(p))) = p
             /\ origins[Qualified(p[1], NameOf(p))] = p[1]
  <2>1. Registered(p) /\ Qualified(p[1], NameOf(p)) \notin BareNames
    BY <1>1, DoneFacts, SelectorFacts DEF BareNames
  <2> QED BY <1>1, <2>1 DEF IInv, Table, Registered, Lookup
<1>2. (PlainNames => IInv) => TableIsAsDeclared
  BY <1>1, SettledAsDeclared DEF TableIsAsDeclared
<1> QED BY <1>2, TableInductive, PTL

-----------------------------------------------------------------------------
\* The selector under which a service is listed.
LEMMA Listed ==
    ASSUME IInv, phase = "done", NEW p \in Present
    PROVE  \E s \in CanonicalNames :
              /\ services[s] = p
              /\ \A t \in CanonicalNames : services[t] = p => t = s
<1> DEFINE name == NameOf(p)
<1>a. name \in BareNames /\ name \in Names /\ p # NoService /\ TypeOK
  BY PlaceFacts, SourceAssumption DEF IInv, BaseInv, PlainNames
<1>b. ASSUME NEW t \in Selectors, services[t] = p
      PROVE  t = name \/ (p \in Installed /\ t = Qualified(p[1], name))
  <2>1. CASE t \in BareNames
    BY <2>1, <1>a, <1>b, ResolvedFacts
  <2>2. CASE t \in Catalogs \X Names
    <3>1. PICK c \in Catalogs, n \in Names : t = Qualified(c, n)
      BY <2>2 DEF Qualified
    <3> QED BY <3>1, <1>a, <1>b, ResolvedFacts
  <2> QED BY <2>1, <2>2 DEF Selectors, BareNames
<1>c. CanonicalNames \subseteq Selectors
  BY DEF CanonicalNames
<1>1. CASE services[name] = p
  <2>1. name \in CanonicalNames
    BY <1>1, <1>a DEF CanonicalNames, Selectors
  <2>2. ASSUME p \in Installed PROVE Qualified(p[1], name) \notin CanonicalNames
    <3>1. Registered(p) /\ Qualified(p[1], name)[2] = name /\ Qualified(p[1], name) \notin BareNames
      BY <2>2, <1>a, DoneFacts, SelectorFacts
    <3> QED BY <3>1, <1>1 DEF CanonicalNames, Registered
  <2> QED BY <2>1, <2>2, <1>1, <1>b, <1>c
<1>2. CASE services[name] # p
  <2>1. p \in Installed
    <3>1. p[1] # Local
      BY <1>2, <1>a, DoneFacts DEF ByLocal
    <3> QED BY <3>1 DEF Installed
  <2>2. /\ Registered(p) /\ Qualified(p[1], name)[2] = name /\ Qualified(p[1], name) \notin BareNames
        /\ Qualified(p[1], name) \in Selectors
    BY <2>1, <1>a, DoneFacts, SelectorFacts
  <2>3. Qualified(p[1], name) \in CanonicalNames
    BY <2>2, <1>2, <1>a DEF CanonicalNames, Registered
  <2> QED BY <2>2, <2>3, <1>2, <1>b, <1>c DEF Registered
<1> QED BY <1>1, <1>2

\* Every manifest is listed under one canonical name, if no manifest is called like a
\* qualified selector.
THEOREM AllServicesListed == Spec => []EveryServiceIsListedOnce
<1>1. (PlainNames => IInv) => EveryServiceIsListedOnce
  BY Listed DEF EveryServiceIsListedOnce
<1> QED BY <1>1, TableInductive, PTL

\* A selector that resolves is that of a present service, and Lookup finds it.
LEMMA Resolves ==
    ASSUME IInv, phase = "done", NEW s \in Selectors, services[s] # NoService
    PROVE  services[s] \in Present /\ Lookup(s) = services[s]
<1>1. CASE s \in BareNames
  BY <1>1, ResolvedFacts DEF Lookup
<1>2. CASE s \in Catalogs \X Names
  <2>1. PICK c \in Catalogs, n \in Names : s = Qualified(c, n)
    BY <1>2 DEF Qualified
  <2>2. s \notin BareNames
    BY <2>1, SelectorFacts
  <2> QED BY <2>1, <2>2, ResolvedFacts DEF IInv, Table, Lookup, Installed
<1> QED BY <1>1, <1>2 DEF Selectors, BareNames

\* An allowlist of one selector serves one service, the one Lookup finds, if no manifest
\* is called like a qualified selector.
THEOREM AllowlistIsExact == Spec => []AllowlistSelectsOneService
<1>1. ASSUME IInv, phase = "done", NEW s \in Selectors, services[s] # NoService
      PROVE  \E t \in CanonicalNames : /\ services[t] = Lookup(s)
                                      /\ {u \in CanonicalNames : Allowed({s}, u)} = {t}
  <2>1. services[s] \in Present /\ Lookup(s) = services[s]
    BY <1>1, Resolves
  <2>2. PICK t \in CanonicalNames : /\ services[t] = services[s]
                                   /\ \A u \in CanonicalNames : services[u] = services[s] => u = t
    BY <1>1, <2>1, Listed
  <2>3. \A u \in CanonicalNames : Allowed({s}, u) <=> u = t
    BY <2>2 DEF Allowed
  <2> QED BY <2>1, <2>2, <2>3
<1>2. (PlainNames => IInv) => AllowlistSelectsOneService
  BY <1>1 DEF AllowlistSelectsOneService
<1> QED BY <1>2, TableInductive, PTL
=============================================================================
