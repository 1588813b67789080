---------------------------- MODULE ServiceTable ----------------------------
(***************************************************************************)
(* The table of services that manifest.Load builds (load.go): every        *)
(* manifest of an installed catalog gets a qualified selector              *)
(* "<catalog>:<service>", then the bare names are settled, then the local  *)
(* manifests take the bare names they want.  Readers of the table (Lookup, *)
(* CanonicalNames, the allowlist of the MCP server) are operators.         *)
(*                                                                         *)
(* The directory stands still here; CatalogLoad has the races with the     *)
(* store.  A service is the place of its manifest: pointers are compared   *)
(* in the code, and two files never share one.  Manifests are read in any  *)
(* order here, sorted in the code; the bare names are settled in the order *)
(* of a Go map.                                                            *)
(***************************************************************************)
EXTENDS FiniteSets

CONSTANTS
    Catalogs,   \* installed catalogs
    Local,      \* services/, the other source of manifests
    Files,      \* file names of manifests
    Names,      \* service names, those that look like a selector of a catalog included
    Stem,       \* the name that a file name stands for
    Manifests,  \* bound: the manifests that may be found
    Profiles,   \* bound: the sets of names that a profile may bind
    Unnamed, NoFile, NoService

Places == (Catalogs \cup {Local}) \X Files
Qualified(cat, name) == <<cat, name>>
Selectors == Names \cup (Catalogs \X Names)

\* The names that no catalog can be read into.  Nothing keeps a manifest from the
\* others: its name is not checked, nor is that of its file.
BareNames == Names \ (Catalogs \X Names)

\* A manifest that decodes to an invalid service is bad; one with unknown keys is
\* sloppy: the loader warns of it, the install-time gate refuses it.
Kinds == {"good", "sloppy", "bad"}

ASSUME SourceAssumption ==
    /\ Local \notin Catalogs
    /\ Stem \in [Files -> Names]
    /\ Manifests \subseteq [name : Names \cup {Unnamed}, kind : Kinds]
    /\ Profiles \subseteq SUBSET Selectors
    /\ NoFile \notin Manifests
    /\ NoService \notin Places
\* An origin that is a catalog is told from the others (it is "catalog:<name>").
ASSUME OriginAssumption == Catalogs \cap {"local", "override", ""} = {}

VARIABLES
    disk,       \* the manifests that are there
    bound,      \* the names in profile.yaml
    phase,      \* where the load is
    unread,     \* manifests still to be read
    unsettled,  \* bare names still to be settled
    definers,   \* bareDefiners: the catalogs that define a name
    services,   \* l.Services
    origins,    \* l.Origins
    ambiguous,  \* l.Ambiguous; {} for a name that is not in it
    culprit,    \* the manifest that failed the load
    warned      \* the bindings called orphans

input == <<disk, bound>>
table == <<services, origins, ambiguous>>
vars == <<input, phase, unread, unsettled, definers, table, culprit, warned>>

Present == {p \in Places : disk[p] # NoFile}
Installed == {p \in Present : p[1] # Local}

TypeOK ==
    /\ disk \in [Places -> Manifests \cup {NoFile}]
    /\ bound \in SUBSET Selectors
    /\ phase \in {"config", "catalogs", "names", "local", "done", "failed"}
    /\ unread \in SUBSET Present
    /\ unsettled \in SUBSET Names
    /\ definers \in [Names -> SUBSET Catalogs]
    /\ services \in [Selectors -> Places \cup {NoService}]
    /\ origins \in [Selectors -> Catalogs \cup {"local", "override", ""}]
    /\ ambiguous \in [Names -> SUBSET Catalogs]
    /\ culprit \in Places \cup {NoService}
    /\ warned \in SUBSET Selectors

-----------------------------------------------------------------------------
\* The service's name: the one in the manifest, or else the stem of its file.
NameOf(p) == IF disk[p].name = Unnamed THEN Stem[p[2]] ELSE disk[p].name

Loads(p) == disk[p].kind # "bad"

FailsAt(p) ==
    /\ phase' = "failed"
    /\ culprit' = p
    /\ UNCHANGED <<input, unread, unsettled, definers, table, warned>>

\* config.yaml and profile.yaml come first; a malformed one ends the load.
ReadConfig ==
    /\ phase = "config"
    /\ phase' \in {"catalogs", "failed"}
    /\ UNCHANGED <<input, unread, unsettled, definers, table, culprit, warned>>

\* One manifest of a catalog.  seenInCat holds the names that its catalog defines
\* so far.
ReadInstalled(p) ==
    /\ phase = "catalogs"
    /\ p \in unread \cap Installed
    /\ LET cat == p[1]
           name == NameOf(p)
           sound == Loads(p) /\ cat \notin definers[name]
       IN \/ ~sound /\ FailsAt(p)
          \/ /\ sound
             /\ services' = [services EXCEPT ![Qualified(cat, name)] = p]
             /\ origins' = [origins EXCEPT ![Qualified(cat, name)] = cat]
             /\ definers' = [definers EXCEPT ![name] = @ \cup {cat}]
             /\ unread' = unread \ {p}
             /\ UNCHANGED <<input, phase, unsettled, ambiguous, culprit, warned>>

EndOfCatalogs ==
    /\ phase = "catalogs"
    /\ unread \cap Installed = {}
    /\ phase' = "names"
    /\ unsettled' = {name \in Names : definers[name] # {}}
    /\ UNCHANGED <<input, unread, definers, table, culprit, warned>>

\* A name with one definer is an alias of its qualified selector; one with several
\* is nobody's.
SettleBareName(name) ==
    /\ phase = "names"
    /\ name \in unsettled
    /\ unsettled' = unsettled \ {name}
    /\ \/ \E cat \in definers[name] :
             /\ definers[name] = {cat}
             /\ services' = [services EXCEPT ![name] = services[Qualified(cat, name)]]
             /\ origins' = [origins EXCEPT ![name] = cat]
             /\ UNCHANGED ambiguous
       \/ /\ \A cat \in definers[name] : definers[name] # {cat}
          /\ services' = [services EXCEPT ![name] = NoService]
          /\ origins' = [origins EXCEPT ![name] = ""]
          /\ ambiguous' = [ambiguous EXCEPT ![name] = definers[name]]
    /\ UNCHANGED <<input, phase, unread, definers, culprit, warned>>

EndOfNames ==
    /\ phase = "names"
    /\ unsettled = {}
    /\ phase' = "local"
    /\ UNCHANGED <<input, unread, unsettled, definers, table, culprit, warned>>

\* MUTANT of ReadLocal: an ambiguity outlives the local manifest that resolves it.
ReadLocalBesideAmbiguity(p) ==
    /\ phase = "local"
    /\ p \in unread
    /\ LET name == NameOf(p)
           sound == Loads(p) /\ origins[name] \notin {"local", "override"}
           shadows == origins[name] \in Catalogs \/ ambiguous[name] # {}
       IN \/ ~sound /\ FailsAt(p)
          \/ /\ sound
             /\ services' = [services EXCEPT ![name] = p]
             /\ origins' = [origins EXCEPT ![name] = IF shadows THEN "override" ELSE "local"]
             /\ unread' = unread \ {p}
             /\ UNCHANGED <<input, phase, unsettled, definers, ambiguous, culprit, warned>>

\* One local manifest: it takes its bare name, whoever had it, unless that was
\* another local manifest.
ReadLocal(p) ==
    /\ phase = "local"
    /\ p \in unread
    /\ LET name == NameOf(p)
           sound == Loads(p) /\ origins[name] \notin {"local", "override"}
           shadows == origins[name] \in Catalogs \/ ambiguous[name] # {}
       IN \/ ~sound /\ FailsAt(p)
          \/ /\ sound
             /\ services' = [services EXCEPT ![name] = p]
             /\ origins' = [origins EXCEPT ![name] = IF shadows THEN "override" ELSE "local"]
             /\ ambiguous' = [ambiguous EXCEPT ![name] = {}]
             /\ unread' = unread \ {p}
             /\ UNCHANGED <<input, phase, unsettled, definers, culprit, warned>>

\* MUTANT of EndLoad: without local manifests the load returns without a warning.
EndLoadEarly ==
    /\ phase = "local"
    /\ unread = {}
    /\ phase' = "done"
    /\ warned' = IF Installed = Present THEN {} ELSE {b \in bound : services[b] = NoService}
    /\ UNCHANGED <<input, unread, unsettled, definers, table, culprit>>

\* The load ends with warnOrphanProfileBindings.
EndLoad ==
    /\ phase = "local"
    /\ unread = {}
    /\ phase' = "done"
    /\ warned' = {b \in bound : services[b] = NoService}
    /\ UNCHANGED <<input, unread, unsettled, definers, table, culprit>>

-----------------------------------------------------------------------------
Init ==
    /\ disk \in [Places -> Manifests \cup {NoFile}]
    /\ bound \in Profiles
    /\ phase = "config"
    /\ unread = Present
    /\ unsettled = {}
    /\ definers = [n \in Names |-> {}]
    /\ services = [s \in Selectors |-> NoService]
    /\ origins = [s \in Selectors |-> ""]
    /\ ambiguous = [n \in Names |-> {}]
    /\ culprit = NoService
    /\ warned = {}

Next ==
    \/ ReadConfig
    \/ \E p \in unread : ReadInstalled(p) \/ ReadLocal(p)
    \/ EndOfCatalogs
    \/ \E name \in unsettled : SettleBareName(name)
    \/ EndOfNames
    \/ EndLoad

Spec == Init /\ [][Next]_vars

-----------------------------------------------------------------------------
\* What the readers of the table see.

\* Lookup asks for an ambiguity first.
Lookup(s) ==
    IF s \in Names /\ ambiguous[s] # {} THEN NoService ELSE services[s]

\* MUTANT of CanonicalNames: an alias is told by its name alone.
CanonicalByName ==
    {s \in Selectors :
        /\ services[s] # NoService
        /\ s \in BareNames \/ services[s[2]] = NoService}

\* A qualified selector is left out if its bare form is the same service.
CanonicalNames ==
    {s \in Selectors :
        /\ services[s] # NoService
        /\ s \in BareNames \/ services[s[2]] # services[s]}

\* MUTANT of Allowed: only the canonical form of a selector is understood.
AllowedLiterally(requested, s) == s \in requested

\* Options.allowed: a request names a selector, or the same service by another one.
Allowed(requested, s) == \E r \in requested : r = s \/ services[r] = services[s]

\* MUTANT of GateAccepts: two manifests of one name are let through.
GateWithoutDuplicates(cat) ==
    LET members == {p \in Installed : p[1] = cat}
    IN members # {} /\ \A p \in members : disk[p].kind = "good"

\* collectAndValidate: every member is portable and no name is defined twice.
GateAccepts(cat) ==
    LET members == {p \in Installed : p[1] = cat}
    IN /\ members # {}
       /\ \A p \in members : disk[p].kind = "good"
       /\ \A p, q \in members : NameOf(p) = NameOf(q) => p = q

-----------------------------------------------------------------------------
Defines(source, name, p) == p \in Present /\ p[1] = source /\ NameOf(p) = name

\* A bare name is settled by what the sources hold: a local manifest has it, or else
\* the only catalog that defines it; with several it is nobody's and ambiguous.
BareNameIsAsDeclared(name) ==
    LET local == {p \in Places : Defines(Local, name, p)}
        catalog == {p \in Installed : NameOf(p) = name}
    IN /\ \A p \in local :
             /\ Lookup(name) = p
             /\ origins[name] = IF catalog = {} THEN "local" ELSE "override"
       /\ local = {} =>
             \/ \E p \in catalog : catalog = {p} /\ Lookup(name) = p /\ origins[name] = p[1]
             \/ /\ \A p \in catalog : catalog # {p}
                /\ Lookup(name) = NoService
                /\ origins[name] = ""
       /\ ambiguous[name] =
             IF local = {} /\ \A p \in catalog : catalog # {p} THEN {p[1] : p \in catalog} ELSE {}

\* No manifest has a name that is also the qualified selector of a catalog.  Where one
\* has, it takes that selector from the catalog's service ("a:x" in services/), or the
\* order of a Go map decides which of the two has it ("a:x" in catalog b), whatever
\* loadInstalledCatalogs says of selectors that are registered unconditionally.
PlainNames == \A p \in Present : NameOf(p) \in BareNames

\* However the manifests and the Go map of definers are ordered, a finished load of
\* manifests with plain names has the table that the sources declare: local before
\* catalogs, never a silent pick among catalogs, and every service of a catalog under
\* its qualified selector.
TableIsAsDeclared ==
    phase = "done" /\ PlainNames =>
        /\ \A name \in BareNames : BareNameIsAsDeclared(name)
        /\ \A p \in Installed :
              /\ Lookup(Qualified(p[1], NameOf(p))) = p
              /\ origins[Qualified(p[1], NameOf(p))] = p[1]

\* Commands that go through all services (list, lint, doctor, the MCP server) meet every
\* manifest exactly once, if all names are plain: nothing is dropped behind an override,
\* an ambiguity or a duplicate, and no alias shows twice.
EveryServiceIsListedOnce ==
    phase = "done" /\ PlainNames => \A p \in Present : \E s \in CanonicalNames :
        /\ services[s] = p
        /\ \A t \in CanonicalNames : services[t] = p => t = s

\* `mcp --service <selector>` serves exactly the service that Lookup finds under this
\* selector, whichever of its forms is canonical, if all names are plain.
AllowlistSelectsOneService ==
    phase = "done" /\ PlainNames => \A s \in Selectors : services[s] # NoService =>
        \E t \in CanonicalNames :
            /\ services[t] = Lookup(s)
            /\ {u \in CanonicalNames : Allowed({s}, u)} = {t}

\* A catalog that `catalog add` accepts cannot fail a load, neither alone nor beside any
\* other catalog or local manifest.
WhatTheGateAcceptsLoads ==
    phase = "failed" /\ culprit # NoService /\ culprit[1] # Local => ~GateAccepts(culprit[1])

\* A binding for what is neither the name of a manifest nor the qualified selector of an
\* installed one is reported, however the names collide.  (A binding for a qualified
\* selector is applied to nothing, finalizeService asks for the bare name, and not
\* reported, because that selector is in the table.)
OrphansAreReported ==
    phase = "done" => \A b \in bound :
        (\A p \in Present : NameOf(p) # b /\ (p \in Installed => Qualified(p[1], NameOf(p)) # b))
            => b \in warned

=============================================================================
