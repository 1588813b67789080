CONSTANTS
    c1 = c1
    c2 = c2
    f1 = f1
    f2 = f2
    n1 = n1
    n2 = n2
    Catalogs = {c1, c2}
    Local = Local
    Files = {f1, f2}
    Names <- MCNames
    Stem <- MCStem
    Manifests <- MCManifests
    Profiles <- MCProfiles
    Unnamed = Unnamed
    NoFile = NoFile
    NoService = NoService
CHECK_DEADLOCK FALSE
SPECIFICATION Spec
INVARIANTS TableIsAsDeclared EveryServiceIsListedOnce AllowlistSelectsOneService WhatTheGateAcceptsLoads OrphansAreReported
