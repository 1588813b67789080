----------------------------- MODULE MCPipeline -----------------------------
(***************************************************************************)
(* Small instances of Pipeline: every sequence of up to two steps from a   *)
(* set of step shapes that combine guards, confirmation and fallbacks, and *)
(* chains of three steps.                                                  *)
(***************************************************************************)
EXTENDS Pipeline, SequencesExt

CONSTANTS v1, v2

MCHandlers ==
    {NoStep,
     [when |-> NoVar, confirm |-> FALSE, extract |-> {v1}],
     [when |-> v1, confirm |-> TRUE, extract |-> {v2}]}

MCSteps ==
    {[when |-> NoVar, confirm |-> FALSE, extract |-> {v1, v2}, onError |-> h] :
        h \in MCHandlers}
    \cup
    {[when |-> w, confirm |-> c, extract |-> {v2}, onError |-> h] :
        w \in {NoVar, v1}, c \in BOOLEAN, h \in {NoStep} \cup MCHandlers}

\* Of three steps: a source, a step that depends on it, and a confirmed one that does.
MCChains ==
    {<<a, b, c>> : a \in {s \in MCSteps : s.when = NoVar /\ ~s.confirm},
                   b \in {s \in MCSteps : s.when # NoVar /\ ~s.confirm},
                   c \in {s \in MCSteps : s.when # NoVar /\ s.confirm}}

MCPrograms == (BoundedSeq(MCSteps, 2) \ {<<>>}) \cup MCChains
=============================================================================
