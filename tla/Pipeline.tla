------------------------------ MODULE Pipeline ------------------------------
(***************************************************************************)
(* A composed command: executePipeline (internal/engine/pipeline.go) runs  *)
(* the steps of a manifest one after the other, each guarded by when: and  *)
(* confirm:, each with an on_error: fallback, and collects what they       *)
(* extract in one map of variables.  What a step sends, and what of it has *)
(* to be resolved before, is in Execute.tla.                               *)
(***************************************************************************)
EXTENDS Naturals, Sequences, FiniteSets

CONSTANTS
    Vars,      \* the names that steps extract or capture, no service variable among them
    NoVar,     \* a step without when:
    Programs   \* bound: the step sequences of the command

NoStep == [fallback |-> "none"]

\* The fields of manifest.Step that decide what happens.
IsStep(s) ==
    /\ s.when \in Vars \cup {NoVar}
    /\ s.confirm \in BOOLEAN
    /\ s.extract \subseteq Vars

ASSUME ProgramAssumption ==
    \A steps \in Programs :
        /\ Len(steps) \in Nat \ {0} /\ DOMAIN steps = 1 .. Len(steps)
        /\ \A k \in DOMAIN steps :
              /\ IsStep(steps[k])
              /\ steps[k].onError = NoStep \/ IsStep(steps[k].onError)
ASSUME NoVarAssumption == NoVar \notin Vars

VARIABLES
    prog,      \* cmd.Steps
    yes,       \* --yes
    dryRun,    \* --dry-run
    pc,        \* "step": before a step; "main", "fallback": its request; "done"
    i,         \* the current step
    acc,       \* accVars: what each variable holds, by its jq truth
    sent,      \* history: the requests sent, in order
    failed,    \* history: the steps whose own request failed
    outcome    \* of the command: "none", "ok" or "error"

flags == <<prog, yes, dryRun>>
vars == <<flags, pc, i, acc, sent, failed, outcome>>

Values == {"unset", "truthy", "falsy"}
Requests == [step : Nat, role : {"main", "fallback"}]

TypeOK ==
    /\ prog \in Programs
    /\ yes \in BOOLEAN /\ dryRun \in BOOLEAN
    /\ pc \in {"start", "step", "main", "fallback", "done"}
    /\ i \in 0 .. Len(prog) + 1
    /\ acc \in [Vars -> Values]
    /\ sent \in Seq(Requests)
    /\ failed \subseteq 1 .. Len(prog)
    /\ outcome \in {"none", "ok", "error"}

-----------------------------------------------------------------------------
Step == prog[i]

\* The when: fields that let their step run: none, or a variable that is truthy.
Due == {NoVar} \cup {v \in Vars : acc[v] = "truthy"}

Sends(role) == sent' = Append(sent, [step |-> i, role |-> role])

End(result) == pc' = "done" /\ outcome' = result

NextStep == pc' = "step" /\ i' = i + 1 /\ UNCHANGED outcome

\* What a step stores: a value for each of the names in set.
Extracts(set) ==
    \E new \in [set -> {"truthy", "falsy"}] :
        acc' = [v \in Vars |-> IF v \in set THEN new[v] ELSE acc[v]]

-----------------------------------------------------------------------------
\* Execute may refuse the command before its first step.
StartPipeline ==
    /\ pc = "start"
    /\ \/ End("error") /\ UNCHANGED i
       \/ dryRun /\ End("ok") /\ UNCHANGED i
       \/ ~dryRun /\ NextStep
    /\ UNCHANGED <<flags, acc, sent, failed>>

\* A when: expression that fails ends the command.
WhenFails ==
    /\ pc = "step"
    /\ i <= Len(prog)
    /\ Step.when # NoVar
    /\ End("error")
    /\ UNCHANGED <<flags, i, acc, sent, failed>>

SkipStep ==
    /\ pc = "step"
    /\ i <= Len(prog)
    /\ Step.when \notin Due
    /\ NextStep
    /\ UNCHANGED <<flags, acc, sent, failed>>

ConfirmAborts ==
    /\ pc = "step"
    /\ i <= Len(prog)
    /\ Step.when \in Due
    /\ Step.confirm
    /\ ~yes
    /\ End("error")
    /\ UNCHANGED <<flags, i, acc, sent, failed>>

\* MUTANT of EnterStep: confirm: is not looked at.
EnterUnasked ==
    /\ pc = "step"
    /\ i <= Len(prog)
    /\ Step.when \in Due
    /\ pc' = "main"
    /\ UNCHANGED <<flags, i, acc, sent, failed, outcome>>

\* MUTANT of EnterStep: when: is not looked at.
EnterUnguarded ==
    /\ pc = "step"
    /\ i <= Len(prog)
    /\ Step.confirm => yes
    /\ pc' = "main"
    /\ UNCHANGED <<flags, i, acc, sent, failed, outcome>>

EnterStep ==
    /\ pc = "step"
    /\ i <= Len(prog)
    /\ Step.when \in Due
    /\ Step.confirm => yes
    /\ pc' = "main"
    /\ UNCHANGED <<flags, i, acc, sent, failed, outcome>>

\* runStep of the step itself, without an error.
StepSucceeds ==
    /\ pc = "main"
    /\ Sends("main")
    /\ Extracts(Step.extract)
    /\ NextStep
    /\ UNCHANGED <<flags, failed>>

\* runStep with an error: before the request (a template, a header, a body), at it,
\* or after it, when some of the variables may have been stored already.
Fails(role, s) ==
    \/ UNCHANGED <<sent, acc>>
    \/ Sends(role) /\ \E part \in SUBSET s.extract : Extracts(part)

\* MUTANT of StepFails: a failed step without a fallback is passed over.
StepFailsSilently ==
    /\ pc = "main"
    /\ Fails("main", Step)
    /\ failed' = failed \cup {i}
    /\ IF Step.onError = NoStep THEN NextStep
       ELSE pc' = "fallback" /\ UNCHANGED <<i, outcome>>
    /\ UNCHANGED flags

StepFails ==
    /\ pc = "main"
    /\ Fails("main", Step)
    /\ failed' = failed \cup {i}
    /\ \/ Step.onError = NoStep /\ End("error") /\ UNCHANGED i
       \/ Step.onError # NoStep /\ pc' = "fallback" /\ UNCHANGED <<i, outcome>>
    /\ UNCHANGED flags

\* MUTANT of RunFallback: the step is tried again after its fallback.
FallbackThenRetry ==
    /\ pc = "fallback"
    /\ Sends("fallback")
    /\ Extracts(Step.onError.extract)
    /\ pc' = "main"
    /\ UNCHANGED <<flags, i, failed, outcome>>

\* runStep of the on_error step, whose own when:, confirm: and on_error: are not
\* looked at.  Its failure is only logged: the pipeline goes on.
RunFallback ==
    /\ pc = "fallback"
    /\ \/ /\ Sends("fallback")
          /\ Extracts(Step.onError.extract)
       \/ Fails("fallback", Step.onError)
    /\ NextStep
    /\ UNCHANGED <<flags, failed>>

\* The output filter over the variables, which may fail.
ApplyFilter ==
    /\ pc = "step"
    /\ i = Len(prog) + 1
    /\ \E result \in {"ok", "error"} : End(result)
    /\ UNCHANGED <<flags, i, acc, sent, failed>>

Init ==
    /\ prog \in Programs
    /\ yes \in BOOLEAN
    /\ dryRun \in BOOLEAN
    /\ pc = "start"
    /\ i = 0
    /\ acc = [v \in Vars |-> "unset"]
    /\ sent = <<>>
    /\ failed = {}
    /\ outcome = "none"

Next ==
    \/ StartPipeline
    \/ WhenFails
    \/ SkipStep
    \/ ConfirmAborts
    \/ EnterStep
    \/ StepSucceeds
    \/ StepFails
    \/ RunFallback
    \/ ApplyFilter

Spec == Init /\ [][Next]_vars

-----------------------------------------------------------------------------
\* The step whose fields a request was made from.
Source(r) == IF r.role = "fallback" THEN prog[r.step].onError ELSE prog[r.step]

\* The requests follow the order of the steps, each step is tried once, and its
\* fallback at most once and only after the step itself has failed: no step is
\* repeated or taken up again behind a later one.
RequestsFollowTheSteps ==
    /\ \A k, l \in DOMAIN sent : k < l =>
         \/ sent[k].step < sent[l].step
         \/ /\ sent[k].step = sent[l].step
            /\ sent[k].role = "main" /\ sent[l].role = "fallback"
    /\ \A k \in DOMAIN sent : sent[k].role = "fallback" => sent[k].step \in failed

\* Without --yes the loop sends no request of a step of its own that asks for
\* confirmation, and nothing at all from such a step on unless a when: guards it: the
\* abort is final, whatever fails, is skipped or falls back before it.  The fallbacks
\* are not covered: on_error steps are sent without a look at their own confirm:.
ConfirmGatesTheLoop ==
    ~yes => \A k \in DOMAIN sent :
        /\ sent[k].role = "main" => ~prog[sent[k].step].confirm
        /\ \A j \in 1 .. sent[k].step : prog[j].confirm => prog[j].when # NoVar

\* A command that succeeds has had a fallback for each step that failed: "a failed
\* pipeline must not exit 0".
NoFailureIsSilent ==
    outcome = "ok" => \A s \in failed : prog[s].onError # NoStep

\* A step guarded by a variable is sent only behind a request that extracts this
\* variable: a source that was skipped, or failed before its request, keeps the
\* steps that depend on it from running.
GuardedStepsFollowTheirSource ==
    \A l \in DOMAIN sent :
        sent[l].role = "main" /\ prog[sent[l].step].when # NoVar =>
            \E k \in 1 .. l - 1 : prog[sent[l].step].when \in Source(sent[k]).extract

\* A variable changes only with a request that extracts it, so that whatever an
\* earlier step has found survives every later step and every failure.
VarsChangeOnlyByTheirStep ==
    [][\A v \in Vars : acc'[v] # acc[v] =>
         /\ Len(sent') = Len(sent) + 1
         /\ v \in Source(sent'[Len(sent')]).extract]_vars

=============================================================================
