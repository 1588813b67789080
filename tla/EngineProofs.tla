---------------------------- MODULE EngineProofs ----------------------------
(***************************************************************************)
(* Theorems about the two loops of the engine: Pagination, for every cap,  *)
(* page length, limit and list of items, and Pipeline, for every program,  *)
(* however long.  The two share nothing but the module.                    *)
(***************************************************************************)
EXTENDS Pagination, Pipeline, FiniteSetTheorems, TLAPS

-----------------------------------------------------------------------------
(* Pagination.                                                              *)

\* While the loop runs everything the service sent is held, within the limit and
\* the cap.
Running ==
    listing = "run" =>
        /\ page < MaxPages
        /\ requests = page
        /\ taken = served
        /\ limit > 0 => taken < limit
        /\ style = "single" => served = 0

\* The next request is new: numbered styles count, and the cursor is not yet asked for.
Fresh ==
    /\ IsFiniteSet(asked)
    /\ requests = Cardinality(asked)
    /\ listing = "run" /\ style = "single" => asked = {}
    /\ listing = "run" /\ style = "cursor" =>
          /\ asked \cup {cursor} \subseteq seen \cup {NoCursor}
          /\ seen \subseteq asked \cup {cursor}
          /\ cursor \notin asked
    /\ listing = "run" /\ style \in {"page-number", "page-until-short"} => asked = 1 .. page

\* A service that pages properly has sent full pages so far, or everything.
Paged ==
    service # AnyService =>
        /\ served <= service.items
        /\ refLen <= service.size
        /\ listing = "run" => served \in {service.size * page, service.items}

PageIInv ==
    /\ PageTypeOK
    /\ requests <= MaxPages
    /\ Running
    /\ Fresh
    /\ Paged
    /\ NoItemIsDropped
    /\ LimitCutsCursorAndUntilShort
    /\ CompleteResult

-----------------------------------------------------------------------------
\* What an answer of n items does to the counters, in whichever style.
Counted(n) ==
    /\ listing = "run"
    /\ n \in 0 .. MaxPageLen
    /\ served' = served + n
    /\ requests' = requests + 1
    /\ UNCHANGED <<style, limit, service>>
    /\ \/ Stop(taken + n) /\ (style \in {"cursor", "page-until-short"} => ~LimitReached(taken + n))
       \/ Stop(limit) /\ LimitReached(taken + n) /\ style # "single"
       \/ GoOn(taken + n) /\ ~LimitReached(taken + n) /\ style # "single"

LEMMA StepCounts ==
    ASSUME PageIInv, NEW n \in 0 .. MaxPageLen, NEW next \in Cursors \cup {NoCursor}, PageStep(n, next)
    PROVE  Counted(n)
<1> USE DEF PageIInv, PageTypeOK, Counted, Answer, Running
<1>1. CASE SinglePage(n)
  BY <1>1 DEF SinglePage, Stop
<1>2. CASE CursorPage(n, next)
  BY <1>2 DEF CursorPage
<1>3. CASE NumberedPage(n)
  BY <1>3 DEF NumberedPage
<1>4. CASE UntilShortPage(n)
  BY <1>4 DEF UntilShortPage, LimitReached
<1> QED BY <1>1, <1>2, <1>3, <1>4 DEF PageStep

LEMMA PageTypeStep == PageIInv /\ PageNext => PageTypeOK'
<1> SUFFICES ASSUME PageIInv, PageNext PROVE PageTypeOK'
  OBVIOUS
<1> USE BoundAssumption DEF PageIInv, PageTypeOK, Running
<1>1. CASE RequestFails
  BY <1>1 DEF RequestFails, history
<1>2. ASSUME NEW n \in 0 .. MaxPageLen, NEW next \in Cursors \cup {NoCursor}, PageStep(n, next)
      PROVE  PageTypeOK'
  <2>1. Counted(n)
    BY <1>2, StepCounts
  <2>2. /\ style' \in Styles /\ limit' \in Nat /\ service' \in Services
        /\ taken' \in Nat /\ served' \in Nat /\ requests' \in Nat
        /\ page' \in 0 .. MaxPages /\ listing' \in {"run", "ok", "error"}
    BY <2>1 DEF Counted, Stop, GoOn
  <2>3. CASE SinglePage(n)
    BY <2>2, <2>3 DEF SinglePage, Answer
  <2>4. CASE CursorPage(n, next)
    BY <2>2, <2>4 DEF CursorPage, Answer
  <2>5. CASE NumberedPage(n)
    BY <2>2, <2>5 DEF NumberedPage, Answer
  <2>6. CASE UntilShortPage(n)
    BY <2>2, <2>6 DEF UntilShortPage, Answer
  <2> QED BY <1>2, <2>3, <2>4, <2>5, <2>6 DEF PageStep
<1> QED BY <1>1, <1>2 DEF PageNext, AnswerArrives

LEMMA CountersStep ==
    PageIInv /\ PageNext => (requests <= MaxPages)' /\ Running' /\ NoItemIsDropped' /\ LimitCutsCursorAndUntilShort'
<1> SUFFICES ASSUME PageIInv, PageNext
             PROVE  (requests <= MaxPages)' /\ Running' /\ NoItemIsDropped' /\ LimitCutsCursorAndUntilShort'
  OBVIOUS
<1> USE BoundAssumption DEF PageIInv, PageTypeOK, Running, NoItemIsDropped, LimitCutsCursorAndUntilShort
<1>1. CASE RequestFails
  BY <1>1 DEF RequestFails, history
<1>2. ASSUME NEW n \in 0 .. MaxPageLen, NEW next \in Cursors \cup {NoCursor}, PageStep(n, next)
      PROVE  (requests <= MaxPages)' /\ Running' /\ NoItemIsDropped' /\ LimitCutsCursorAndUntilShort'
  BY <1>2, StepCounts DEF Counted, Stop, GoOn, LimitReached
<1> QED BY <1>1, <1>2 DEF PageNext, AnswerArrives

LEMMA OneMoreAsked ==
    ASSUME PageIInv, NEW param, param \notin asked, NEW n, Answer(param, n)
    PROVE  IsFiniteSet(asked') /\ requests' = Cardinality(asked')
<1>1. IsFiniteSet(asked \cup {param}) /\ Cardinality(asked \cup {param}) = Cardinality(asked) + 1
  BY FS_AddElement DEF PageIInv, Fresh
<1> QED BY <1>1 DEF PageIInv, Fresh, Answer

LEMMA FreshStep == PageIInv /\ PageNext => Fresh'
<1> SUFFICES ASSUME PageIInv, PageNext PROVE Fresh'
  OBVIOUS
<1> USE BoundAssumption, CursorAssumption DEF PageIInv, PageTypeOK, Running, Fresh
<1>1. CASE RequestFails
  BY <1>1 DEF RequestFails, history
<1>2. ASSUME NEW n \in 0 .. MaxPageLen, NEW next \in Cursors \cup {NoCursor}, PageStep(n, next)
      PROVE  Fresh'
  <2>1. CASE SinglePage(n)
    BY <2>1, OneMoreAsked DEF SinglePage, Answer, Stop
  <2>2. CASE CursorPage(n, next)
    <3>1. IsFiniteSet(asked') /\ requests' = Cardinality(asked')
      BY <2>2, OneMoreAsked DEF CursorPage, Answer
    <3>2. style = "cursor" /\ style' = "cursor" /\ asked' = asked \cup {cursor} /\ listing = "run"
      BY <2>2 DEF CursorPage, Answer
    <3>3. CASE listing' = "run"
      <4>1. next \notin {NoCursor, cursor} \cup seen /\ seen' = seen \cup {next} /\ cursor' = next
        BY <2>2, <3>3 DEF CursorPage, Stop
      <4> QED BY <3>1, <3>2, <4>1
    <3> QED BY <3>1, <3>2, <3>3
  <2>3. ASSUME style \in {"page-number", "page-until-short"}, Answer(page + 1, n),
               listing' = "run" => page' = page + 1
        PROVE  Fresh'
    <3>1. page + 1 \notin asked /\ 1 .. (page + 1) = (1 .. page) \cup {page + 1}
      BY <2>3 DEF Answer
    <3>2. IsFiniteSet(asked') /\ requests' = Cardinality(asked')
      BY <2>3, <3>1, OneMoreAsked
    <3> QED BY <2>3, <3>1, <3>2 DEF Answer
  <2>4. CASE NumberedPage(n)
    BY <2>3, <2>4 DEF NumberedPage, GoOn, Stop
  <2>5. CASE UntilShortPage(n)
    BY <2>3, <2>5 DEF UntilShortPage, GoOn, Stop
  <2> QED BY <1>2, <2>1, <2>2, <2>4, <2>5 DEF PageStep
<1> QED BY <1>1, <1>2 DEF PageNext, AnswerArrives

LEMMA OnePageMore == \A a, b \in Nat : a * (b + 1) = a * b + a
  OBVIOUS

\* A loop that ends for another reason than the limit or the cap has everything that
\* a service which pages properly holds.
LEMMA PagedStep == PageIInv /\ PageNext => Paged' /\ CompleteResult'
<1> SUFFICES ASSUME PageIInv, PageNext PROVE Paged' /\ CompleteResult'
  OBVIOUS
<1> USE BoundAssumption DEF PageIInv, PageTypeOK, Running
<1>1. CASE RequestFails
  BY <1>1 DEF RequestFails, history, CompleteResult, Paged
<1>2. ASSUME NEW n \in 0 .. MaxPageLen, NEW next \in Cursors \cup {NoCursor},
             Answers(n, next), PageStep(n, next)
      PROVE  Paged' /\ CompleteResult'
  <2>1. CASE service = AnyService
    BY <1>2, <2>1, StepCounts DEF Counted, CompleteResult, Paged
  <2>2. CASE service # AnyService
    <3> DEFINE left == service.items - served
    <3>1. /\ service.items \in Nat /\ service.size \in 1 .. MaxPageLen
          /\ service' = service /\ listing = "run" /\ served' = served + n /\ taken = served
          /\ served <= service.items /\ refLen <= service.size
      BY <1>2, <2>2, StepCounts DEF Services, Counted, Paged
    <3>2. /\ n = IF left < service.size THEN left ELSE service.size
          /\ IF n < left THEN next \notin asked \cup {cursor, NoCursor} ELSE next = NoCursor
      BY <1>2, <2>2 DEF Answers
    <3>3. served' <= service.items /\ n <= service.size
      BY <3>1, <3>2
    <3>4. n = service.size \/ served' = service.items
      BY <3>1, <3>2
    <3>5. service.size * (page + 1) = service.size * page + service.size
      <4>1. service.size \in Nat /\ page \in Nat
        BY <3>1
      <4> QED BY <4>1, OnePageMore, Zenon
    <3>6. served' \in {service.size * (page + 1), service.items}
      <4>1. CASE served = service.items
        BY <3>1, <3>3, <4>1
      <4>2. CASE served = service.size * page
        BY <3>1, <3>4, <3>5, <4>2
      <4> QED BY <2>2, <3>1, <4>1, <4>2 DEF Paged
    <3>7. refLen' <= service.size
      <4>1. refLen' \in {refLen, n}
        BY <1>2 DEF PageStep, SinglePage, CursorPage, NumberedPage, UntilShortPage
      <4> QED BY <3>1, <3>3, <4>1
    <3>8. Paged'
      BY <1>2, <3>1, <3>3, <3>6, <3>7, StepCounts DEF Counted, GoOn, Stop, Paged
    <3>9. ASSUME listing' = "ok", style # "single", ~LimitReached(taken + n), page + 1 < MaxPages
          PROVE  served' = service.items
      <4>1. CASE CursorPage(n, next)
        <5>1. next \in {NoCursor, cursor} \cup seen
          BY <3>9, <4>1 DEF CursorPage, GoOn
        <5>2. seen \subseteq asked \cup {cursor}
          BY <3>1, <4>1 DEF CursorPage, Fresh
        <5>3. ~(n < left)
          BY <3>2, <5>1, <5>2
        <5> QED BY <3>1, <3>3, <5>3
      <4>2. CASE NumberedPage(n)
        BY <3>1, <3>2, <3>4, <3>9, <4>2 DEF NumberedPage, GoOn
      <4>3. CASE UntilShortPage(n)
        <5>1. n = 0 \/ n < IF page = 0 THEN n ELSE refLen
          BY <3>1, <3>9, <4>3 DEF UntilShortPage, GoOn
        <5>2. n < service.size
          BY <3>1, <5>1
        <5> QED BY <3>4, <5>2
      <4> QED BY <1>2, <3>9, <4>1, <4>2, <4>3 DEF PageStep, SinglePage
    <3>10. ASSUME page + 1 >= MaxPages, service.items <= service.size * MaxPages
           PROVE  served' = service.items
      <4>1. page + 1 = MaxPages
        BY <3>1, <3>10
      <4> QED BY <3>1, <3>3, <3>6, <3>10, <4>1
    <3>11. CompleteResult'
      BY <1>2, <3>1, <3>9, <3>10, StepCounts DEF Counted, GoOn, Stop, LimitReached, CompleteResult
    <3> QED BY <3>8, <3>11
  <2> QED BY <2>1, <2>2
<1> QED BY <1>1, <1>2 DEF PageNext, AnswerArrives

-----------------------------------------------------------------------------
\* The inductive invariant.
THEOREM PaginationInductive == PageSpec => []PageIInv
<1>1. PageInit => PageIInv
  <2> SUFFICES ASSUME PageInit PROVE PageIInv
    OBVIOUS
  <2> USE BoundAssumption DEF PageInit
  <2>1. PageTypeOK
    BY DEF PageTypeOK
  <2>2. Fresh
    BY FS_EmptySet DEF Fresh
  <2>3. Paged
    BY DEF Paged, Services
  <2>4. requests <= MaxPages /\ Running /\ NoItemIsDropped /\ LimitCutsCursorAndUntilShort /\ CompleteResult
    BY DEF Running, NoItemIsDropped, LimitCutsCursorAndUntilShort, CompleteResult
  <2> QED BY <2>1, <2>2, <2>3, <2>4 DEF PageIInv
<1>2. PageIInv /\ UNCHANGED pageVars => PageIInv'
  BY DEF pageVars, loop, history, PageIInv, PageTypeOK, Running, Fresh, Paged, NoItemIsDropped,
         LimitCutsCursorAndUntilShort, CompleteResult
<1>3. PageIInv /\ [PageNext]_pageVars => PageIInv'
  BY <1>2, PageTypeStep, CountersStep, FreshStep, PagedStep DEF PageIInv
<1> QED BY <1>1, <1>3, PTL DEF PageSpec

\* Whatever the service answers, a command that ends well holds every item it was sent,
\* or was cut at the limit (fetchCursor, fetchPageNumber, fetchPageUntilShort).
THEOREM NothingIsDropped == PageSpec => []NoItemIsDropped
<1>1. PageIInv => NoItemIsDropped
  BY DEF PageIInv
<1> QED BY <1>1, PaginationInductive, PTL

\* No page and no cursor is asked for twice, whatever cycles the cursors form (the seen
\* set of fetchCursor), and nothing is asked for beyond the cap.
THEOREM EachPageOnce == PageSpec => [](NoPageTwice /\ requests <= MaxPages)
<1>1. PageIInv => NoPageTwice /\ requests <= MaxPages
  BY DEF PageIInv, Fresh, NoPageTwice
<1> QED BY <1>1, PaginationInductive, PTL

\* The cursor and until-short loops cut to --limit.
THEOREM LimitsCut == PageSpec => []LimitCutsCursorAndUntilShort
<1>1. PageIInv => LimitCutsCursorAndUntilShort
  BY DEF PageIInv
<1> QED BY <1>1, PaginationInductive, PTL

\* From a service that pages properly everything arrives that is within the cap, or as
\* much as --limit asks for, for lists of any length and pages of any size.
THEOREM ListingsAreComplete == PageSpec => []CompleteResult
<1>1. PageIInv => CompleteResult
  BY DEF PageIInv
<1> QED BY <1>1, PaginationInductive, PTL

-----------------------------------------------------------------------------
(* Pipeline.                                                                *)

InLoop == pc \in {"step", "main", "fallback"}

\* Where the loop is, and what has been decided about the step it is at.
Position ==
    /\ pc = "start" => i = 0 /\ sent = <<>> /\ failed = {} /\ outcome = "none"
    /\ InLoop => i >= 1 /\ outcome = "none"
    /\ pc \in {"main", "fallback"} => i <= Len(prog) /\ (prog[i].confirm => yes)
    /\ pc = "main" => prog[i].when \in Due
    /\ pc = "fallback" => i \in failed

\* Every request lies behind the loop.
Behind ==
    \A k \in 1 .. Len(sent) :
        /\ sent[k].step \in 1 .. Len(prog)
        /\ pc \in {"step", "main"} => sent[k].step < i
        /\ pc = "fallback" => sent[k].step < i \/ (sent[k].step = i /\ sent[k].role = "main")
        /\ sent[k].role = "fallback" => sent[k].step \in failed

\* Every failure so far has, or had, a fallback.
Handled ==
    InLoop \/ outcome = "ok" => \A s \in failed : prog[s].onError # NoStep

\* No confirmed step without a guard has been passed.
Passed == ~yes /\ InLoop => \A j \in 1 .. i - 1 : prog[j].confirm => prog[j].when # NoVar

\* Every variable that is set comes from a request that extracts it.
Sourced ==
    \A v \in Vars : acc[v] # "unset" =>
        \E k \in 1 .. Len(sent) : v \in Source(sent[k]).extract

IInv ==
    /\ TypeOK
    /\ Position
    /\ Behind
    /\ Handled
    /\ Passed
    /\ Sourced
    /\ RequestsFollowTheSteps
    /\ ConfirmGatesTheLoop
    /\ GuardedStepsFollowTheirSource

-----------------------------------------------------------------------------
\* What runStep does to the variables and the requests: nothing, or one request for
\* the current step, behind which only the variables that it extracts may change.
Grows(role) ==
    /\ sent' \in Seq(Requests)
    /\ Len(sent') = Len(sent) + 1
    /\ \A k \in 1 .. Len(sent) : sent'[k] = sent[k]
    /\ sent'[Len(sent) + 1].step = i
    /\ sent'[Len(sent) + 1].role = role

Stores(s) ==
    /\ acc' \in [Vars -> Values]
    /\ \A v \in Vars : acc'[v] # acc[v] => v \in s.extract

Quiet == UNCHANGED <<flags, acc, sent, failed>>

LEMMA SendsGrows ==
    ASSUME TypeOK, i \in Nat, NEW role \in {"main", "fallback"}, Sends(role)
    PROVE  Grows(role)
<1>1. [step |-> i, role |-> role] \in Requests
  BY DEF Requests
<1> QED BY <1>1 DEF TypeOK, Grows, Sends

LEMMA ExtractsStores ==
    ASSUME TypeOK, NEW s, NEW part, part \subseteq s.extract, Extracts(part)
    PROVE  Stores(s)
BY DEF Extracts, Stores, TypeOK, Values

\* The step whose request is made, and what becomes of it.
Ran(role, s) ==
    \/ sent' = sent /\ acc' = acc
    \/ Grows(role) /\ Stores(s)

LEMMA FailsRan ==
    ASSUME TypeOK, i \in Nat, NEW role \in {"main", "fallback"}, NEW s, Fails(role, s)
    PROVE  Ran(role, s)
<1>1. CASE UNCHANGED <<sent, acc>>
  BY <1>1 DEF Ran
<1>2. CASE Sends(role) /\ \E part \in SUBSET s.extract : Extracts(part)
  <2>1. Grows(role)
    BY <1>2, SendsGrows
  <2>2. Stores(s)
    BY <1>2, ExtractsStores
  <2> QED BY <2>1, <2>2 DEF Ran
<1> QED BY <1>1, <1>2 DEF Fails

LEMMA Current ==
    ASSUME IInv, pc \in {"main", "fallback"}
    PROVE  i \in 1 .. Len(prog) /\ i \in Nat /\ Len(prog) \in Nat
<1>1. i \in Nat /\ Len(prog) \in Nat
  BY ProgramAssumption DEF IInv, TypeOK
<1>2. i \in 1 .. Len(prog)
  BY <1>1 DEF IInv, Position, InLoop
<1> QED BY <1>1, <1>2

\* The main request of a step: how the action ends is left open.
LEMMA MainRuns ==
    ASSUME IInv, StepSucceeds \/ StepFails
    PROVE  Ran("main", prog[i]) /\ pc = "main" /\ UNCHANGED flags
<1>0. pc = "main" /\ UNCHANGED flags
  BY DEF StepSucceeds, StepFails
<1>1. CASE StepSucceeds
  <2>1. Grows("main")
    BY <1>0, <1>1, SendsGrows, Current DEF StepSucceeds, IInv
  <2>2. Stores(prog[i])
    BY <1>1, ExtractsStores DEF StepSucceeds, Step, IInv
  <2> QED BY <1>0, <2>1, <2>2 DEF Ran
<1>2. CASE StepFails
  BY <1>0, <1>2, FailsRan, Current DEF StepFails, Step, IInv
<1> QED BY <1>1, <1>2

LEMMA FallbackRuns ==
    ASSUME IInv, RunFallback
    PROVE  Ran("fallback", prog[i].onError) /\ pc = "fallback" /\ UNCHANGED <<flags, failed>>
<1>0. pc = "fallback" /\ UNCHANGED <<flags, failed>>
  BY DEF RunFallback
<1>1. CASE Sends("fallback") /\ Extracts(prog[i].onError.extract)
  <2>1. Grows("fallback")
    BY <1>0, <1>1, SendsGrows, Current DEF IInv
  <2>2. Stores(prog[i].onError)
    BY <1>1, ExtractsStores DEF IInv
  <2> QED BY <1>0, <2>1, <2>2 DEF Ran
<1>2. CASE Fails("fallback", prog[i].onError)
  BY <1>0, <1>2, FailsRan, Current DEF IInv
<1> QED BY <1>0, <1>1, <1>2 DEF RunFallback, Step

\* How the main request of a step ends.
LEMMA MainEnds ==
    ASSUME StepSucceeds \/ StepFails
    PROVE  \/ failed' = failed /\ NextStep
           \/ failed' = failed \cup {i} /\ prog[i].onError = NoStep /\ End("error") /\ UNCHANGED i
           \/ /\ failed' = failed \cup {i} /\ prog[i].onError # NoStep
              /\ pc' = "fallback" /\ UNCHANGED <<i, outcome>>
BY Zenon DEF StepSucceeds, StepFails, Step

\* The actions that send nothing.
Moves ==
    \/ StartPipeline \/ WhenFails \/ SkipStep \/ ConfirmAborts \/ EnterStep \/ ApplyFilter

LEMMA MovesQuietly == Moves => Quiet
BY DEF Moves, Quiet, StartPipeline, WhenFails, SkipStep, ConfirmAborts, EnterStep, ApplyFilter

\* Where they lead: to the end, into the step, or past it.
LEMMA MovesWithin ==
    ASSUME IInv, Moves
    PROVE  \/ \E result \in {"ok", "error"} : End(result) /\ UNCHANGED i
           \/ /\ pc = "step" /\ i <= Len(prog) /\ prog[i].when \in Due /\ (prog[i].confirm => yes)
              /\ pc' = "main" /\ UNCHANGED <<i, outcome>>
           \/ pc = "start" /\ i = 0 /\ NextStep
           \/ pc = "step" /\ i <= Len(prog) /\ prog[i].when \notin Due /\ NextStep
BY DEF Moves, StartPipeline, WhenFails, SkipStep, ConfirmAborts, EnterStep, ApplyFilter, Step, IInv, Position

-----------------------------------------------------------------------------
LEMMA TypeStep == IInv /\ Next => TypeOK'
<1> SUFFICES ASSUME IInv, Next PROVE TypeOK'
  OBVIOUS
<1>0. TypeOK /\ i \in Nat /\ Len(prog) \in Nat
  BY ProgramAssumption DEF IInv, TypeOK
<1>2. CASE Moves
  <2>1. Quiet
    BY <1>2, MovesQuietly
  <2>2. /\ pc' \in {"start", "step", "main", "fallback", "done"}
        /\ i' \in 0 .. Len(prog) + 1
        /\ outcome' \in {"none", "ok", "error"}
    BY <1>0, <1>2, MovesWithin DEF TypeOK, NextStep, End
  <2> QED BY <1>0, <2>1, <2>2 DEF Quiet, flags, TypeOK
<1>3. CASE StepSucceeds \/ StepFails
  <2>1. sent' \in Seq(Requests) /\ acc' \in [Vars -> Values] /\ UNCHANGED flags
    BY <1>0, <1>3, MainRuns DEF Ran, Grows, Stores, TypeOK
  <2>2. i \in 1 .. Len(prog)
    BY <1>3, Current DEF StepSucceeds, StepFails
  <2>3. /\ pc' \in {"start", "step", "main", "fallback", "done"}
        /\ i' \in 0 .. Len(prog) + 1
        /\ outcome' \in {"none", "ok", "error"}
        /\ failed' \subseteq 1 .. Len(prog)
    <3>1. CASE failed' = failed /\ NextStep
      BY <1>0, <2>2, <3>1 DEF TypeOK, NextStep
    <3>2. CASE failed' = failed \cup {i} /\ End("error") /\ UNCHANGED i
      BY <1>0, <2>2, <3>2 DEF TypeOK, End
    <3>3. CASE failed' = failed \cup {i} /\ pc' = "fallback" /\ UNCHANGED <<i, outcome>>
      BY <1>0, <2>2, <3>3 DEF TypeOK
    <3> QED BY <1>3, <3>1, <3>2, <3>3, MainEnds
  <2> QED BY <1>0, <2>1, <2>3 DEF flags, TypeOK
<1>4. CASE RunFallback
  <2>1. sent' \in Seq(Requests) /\ acc' \in [Vars -> Values] /\ UNCHANGED flags
    BY <1>0, <1>4, FallbackRuns DEF Ran, Grows, Stores, TypeOK
  <2>2. i \in 1 .. Len(prog)
    BY <1>4, Current DEF RunFallback
  <2> QED BY <1>0, <1>4, <2>1, <2>2 DEF flags, TypeOK, RunFallback, NextStep
<1> QED BY <1>2, <1>3, <1>4 DEF Next, Moves

LEMMA PositionStep == IInv /\ Next => Position'
<1> SUFFICES ASSUME IInv, Next PROVE Position'
  OBVIOUS
<1>0. Position /\ TypeOK /\ i \in Nat /\ Len(prog) \in Nat
  BY ProgramAssumption DEF IInv, TypeOK
<1>2. CASE Moves
  <2>1. Quiet
    BY <1>2, MovesQuietly
  <2> QED BY <1>0, <1>2, <2>1, MovesWithin DEF Position, InLoop, Quiet, flags, End, NextStep, Due
<1>3. CASE StepSucceeds \/ StepFails
  <2>1. pc = "main" /\ UNCHANGED flags
    BY <1>3, MainRuns
  <2>2. CASE NextStep
    BY <1>0, <2>1, <2>2 DEF Position, InLoop, NextStep
  <2>3. CASE End("error")
    BY <1>0, <2>1, <2>3 DEF Position, InLoop, End
  <2>4. CASE failed' = failed \cup {i} /\ pc' = "fallback" /\ UNCHANGED <<i, outcome>>
    BY <1>0, <2>1, <2>4 DEF Position, InLoop, flags
  <2> QED BY <1>3, <2>2, <2>3, <2>4, MainEnds
<1>4. CASE RunFallback
  BY <1>0, <1>4 DEF RunFallback, NextStep, Position, InLoop
<1> QED BY <1>2, <1>3, <1>4 DEF Next, Moves

LEMMA BehindStep == IInv /\ Next => Behind' /\ RequestsFollowTheSteps'
<1> SUFFICES ASSUME IInv, Next PROVE Behind' /\ RequestsFollowTheSteps'
  OBVIOUS
<1>0. /\ Position /\ TypeOK /\ i \in Nat /\ Len(prog) \in Nat
      /\ Behind /\ RequestsFollowTheSteps /\ DOMAIN sent = 1 .. Len(sent) /\ Len(sent) \in Nat
      /\ \A k \in 1 .. Len(sent) : sent[k].step \in Nat
  <2>1. sent \in Seq(Requests)
    BY DEF IInv, TypeOK
  <2>2. \A k \in 1 .. Len(sent) : sent[k].step \in Nat
    <3>1. ASSUME NEW k \in 1 .. Len(sent) PROVE sent[k] \in Requests
      BY <2>1
    <3> QED BY <3>1 DEF Requests
  <2>3. i \in Nat /\ Len(prog) \in Nat
    BY ProgramAssumption DEF IInv, TypeOK
  <2> QED BY <2>1, <2>2, <2>3 DEF IInv
<1>2. CASE Moves
  <2>1. Quiet
    BY <1>2, MovesQuietly
  <2>2. Behind'
    <3>1. CASE pc' = "done"
      BY <1>0, <2>1, <3>1 DEF Behind, Quiet, flags
    <3>2. CASE pc = "start"
      BY <1>0, <2>1, <3>2 DEF Behind, Quiet, Position
    <3>3. CASE pc = "step" /\ pc' \in {"step", "main"} /\ i' \in {i, i + 1}
      BY <1>0, <2>1, <3>3 DEF Behind, Quiet, flags
    <3> QED BY <1>2, <3>1, <3>2, <3>3, MovesWithin DEF End, NextStep
  <2> QED BY <1>0, <2>1, <2>2 DEF RequestsFollowTheSteps, Quiet
<1>3. CASE StepSucceeds \/ StepFails
  <2>1. Ran("main", prog[i]) /\ pc = "main" /\ UNCHANGED flags /\ i \in 1 .. Len(prog)
    BY <1>3, MainRuns, Current
  <2>2. failed \subseteq failed' /\ (pc' = "step" => i' = i + 1) /\ (pc' = "fallback" => i' = i) /\ pc' # "main"
    BY <1>3, MainEnds DEF NextStep, End
  <2>3. CASE sent' = sent
    BY <1>0, <2>1, <2>2, <2>3 DEF Behind, RequestsFollowTheSteps, flags
  <2>4. CASE Grows("main")
    <3>1. DOMAIN sent' = 1 .. Len(sent) + 1
      BY <1>0, <2>4 DEF Grows
    <3>2. Behind'
      BY <1>0, <2>1, <2>2, <2>4 DEF Behind, Grows, flags
    <3>3. RequestsFollowTheSteps'
      <4>1. ASSUME NEW k \in 1 .. Len(sent)
            PROVE  sent'[k] = sent[k] /\ sent[k].step < sent'[Len(sent) + 1].step
        BY <1>0, <2>1, <2>4 DEF Behind, Grows
      <4>2. sent'[Len(sent) + 1].role # "fallback"
        BY <2>4 DEF Grows
      <4> QED BY <1>0, <2>2, <3>1, <4>1, <4>2 DEF RequestsFollowTheSteps
    <3> QED BY <3>2, <3>3
  <2> QED BY <2>1, <2>3, <2>4 DEF Ran
<1>4. CASE RunFallback
  <2>1. /\ Ran("fallback", prog[i].onError) /\ pc = "fallback" /\ UNCHANGED <<flags, failed>>
        /\ i \in 1 .. Len(prog) /\ i \in failed /\ pc' = "step" /\ i' = i + 1
    BY <1>0, <1>4, FallbackRuns, Current DEF Position, RunFallback, NextStep
  <2>3. CASE sent' = sent
    BY <1>0, <2>1, <2>3 DEF Behind, RequestsFollowTheSteps, flags
  <2>4. CASE Grows("fallback")
    <3>1. DOMAIN sent' = 1 .. Len(sent) + 1
      BY <1>0, <2>4 DEF Grows
    <3>2. Behind'
      BY <1>0, <2>1, <2>4 DEF Behind, Grows, flags
    <3>3. RequestsFollowTheSteps'
      <4>1. ASSUME NEW k \in 1 .. Len(sent)
            PROVE  /\ sent'[k] = sent[k]
                   /\ \/ sent[k].step < sent'[Len(sent) + 1].step
                      \/ sent[k].step = sent'[Len(sent) + 1].step /\ sent[k].role = "main"
        BY <1>0, <2>1, <2>4 DEF Behind, Grows
      <4>2. sent'[Len(sent) + 1].role = "fallback" /\ sent'[Len(sent) + 1].step \in failed
        BY <2>1, <2>4 DEF Grows
      <4>3. \A k \in 1 .. Len(sent) + 1 : k \in 1 .. Len(sent) \/ k = Len(sent) + 1
        BY <1>0
      <4>4. ASSUME NEW k \in DOMAIN sent', NEW l \in DOMAIN sent', k < l
            PROVE  \/ sent'[k].step < sent'[l].step
                   \/ /\ sent'[k].step = sent'[l].step
                      /\ sent'[k].role = "main" /\ sent'[l].role = "fallback"
        <5>1. CASE l = Len(sent) + 1
          <6>1. k \in 1 .. Len(sent)
            BY <1>0, <3>1, <4>4, <5>1
          <6> QED BY <4>1, <4>2, <5>1, <6>1
        <5>2. CASE l # Len(sent) + 1
          <6>1. k \in 1 .. Len(sent) /\ l \in 1 .. Len(sent)
            BY <1>0, <3>1, <4>4, <5>2
          <6> QED BY <1>0, <4>1, <4>4, <6>1 DEF RequestsFollowTheSteps
        <5> QED BY <5>1, <5>2
      <4>5. ASSUME NEW k \in DOMAIN sent', sent'[k].role = "fallback"
            PROVE  sent'[k].step \in failed'
        BY <1>0, <2>1, <3>1, <4>1, <4>2, <4>3, <4>5 DEF RequestsFollowTheSteps
      <4> QED BY <4>4, <4>5 DEF RequestsFollowTheSteps
    <3> QED BY <3>2, <3>3
  <2> QED BY <2>1, <2>3, <2>4 DEF Ran
<1> QED BY <1>2, <1>3, <1>4 DEF Next, Moves

LEMMA HandledStep == IInv /\ Next => Handled'
<1> SUFFICES ASSUME IInv, Next PROVE Handled'
  OBVIOUS
<1>0. Handled /\ Position /\ (InLoop => outcome = "none")
  BY DEF IInv, Position
<1>2. CASE Moves
  <2>1. Quiet
    BY <1>2, MovesQuietly
  <2>2. CASE pc = "start"
    BY <1>0, <2>1, <2>2 DEF Position, Quiet, Handled
  <2>3. CASE pc = "step"
    BY <1>0, <2>1, <2>3 DEF Quiet, flags, Handled, InLoop
  <2> QED BY <1>2, <2>2, <2>3
        DEF Moves, StartPipeline, WhenFails, SkipStep, ConfirmAborts, EnterStep, ApplyFilter
<1>3. CASE StepSucceeds \/ StepFails
  <2>1. pc = "main" /\ UNCHANGED flags
    BY <1>3, MainRuns
  <2>2. CASE failed' = failed /\ NextStep
    BY <1>0, <2>1, <2>2 DEF Handled, InLoop, flags
  <2>3. CASE End("error")
    BY <2>3 DEF Handled, InLoop, End
  <2>4. CASE failed' = failed \cup {i} /\ prog[i].onError # NoStep
    BY <1>0, <2>1, <2>4 DEF Handled, InLoop, flags
  <2> QED BY <1>3, <2>2, <2>3, <2>4, MainEnds
<1>4. CASE RunFallback
  <2>1. pc = "fallback" /\ UNCHANGED <<flags, failed>>
    BY <1>4, FallbackRuns
  <2> QED BY <1>0, <2>1 DEF Handled, InLoop, flags
<1> QED BY <1>2, <1>3, <1>4 DEF Next, Moves

LEMMA PassedStep == IInv /\ Next => Passed'
<1> SUFFICES ASSUME IInv, Next PROVE Passed'
  OBVIOUS
<1>0. Passed /\ Position /\ i \in Nat
  BY ProgramAssumption DEF IInv, TypeOK
<1>2. CASE Moves
  <2>1. Quiet
    BY <1>2, MovesQuietly
  <2>2. CASE pc' = "done"
    BY <2>2 DEF Passed, InLoop
  <2>3. CASE i' = i /\ pc = "step"
    BY <1>0, <2>1, <2>3 DEF Passed, InLoop, Quiet, flags
  <2>4. CASE i = 0 /\ NextStep
    BY <2>4 DEF Passed, NextStep
  <2>5. CASE pc = "step" /\ prog[i].when \notin Due /\ NextStep
    BY <1>0, <2>1, <2>5 DEF Passed, InLoop, Quiet, flags, NextStep, Due
  <2> QED BY <1>2, <2>2, <2>3, <2>4, <2>5, MovesWithin DEF End
<1>3. ASSUME pc \in {"main", "fallback"}, UNCHANGED flags, i' \in {i, i + 1} PROVE Passed'
  <2>1. prog[i].confirm => yes
    BY <1>0, <1>3 DEF Position
  <2>2. ASSUME ~yes', NEW j \in 1 .. i' - 1, prog'[j].confirm PROVE prog'[j].when # NoVar
    <3>1. ~yes /\ prog' = prog /\ ~prog[i].confirm
      BY <1>3, <2>1, <2>2 DEF flags
    <3>2. j # i
      BY <2>2, <3>1
    <3>3. j \in 1 .. i - 1
      <4>1. CASE i' = i
        BY <2>2, <4>1
      <4>2. CASE i' = i + 1
        <5>1. j \in 1 .. i
          BY <1>0, <2>2, <4>2
        <5> QED BY <1>0, <3>2, <5>1
      <4> QED BY <1>3, <4>1, <4>2
    <3> QED BY <1>0, <1>3, <2>2, <3>1, <3>3 DEF Passed, InLoop
  <2> QED BY <2>2 DEF Passed
<1>4. CASE StepSucceeds \/ StepFails
  BY <1>3, <1>4, MainRuns, MainEnds DEF NextStep
<1>5. CASE RunFallback
  BY <1>3, <1>5, FallbackRuns DEF RunFallback, NextStep
<1> QED BY <1>2, <1>4, <1>5 DEF Next, Moves

\* What a request adds keeps to the gates: the loop has passed no confirmed step
\* without a guard, and is not at one that asks for confirmation.
LEMMA GatesStep == IInv /\ Next => ConfirmGatesTheLoop'
<1> SUFFICES ASSUME IInv, Next, ~yes' PROVE ConfirmGatesTheLoop'
  BY DEF ConfirmGatesTheLoop
<1>0. /\ ConfirmGatesTheLoop /\ Position /\ Passed /\ i \in Nat
      /\ DOMAIN sent = 1 .. Len(sent) /\ Len(sent) \in Nat
  BY ProgramAssumption DEF IInv, TypeOK
<1>2. CASE Moves
  BY <1>0, <1>2, MovesQuietly DEF ConfirmGatesTheLoop, Quiet, flags
<1>3. ASSUME pc \in {"main", "fallback"}, UNCHANGED flags, NEW role \in {"main", "fallback"}, NEW s,
             Ran(role, s)
      PROVE  ConfirmGatesTheLoop'
  <2>1. prog' = prog /\ yes' = yes /\ ~yes
    BY <1>3 DEF flags
  <2>2. CASE sent' = sent
    BY <1>0, <2>1, <2>2 DEF ConfirmGatesTheLoop
  <2>3. CASE Grows(role)
    <3>1. DOMAIN sent' = 1 .. Len(sent) + 1
      BY <1>0, <2>3 DEF Grows
    <3>2. ~prog[i].confirm
      BY <1>0, <1>3, <2>1 DEF Position
    <3>3. \A j \in 1 .. i : prog[j].confirm => prog[j].when # NoVar
      BY <1>0, <1>3, <2>1, <3>2 DEF Passed, InLoop
    <3>4. ASSUME NEW k \in DOMAIN sent'
          PROVE  /\ sent'[k].role = "main" => ~prog[sent'[k].step].confirm
                 /\ \A j \in 1 .. sent'[k].step : prog[j].confirm => prog[j].when # NoVar
      <4>1. CASE k = Len(sent) + 1
        BY <2>3, <3>2, <3>3, <4>1 DEF Grows
      <4>2. CASE k \in 1 .. Len(sent)
        BY <1>0, <2>1, <2>3, <3>4, <4>2 DEF ConfirmGatesTheLoop, Grows
      <4> QED BY <1>0, <3>1, <4>1, <4>2
    <3> QED BY <2>1, <3>4 DEF ConfirmGatesTheLoop
  <2> QED BY <1>3, <2>2, <2>3 DEF Ran
<1>4. CASE StepSucceeds \/ StepFails
  BY <1>3, <1>4, MainRuns
<1>5. CASE RunFallback
  BY <1>3, <1>5, FallbackRuns
<1> QED BY <1>2, <1>4, <1>5 DEF Next, Moves

LEMMA SourcedStep == IInv /\ Next => Sourced' /\ GuardedStepsFollowTheirSource'
<1> SUFFICES ASSUME IInv, Next PROVE Sourced' /\ GuardedStepsFollowTheirSource'
  OBVIOUS
<1>0. /\ Sourced /\ GuardedStepsFollowTheirSource /\ Position /\ i \in Nat
      /\ DOMAIN sent = 1 .. Len(sent) /\ Len(sent) \in Nat
  BY ProgramAssumption DEF IInv, TypeOK
<1>2. CASE UNCHANGED <<prog, acc, sent>>
  BY <1>0, <1>2 DEF Sourced, GuardedStepsFollowTheirSource, Source
<1>3. ASSUME UNCHANGED prog, NEW role \in {"main", "fallback"}, NEW s,
             s = IF role = "fallback" THEN prog[i].onError ELSE prog[i],
             role = "main" => pc = "main",
             Grows(role), Stores(s)
      PROVE  Sourced' /\ GuardedStepsFollowTheirSource'
  <2> DEFINE new == Len(sent) + 1
  <2>1. DOMAIN sent' = 1 .. new /\ Len(sent') = new
    BY <1>0, <1>3 DEF Grows
  <2>2. Source(sent'[new]) = s
    BY <1>3 DEF Grows, Source
  <2>3. ASSUME NEW k \in 1 .. Len(sent)
        PROVE  sent'[k] = sent[k] /\ Source(sent'[k]) = Source(sent[k])
    BY <1>3, <2>3 DEF Grows, Source
  <2>4. Sourced'
    <3>1. ASSUME NEW v \in Vars, acc'[v] # "unset"
          PROVE  \E k \in 1 .. new : v \in Source(sent'[k]).extract
      <4>1. CASE acc'[v] = acc[v]
        <5>1. PICK k \in 1 .. Len(sent) : v \in Source(sent[k]).extract
          BY <1>0, <3>1, <4>1 DEF Sourced
        <5> QED BY <1>0, <2>3, <5>1
      <4>2. CASE acc'[v] # acc[v]
        BY <1>0, <1>3, <2>2, <4>2 DEF Stores
      <4> QED BY <4>1, <4>2
    <3> QED BY <1>3, <2>1, <3>1 DEF Sourced, Source
  <2>5. ASSUME NEW l \in 1 .. new, sent'[l].role = "main", prog[sent'[l].step].when # NoVar
        PROVE  \E k \in 1 .. l - 1 : prog[sent'[l].step].when \in Source(sent'[k]).extract
    <3>1. CASE l \in 1 .. Len(sent)
      <4>1. PICK k \in 1 .. l - 1 : prog[sent[l].step].when \in Source(sent[k]).extract
        BY <1>0, <2>3, <2>5, <3>1 DEF GuardedStepsFollowTheirSource
      <4>2. k \in 1 .. Len(sent)
        BY <1>0, <3>1, <4>1
      <4> QED BY <2>3, <3>1, <4>1, <4>2
    <3>2. CASE l = new
      <4>1. sent'[l].step = i /\ role = "main" /\ pc = "main"
        BY <1>3, <2>5, <3>2 DEF Grows
      <4>2. prog[i].when \in Vars /\ acc[prog[i].when] # "unset"
        BY <1>0, <2>5, <4>1 DEF Position, Due
      <4>3. PICK k \in 1 .. Len(sent) : prog[i].when \in Source(sent[k]).extract
        BY <1>0, <4>2 DEF Sourced
      <4> QED BY <1>0, <2>3, <3>2, <4>1, <4>3
    <3> QED BY <1>0, <3>1, <3>2
  <2>6. GuardedStepsFollowTheirSource'
    BY <1>3, <2>1, <2>5 DEF GuardedStepsFollowTheirSource, Source
  <2> QED BY <2>4, <2>6
<1>4. CASE Moves
  BY <1>2, <1>4, MovesQuietly DEF Quiet, flags
<1>5. CASE StepSucceeds \/ StepFails
  BY <1>2, <1>3, <1>5, MainRuns DEF Ran, flags
<1>6. CASE RunFallback
  BY <1>2, <1>3, <1>6, FallbackRuns DEF Ran, flags
<1> QED BY <1>4, <1>5, <1>6 DEF Next, Moves

-----------------------------------------------------------------------------
\* The inductive invariant.
THEOREM PipelineInductive == Spec => []IInv
<1>1. Init => IInv
  <2> SUFFICES ASSUME Init PROVE IInv
    OBVIOUS
  <2>1. TypeOK
    BY ProgramAssumption DEF Init, TypeOK, Values
  <2>2. Position /\ Behind /\ Handled /\ Passed /\ Sourced
    BY DEF Init, Position, Behind, Handled, Passed, Sourced, InLoop
  <2>3. RequestsFollowTheSteps /\ ConfirmGatesTheLoop /\ GuardedStepsFollowTheirSource
    BY DEF Init, RequestsFollowTheSteps, ConfirmGatesTheLoop, GuardedStepsFollowTheirSource
  <2> QED BY <2>1, <2>2, <2>3 DEF IInv
<1>2. IInv /\ Next => IInv'
  BY TypeStep, PositionStep, BehindStep, HandledStep, PassedStep, GatesStep, SourcedStep DEF IInv
<1>3. IInv /\ UNCHANGED vars => IInv'
  BY DEF vars, flags, IInv, TypeOK, Position, Behind, Handled, Passed, Sourced, InLoop, Due, Source,
         RequestsFollowTheSteps, ConfirmGatesTheLoop, GuardedStepsFollowTheirSource
<1> QED BY <1>1, <1>2, <1>3, PTL DEF Spec

\* The types of the pipeline's state.
THEOREM PipelineTypeCorrect == Spec => []TypeOK
<1>1. IInv => TypeOK
  BY DEF IInv
<1> QED BY <1>1, PipelineInductive, PTL

\* Requests follow the order of the steps, none is sent twice, and a fallback only after
\* its step has failed (executePipeline), in programs of any length.
THEOREM NothingIsSentTwice == Spec => []RequestsFollowTheSteps
<1>1. IInv => RequestsFollowTheSteps
  BY DEF IInv
<1> QED BY <1>1, PipelineInductive, PTL

\* Without --yes no step of the loop that asks for confirmation is sent, nor anything behind
\* one without a guard; the confirm: of a fallback is not looked at.
THEOREM LoopConfirmHolds == Spec => []ConfirmGatesTheLoop
<1>1. IInv => ConfirmGatesTheLoop
  BY DEF IInv
<1> QED BY <1>1, PipelineInductive, PTL

\* A command that succeeds had a fallback for each step that failed.
THEOREM FailuresShow == Spec => []NoFailureIsSilent
<1>1. IInv => NoFailureIsSilent
  BY DEF IInv, Handled, NoFailureIsSilent
<1> QED BY <1>1, PipelineInductive, PTL

\* A step guarded by a variable runs only behind a request that extracts it.
THEOREM GuardsHold == Spec => []GuardedStepsFollowTheirSource
<1>1. IInv => GuardedStepsFollowTheirSource
  BY DEF IInv
<1> QED BY <1>1, PipelineInductive, PTL

\* A variable changes only with a request that extracts it.
THEOREM VarsHaveASource == Spec => VarsChangeOnlyByTheirStep
<1> DEFINE Caused == \A v \in Vars : acc'[v] # acc[v] =>
                         /\ Len(sent') = Len(sent) + 1
                         /\ v \in Source(sent'[Len(sent')]).extract
<1>1. IInv /\ Next => Caused
  <2> SUFFICES ASSUME IInv, Next PROVE Caused
    OBVIOUS
  <2>2. CASE Moves
    BY <2>2, MovesQuietly DEF Quiet
  <2>3. CASE StepSucceeds \/ StepFails
    BY <2>3, MainRuns DEF Ran, Grows, Stores, Source
  <2>4. CASE RunFallback
    BY <2>4, FallbackRuns DEF Ran, Grows, Stores, Source
  <2> QED BY <2>2, <2>3, <2>4 DEF Next, Moves
<1>2. IInv /\ [Next]_vars => [Caused]_vars
  BY <1>1
<1> QED BY <1>2, PipelineInductive, PTL DEF Spec, VarsChangeOnlyByTheirStep
=============================================================================
