----------------------------- MODULE Pagination -----------------------------
(***************************************************************************)
(* The pagination loops of the HTTP engine (internal/engine/engine.go):    *)
(* executePaginated asks the service for page after page and merges the    *)
(* items into one body.  The service is the environment.  Most of the      *)
(* behaviours have one that answers every request with any number of items *)
(* and any cursor, or fails; the others have one that holds a fixed list   *)
(* and pages through it as the engine expects: full pages, then what       *)
(* remains, a next cursor for as long as something remains, and no heed of *)
(* the limit=N that buildQuery adds to the query.                          *)
(*                                                                         *)
(* Items are only counted, since the loops append whole pages in the order *)
(* they arrive: taken is len(allItems), served what the service has sent.  *)
(***************************************************************************)
EXTENDS Naturals, FiniteSets

CONSTANTS
    MaxPages,    \* maxPages, the cap on the requests of one command
    MaxPageLen,  \* bound: items in one answer
    MaxLimit,    \* bound: the value of --limit; 0 stands for no flag
    MaxItems,    \* bound: the items of a service that pages properly
    AnyService,  \* a service that answers anything
    Cursors,     \* the cursors the service may hand out
    NoCursor     \* "": an absent, null or empty cursor

ASSUME BoundAssumption ==
    /\ MaxPages \in Nat \ {0}
    /\ MaxPageLen \in Nat
    /\ MaxLimit \in Nat
    /\ MaxItems \in Nat
ASSUME CursorAssumption == NoCursor \notin Cursors

VARIABLES
    style,    \* pagination.style of the command
    limit,    \* flags.Limit
    service,  \* AnyService, or the items and the page size of a proper one
    page,     \* the loop counter; numbered styles ask for page + 1
    cursor,   \* the cursor of the next request
    seen,     \* the cursors noted as requested
    refLen,   \* prevLen of page-number, fullPageLen of page-until-short
    taken,    \* len(allItems)
    listing,  \* "run" while in the loop, then "ok" or "error"
    served,   \* history: the items the service has answered with
    asked,    \* history: the page numbers or cursors it was asked for
    requests  \* history: how often it was asked

loop == <<page, cursor, seen, refLen, taken, listing>>
history == <<served, asked, requests>>
pageVars == <<style, limit, service, loop, history>>

Styles == {"single", "cursor", "page-number", "page-until-short"}
Services == {AnyService} \cup [items : 0 .. MaxItems, size : 1 .. MaxPageLen]

PageTypeOK ==
    /\ style \in Styles
    /\ limit \in Nat
    /\ service \in Services
    /\ page \in 0 .. MaxPages
    /\ cursor \in Cursors \cup {NoCursor}
    /\ seen \in SUBSET Cursors
    /\ refLen \in Nat
    /\ taken \in Nat
    /\ listing \in {"run", "ok", "error"}
    /\ served \in Nat
    /\ asked \subseteq Cursors \cup {NoCursor} \cup (1 .. MaxPages)
    /\ requests \in Nat

-----------------------------------------------------------------------------
LimitReached(total) == limit > 0 /\ total >= limit

Stop(total) ==
    /\ taken' = total
    /\ listing' = "ok"
    /\ UNCHANGED page

\* MUTANT of GoOn: the cap admits one turn more.
GoOnOnceMore(total) ==
    /\ taken' = total
    /\ page' = page + 1
    /\ listing' = IF page < MaxPages THEN "run" ELSE "ok"

\* The next turn of the loop; the last one ends it with what there is.
GoOn(total) ==
    /\ taken' = total
    /\ page' = page + 1
    /\ listing' = IF page + 1 < MaxPages THEN "run" ELSE "ok"

\* A request for the page or cursor `param`, answered with n items.
Answer(param, n) ==
    /\ listing = "run"
    /\ served' = served + n
    /\ asked' = asked \cup {param}
    /\ requests' = requests + 1
    /\ UNCHANGED <<style, limit, service>>

-----------------------------------------------------------------------------
\* Styles none and fixed-query, and any other: the body is passed on as it is.
SinglePage(n) ==
    /\ style = "single"
    /\ Answer(NoCursor, n)
    /\ Stop(n)
    /\ UNCHANGED <<cursor, seen, refLen>>

\* MUTANT of CursorPage: only a cursor that does not advance ends the loop.
CursorPageUnguarded(n, next) ==
    /\ style = "cursor"
    /\ Answer(cursor, n)
    /\ LET total == taken + n
       IN \/ /\ LimitReached(total)
             /\ Stop(limit)
             /\ UNCHANGED <<cursor, seen>>
          \/ /\ ~LimitReached(total)
             /\ next \in {NoCursor, cursor}
             /\ Stop(total)
             /\ UNCHANGED <<cursor, seen>>
          \/ /\ ~LimitReached(total)
             /\ next \notin {NoCursor, cursor}
             /\ seen' = seen \cup {next}
             /\ cursor' = next
             /\ GoOn(total)
    /\ UNCHANGED refLen

\* fetchCursor: the loop ends at the limit, without a next cursor, and with one
\* that was requested before.
CursorPage(n, next) ==
    /\ style = "cursor"
    /\ Answer(cursor, n)
    /\ LET total == taken + n
       IN \/ /\ LimitReached(total)
             /\ Stop(limit)
             /\ UNCHANGED <<cursor, seen>>
          \/ /\ ~LimitReached(total)
             /\ next \in {NoCursor, cursor} \cup seen
             /\ Stop(total)
             /\ UNCHANGED <<cursor, seen>>
          \/ /\ ~LimitReached(total)
             /\ next \notin {NoCursor, cursor} \cup seen
             /\ seen' = seen \cup {next}
             /\ cursor' = next
             /\ GoOn(total)
    /\ UNCHANGED refLen

\* MUTANT of NumberedPage: a short page is not merged.
NumberedPageDropsLast(n) ==
    /\ style = "page-number"
    /\ Answer(page + 1, n)
    /\ LET total == taken + n
           short == page > 0 /\ n < refLen
       IN \/ (n = 0 \/ short) /\ Stop(taken)
          \/ n > 0 /\ ~short /\ LimitReached(total) /\ Stop(limit)
          \/ n > 0 /\ ~short /\ ~LimitReached(total) /\ GoOn(total)
    /\ refLen' = n
    /\ UNCHANGED <<cursor, seen>>

\* fetchPageNumber: a page shorter than the one before is the last one.
NumberedPage(n) ==
    /\ style = "page-number"
    /\ Answer(page + 1, n)
    /\ LET total == taken + n
           short == page > 0 /\ n < refLen
       IN \/ /\ n = 0 \/ short
             /\ Stop(total)
             /\ UNCHANGED refLen
          \/ /\ n > 0 /\ ~short
             /\ refLen' = n
             /\ \/ LimitReached(total) /\ Stop(limit)
                \/ ~LimitReached(total) /\ GoOn(total)
    /\ UNCHANGED <<cursor, seen>>

\* fetchPageUntilShort: a page shorter than the first one is the last one.
UntilShortPage(n) ==
    /\ style = "page-until-short"
    /\ Answer(page + 1, n)
    /\ LET total == taken + n
           full == IF page = 0 THEN n ELSE refLen
       IN \/ n = 0 /\ Stop(total) /\ UNCHANGED refLen
          \/ /\ n > 0
             /\ refLen' = full
             /\ \/ LimitReached(total) /\ Stop(limit)
                \/ ~LimitReached(total) /\ n < full /\ Stop(total)
                \/ ~LimitReached(total) /\ n >= full /\ GoOn(total)
    /\ UNCHANGED <<cursor, seen>>

\* A request that fails, or an answer that has no array where the manifest says:
\* the pages that were merged so far are discarded.
RequestFails ==
    /\ listing = "run"
    /\ listing' = "error"
    /\ UNCHANGED <<style, limit, service, page, cursor, seen, refLen, taken, history>>

-----------------------------------------------------------------------------
PageInit ==
    /\ style \in Styles
    /\ limit \in 0 .. MaxLimit
    /\ service \in Services
    /\ page = 0
    /\ cursor = NoCursor
    /\ seen = {}
    /\ refLen = 0
    /\ taken = 0
    /\ listing = "run"
    /\ served = 0
    /\ asked = {}
    /\ requests = 0

\* What the engine does with an answer of n items and the cursor next.
PageStep(n, next) ==
    \/ SinglePage(n)
    \/ CursorPage(n, next)
    \/ NumberedPage(n)
    \/ UntilShortPage(n)

\* What the service may answer next: anything, or its next page.
Answers(n, next) ==
    \/ service = AnyService
    \/ /\ service # AnyService
       /\ LET left == service.items - served
          IN /\ n = IF left < service.size THEN left ELSE service.size
             /\ IF n < left THEN next \notin asked \cup {cursor, NoCursor} ELSE next = NoCursor

AnswerArrives ==
    \E n \in 0 .. MaxPageLen, next \in Cursors \cup {NoCursor} :
        Answers(n, next) /\ PageStep(n, next)

PageNext == AnswerArrives \/ RequestFails

PageSpec == PageInit /\ [][PageNext]_pageVars

\* Every request is answered or times out (the client's timeout), and the loop runs.
FairPageSpec == PageSpec /\ WF_pageVars(PageNext)

-----------------------------------------------------------------------------
\* A finished command holds every item the service has answered with, unless the
\* limit cut the last page: no page is dropped when the loop ends, whichever of its
\* conditions ended it.
NoItemIsDropped ==
    listing = "ok" => \/ taken = served
                      \/ limit > 0 /\ taken = limit /\ served > limit

\* No page and no cursor is requested twice, even from a service whose cursors form
\* a cycle: the merged body has no page twice (the seen set of fetchCursor).
NoPageTwice == requests = Cardinality(asked)

\* --limit cuts the merged items in the loops of fetchCursor and fetchPageUntilShort.
LimitCutsCursorAndUntilShort ==
    /\ listing = "ok"
    /\ style \in {"cursor", "page-until-short"}
    /\ limit > 0
    => taken <= limit

\* Whatever a service answers, and however long it goes on, every command ends, and
\* within the cap of maxPages requests.
EndsWithinTheCap == <>(listing # "run" /\ requests <= MaxPages)

\* From a service that pages properly every item that maxPages pages can hold reaches
\* the user, in every style: all of them, or at least as many as --limit asks for.
CompleteResult ==
    /\ listing = "ok"
    /\ style # "single"
    /\ service # AnyService
    /\ service.items <= service.size * MaxPages
    => taken >= IF limit > 0 /\ limit < service.items THEN limit ELSE service.items

=============================================================================
