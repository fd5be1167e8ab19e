--------------------------- MODULE MiddlewarePages ---------------------------
(***************************************************************************)
(* Pages of a listing of the middleware (src/src/utils/MiddlewarePage.ts): *)
(* each has the paths of its neighbours, which requestByPath of            *)
(* src/src/Middleware.ts turns into a request again. The middleware is     *)
(* modelled by what it answers; new items come to the head of its listing. *)
(***************************************************************************)
EXTENDS Integers, Sequences, FiniteSets

CONSTANTS
    NoPath,             \* null
    Missed, NoSpec,     \* MiddlewarePageMissed, IllegalArgumentError
    Listings,           \* what is listed: segments of paths
    operationSpecs,     \* paths of operations: sequences of segments, "{param}" among them
    PageSize, MaxItems  \* bounds

VARIABLES
    listing, newest,    \* the listing read, and its newest item
    page,               \* the last page read: [data, nextPath, prevPath], or an error
    walk                \* the way that was walked: [first, seen: items in their order, back]
pgvars == <<listing, newest, page, walk>>

\* A path is [segments, cursor: of its query, or NoPath]; a cursor is the first item of a page.
PagePath(cursor) == [segments |-> listing, cursor |-> cursor]
\* A parameter may be of letters, digits, underscores and dots, so no name with a dash.
IsParam(segment) == segment \in {"names", "accounts", "ak_1", "name.chain"}
Matches(spec, segments) ==
    /\ Len(spec) = Len(segments)
    /\ \A i \in DOMAIN spec : spec[i] = segments[i] \/ (spec[i] = "{param}" /\ IsParam(segments[i]))

\* Links are of a listing; none of the special values is a link, a page or an item. A listing is
\* the path of an operation with its parameters filled in, of which some are no IsParam.
Links == [segments : Listings, cursor : Nat \cup {NoPath}]
Pages == [data : Seq(Nat), nextPath : Links \cup {NoPath}, prevPath : Links \cup {NoPath}]
Parameters == {"names", "accounts", "ak_1", "name.chain", "my-name.chain"}
ASSUME PagesAssumption ==
    /\ PageSize \in Nat \ {0} /\ MaxItems \in Nat
    /\ NoPath # Missed /\ NoPath # NoSpec /\ Missed # NoSpec
    /\ \A e \in {NoPath, Missed, NoSpec} : e \notin Nat /\ e \notin Links /\ e \notin Pages
    /\ Listings \cup operationSpecs \subseteq Seq(STRING)
    /\ \A l \in Listings : \E s \in operationSpecs :
        /\ Len(s) = Len(l)
        /\ \A i \in DOMAIN s : s[i] = l[i] \/ (s[i] = "{param}" /\ l[i] \in Parameters)

\* The middleware: items are numbered, the newest first, and a cursor stays where it is.
ServePage(path) ==
    LET top == IF path.cursor = NoPath \/ path.cursor > newest THEN newest ELSE path.cursor
        low == IF top - PageSize + 1 < 1 THEN 1 ELSE top - PageSize + 1 IN
    [data |-> [i \in 1 .. top - low + 1 |-> top - i + 1],
     next |-> IF low = 1 THEN NoPath ELSE PagePath(low - 1),
     prev |-> IF top = newest THEN NoPath ELSE PagePath(top + PageSize)]

\* A response with its data, next and prev becomes a page.
sendOperationRequest(path) ==
    LET raw == ServePage(path) IN [data |-> raw.data, nextPath |-> raw.next, prevPath |-> raw.prev]
\* mutant: the query is looked for in the path that is without it.
requestByPath_NoQuery(path) ==
    IF \E s \in operationSpecs : Matches(s, path.segments)
    THEN sendOperationRequest([path EXCEPT !.cursor = NoPath]) ELSE NoSpec
\* Its segments find the operation; they and the query are sent as they are.
requestByPath(path) ==
    IF \E s \in operationSpecs : Matches(s, path.segments) THEN sendOperationRequest(path) ELSE NoSpec

NoWalk == [first |-> 0, seen |-> <<>>, back |-> FALSE]
PgInit == /\ listing \in Listings /\ newest \in 1 .. MaxItems
          /\ page = NoPath /\ walk = NoWalk
IsPage == page \notin {NoPath, Missed, NoSpec}
First == /\ page = NoPath /\ page' = sendOperationRequest(PagePath(NoPath))
         /\ walk' = [first |-> newest, seen |-> page'.data, back |-> FALSE]
         /\ UNCHANGED <<listing, newest>>
Visit(path) == page' = IF path = NoPath THEN Missed ELSE requestByPath(path)
NextPage == /\ IsPage /\ ~walk.back /\ Visit(page.nextPath)
            /\ walk' = IF page' \in {Missed, NoSpec} THEN walk ELSE [walk EXCEPT !.seen = @ \o page'.data]
            /\ UNCHANGED <<listing, newest>>
PrevPage == /\ IsPage /\ Visit(page.prevPath)
            /\ walk' = [walk EXCEPT !.back = TRUE] /\ UNCHANGED <<listing, newest>>
NewItem == newest < MaxItems /\ newest' = newest + 1 /\ UNCHANGED <<listing, page, walk>>
PgNext == First \/ NextPage \/ PrevPage \/ NewItem
PgSpec == PgInit /\ [][PgNext]_pgvars
-----------------------------------------------------------------------------
(* Properties *)

\* Page after page of a listing whose path has only words, one sees all the items there were
\* and each once, though new ones came meanwhile; going back, one meets only those
\* and newer ones.
WalkIsWhole ==
    /\ \A i \in DOMAIN walk.seen : walk.seen[i] = walk.first - i + 1
    /\ (page = Missed /\ ~walk.back) => Len(walk.seen) = walk.first
    /\ (\A i \in DOMAIN listing : listing[i] # "my-name.chain") => page # NoSpec
    /\ (IsPage /\ walk.back) =>
            {page.data[i] : i \in DOMAIN page.data}
                \subseteq {walk.seen[i] : i \in DOMAIN walk.seen} \cup walk.first + 1 .. newest
=============================================================================
