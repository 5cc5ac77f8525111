------------------------------ MODULE ActivityFeed ------------------------------
(***************************************************************************)
(* GET /events/:eventId/activity and the page that walks it: events from   *)
(* the newest to the oldest, cut into pages by a cursor, while             *)
(* transactions go on that stamp an event some time before they commit it. *)
(* Times are compared as they are stored: the cursor keeps milliseconds,   *)
(* which is all of a time as long as no event is stored with more.         *)
(***************************************************************************)
EXTENDS Naturals, Sequences, FiniteSets

CONSTANTS
    Ids,      \* rows of DomainEvent of the event, as numbers: how their ids compare
    Listed,   \* those of the types the query asks for
    Limits,   \* page sizes
    MaxTime,  \* bound on the clock
    NoCursor  \* the page after the last one

ASSUME FeedAssumption ==
    /\ Ids \subseteq Nat /\ IsFiniteSet(Ids)
    /\ Listed \subseteq Ids
    /\ Limits \subseteq Nat \ {0}
    /\ MaxTime \in Nat
    /\ NoCursor \notin Ids

VARIABLES
    clock,  \* the time
    event,  \* DomainEvent: its occurredAt, and whether it is committed
    feed    \* the walk: where its cursor is, and the pages so far

feedVars == <<clock, event, feed>>

FeedStates ==
    [pc     : {"closed", "paging", "done"},
     limit  : Nat,
     cursor : Ids \cup {NoCursor},       \* the last event of the last page
     pages  : Seq(SUBSET Ids),
     begun  : SUBSET Ids]            \* history: committed when the walk began

FeedTypeOK ==
    /\ clock \in Nat
    /\ event \in [Ids -> [state : {"none", "stamped", "committed"}, occurredAt : Nat]]
    /\ feed \in FeedStates

FeedInit ==
    /\ clock = 0
    /\ event = [e \in Ids |-> [state |-> "none", occurredAt |-> 0]]
    /\ feed = [pc |-> "closed", limit |-> 0, cursor |-> NoCursor, pages |-> <<>>, begun |-> {}]

-------------------------------------------------------------------------------
\* emitDomainEvent: the default of occurredAt is taken with the insert.
Stamp(e) ==
    /\ event[e].state = "none"
    /\ event' = [event EXCEPT ![e] = [state |-> "stamped", occurredAt |-> clock]]
    /\ UNCHANGED <<clock, feed>>

Commit(e) ==
    /\ event[e].state = "stamped"
    /\ event' = [event EXCEPT ![e].state = "committed"]
    /\ UNCHANGED <<clock, feed>>

Tick ==
    /\ clock < MaxTime
    /\ clock' = clock + 1
    /\ UNCHANGED <<event, feed>>

Visible == {e \in Listed : event[e].state = "committed"}

\* orderBy: d comes after e in the feed, by its time, or at the same time by its id.
Follows(d, e) ==
    \/ event[d].occurredAt < event[e].occurredAt
    \/ event[d].occurredAt = event[e].occurredAt /\ d < e

\* The first n of the rows R.
Newest(R, n) == {d \in R : Cardinality({e \in R : Follows(d, e)}) < n}

BugTimeAlone(d, cursor) == cursor = NoCursor \/ event[d].occurredAt < event[cursor].occurredAt

\* The where of a query with a cursor.
Behind(d, cursor) ==
    \/ cursor = NoCursor
    \/ event[d].occurredAt < event[cursor].occurredAt
    \/ event[d].occurredAt = event[cursor].occurredAt /\ d < cursor

Last(R) == CHOOSE d \in R : \A e \in R \ {d} : Follows(d, e)

OpenFeed(n) ==
    /\ feed' = [pc |-> "paging", limit |-> n, cursor |-> NoCursor, pages |-> <<>>, begun |-> Visible]
    /\ UNCHANGED <<clock, event>>

\* fetchEventActivity takes one row more than the limit to see whether there is
\* another page; the page goes on with the cursor it is given, until it gets none.
FetchPage ==
    LET rows  == Newest({d \in Visible : Behind(d, feed.cursor)}, feed.limit + 1)
        slice == Newest(rows, feed.limit)
        more  == rows # slice  \* hasMore
    IN
    /\ feed.pc = "paging"
    /\ feed' = [feed EXCEPT !.pc     = IF more THEN "paging" ELSE "done",
                            !.cursor = IF more THEN Last(slice) ELSE NoCursor,
                            !.pages  = Append(@, slice)]
    /\ UNCHANGED <<clock, event>>
-------------------------------------------------------------------------------
FeedNext ==
    \/ \E e \in Ids : Stamp(e) \/ Commit(e)
    \/ Tick
    \/ \E n \in Limits : OpenFeed(n)
    \/ FetchPage

-------------------------------------------------------------------------------
(* Properties                                                               *)

Shown == UNION {feed.pages[n] : n \in DOMAIN feed.pages}

\* A walk through the feed shows no event twice and newer events on earlier pages,
\* and when it ends it has shown every event that was committed when it began,
\* whatever commits between its pages, times repeat or come late
\* (service.ts:54-104, EventActivityPage.tsx:32-44).
PagesAreExact ==
    /\ \A m, n \in DOMAIN feed.pages : m < n =>
        \A e \in feed.pages[m], d \in feed.pages[n] : d # e /\ event[d].occurredAt <= event[e].occurredAt
    /\ feed.pc = "done" => feed.begun \subseteq Shown
===============================================================================
