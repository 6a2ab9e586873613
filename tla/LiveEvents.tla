----------------------------- MODULE LiveEvents -----------------------------
(***************************************************************************)
(* The durable live events of augurScan, from the transactions that write  *)
(* them to the pages that read them: the writers of several networks and   *)
(* the hourly pruning share the row lock of live_event_state (database.ts),*)
(* and the LiveBus of the server polls the table for the pages connected   *)
(* to it (live.ts), a few groups of equal cursors at a time.               *)
(*                                                                         *)
(* An event is its id.  The comments the stream carries besides, a         *)
(* greeting and the heartbeats, have no id and are left out.               *)
(***************************************************************************)
EXTENDS Integers, Sequences, SequencesExt, FiniteSets, FiniteSetsExt

CONSTANTS
    Writer, Page,
    limit,                 \* events one query returns
    highWaterMark,         \* chunks a stream buffers before it is not ready
    MAX_CURSOR_COHORTS_PER_POLL,
    maxClients,
    NoWriter,
    MaxId, MaxDrops        \* bounds: ids drawn; connections and queries lost

ASSUME LiveAssumption ==
    /\ {limit, highWaterMark, MAX_CURSOR_COHORTS_PER_POLL, maxClients} \subseteq Nat \ {0}
    /\ {MaxId, MaxDrops} \subseteq Nat
    /\ NoWriter \notin Writer

VARIABLES
    \* the database
    liveEvents,            \* ids of the committed rows
    prunedThrough,
    nextId,                \* the sequence: an id is drawn once, committed or not
    row,                   \* the writer that holds the row of live_event_state
    inserted,              \* [writer]: the id its open transaction inserted, or 0
    \* the server
    latestCursor,          \* -1: undefined
    latestCursorPromise,   \* what the query for it answers, or -1: none is under way
    cohortOffset,
    jobs,                  \* the cohorts whose events are asked for; a stray one is
                           \* left over from a poll that another cohort made fail
    \* the pages
    client,                \* [page]: its stream and what it got of it
    \* history
    published, drops

liveVars == <<liveEvents, prunedThrough, nextId, row, inserted, latestCursor,
              latestCursorPromise, cohortOffset, jobs, client, published, drops>>
database == <<liveEvents, prunedThrough, nextId, row, inserted, published>>
server == <<latestCursor, latestCursorPromise, cohortOffset, jobs>>

latestEventId == Max(liveEvents \cup {0})
Admitted == {c \in Page : client[c].stream # "closed"}
Open == {c \in Page : client[c].stream = "open"}
Event(id) == [id |-> id, reset |-> FALSE]

-----------------------------------------------------------------------------
(* Writers and pruning                                                     *)

\* As if the row were not locked.
MutMayInsert(w) == TRUE

\* Every transaction that inserts a live event asks for the row first, and
\* draws the id of the event while it holds it.
MayInsert(w) == row = NoWriter

lockLiveEventWriter(w) ==
    /\ inserted[w] = 0
    /\ nextId < MaxId
    /\ MayInsert(w)
    /\ row' = w
    /\ inserted' = [inserted EXCEPT ![w] = nextId + 1]
    /\ nextId' = nextId + 1
    /\ UNCHANGED <<liveEvents, prunedThrough, server, client, published, drops>>

Unlocked(w) == IF row = w THEN NoWriter ELSE row

commit(w) ==
    /\ inserted[w] # 0
    /\ liveEvents' = liveEvents \cup {inserted[w]}
    /\ published' = published \cup {inserted[w]}
    /\ inserted' = [inserted EXCEPT ![w] = 0]
    /\ row' = Unlocked(w)
    /\ UNCHANGED <<prunedThrough, nextId, server, client, drops>>

\* The session or the process dies with the transaction open.
rollback(w) ==
    /\ inserted[w] # 0
    /\ drops < MaxDrops /\ drops' = drops + 1
    /\ inserted' = [inserted EXCEPT ![w] = 0]
    /\ row' = Unlocked(w)
    /\ UNCHANGED <<liveEvents, prunedThrough, nextId, server, client, published>>

\* Any committed event may be the newest that is old enough; bound: one pruning
\* that finds something.
pruneLiveEvents ==
    /\ row = NoWriter
    /\ prunedThrough = 0
    /\ \E old \in liveEvents :
         /\ liveEvents' = {i \in liveEvents : i > old}
         /\ prunedThrough' = Max({prunedThrough, old})
    /\ UNCHANGED <<nextId, row, inserted, server, client, published, drops>>

InOrder(S) ==
    CHOOSE s \in [1..Cardinality(S) -> S] : \A i, j \in DOMAIN s : i < j => s[i] < s[j]

\* One page of the events after a cursor, or a reset when the cursor is older
\* than what is left.
eventsAfter(cursor) ==
    IF cursor < prunedThrough
    THEN <<[id |-> Max({prunedThrough, latestEventId}), reset |-> TRUE]>>
    ELSE LET after == InOrder({i \in liveEvents : i > cursor})
         IN  [i \in 1..Min({limit, Len(after)}) |-> Event(after[i])]

-----------------------------------------------------------------------------
(* The LiveBus                                                             *)

\* The newest cursor is always served, the others take turns.
Descending(cursors) == SetToSortSeq(cursors, >)
Remaining(cursors) == Tail(Descending(cursors))
Turn(remaining) ==
    {remaining[((cohortOffset + i) % Len(remaining)) + 1]
       : i \in 0..Min({MAX_CURSOR_COHORTS_PER_POLL - 1, Len(remaining)}) - 1}

\* As if the turns were forgotten.
MutSelected(cursors) == {Max(cursors)}

Selected(cursors) == {Max(cursors)} \cup Turn(Remaining(cursors))

startPoll ==
    LET ready == {c \in Open : Len(client[c].queue) < highWaterMark}
        cursors == {client[c].cursor : c \in ready}
        others == Len(Remaining(cursors))
    IN  /\ \A job \in jobs : job.stray
        /\ ready # {}
        /\ jobs' = jobs \cup
             {[cursor |-> k, clients |-> {c \in ready : client[c].cursor = k},
               answered |-> FALSE, events |-> <<>>, stray |-> FALSE] : k \in Selected(cursors)}
        /\ cohortOffset' = IF others = 0 THEN cohortOffset
                           ELSE (cohortOffset + MAX_CURSOR_COHORTS_PER_POLL - 1) % others
        /\ UNCHANGED <<database, latestCursor, latestCursorPromise, client, drops>>

query(job) ==
    /\ ~job.answered
    /\ jobs' = (jobs \ {job}) \cup
                 {[job EXCEPT !.answered = TRUE, !.events = eventsAfter(job.cursor)]}
    /\ UNCHANGED <<database, latestCursor, latestCursorPromise, cohortOffset, client, drops>>

\* A query fails.  It ends the poll, and the other cohorts of the poll go on
\* beside the next one.
queryFails(job) ==
    /\ ~job.answered
    /\ drops < MaxDrops /\ drops' = drops + 1
    /\ jobs' = {IF job.stray THEN j ELSE [j EXCEPT !.stray = TRUE] : j \in jobs \ {job}}
    /\ UNCHANGED <<database, latestCursor, latestCursorPromise, cohortOffset, client>>

\* Events newer than its cursor go into the stream of a client until it is full.
New(local, events) ==
    LET after == InOrder({i \in DOMAIN events : events[i].id > local.cursor})
    IN  [i \in DOMAIN after |-> events[after[i]]]
Room(local) == Max({highWaterMark - Len(local.queue), 0})

enqueueEvents(local, events) ==
    LET n == Min({Len(New(local, events)), Room(local)})
    IN  IF n = 0 THEN local
        ELSE [local EXCEPT !.queue = @ \o SubSeq(New(local, events), 1, n),
                           !.cursor = New(local, events)[n].id]

\* The ids the loop comes to, the one that finds the stream full included.
Met(local, events) ==
    LET beyond == SubSeq(New(local, events), Room(local) + 2, Len(New(local, events)))
    IN  {e.id : e \in ToSet(events) \ ToSet(beyond)}

deliver(job) ==
    /\ job.answered
    /\ client' = [c \in Page |-> IF c \in job.clients THEN enqueueEvents(client[c], job.events)
                                 ELSE client[c]]
    /\ latestCursor' = LET met == UNION {Met(client[c], job.events) : c \in job.clients}
                       IN  IF met = {} THEN latestCursor ELSE Max({latestCursor, 0} \cup met)
    /\ jobs' = jobs \ {job}
    /\ UNCHANGED <<database, latestCursorPromise, cohortOffset, drops>>

-----------------------------------------------------------------------------
(* Pages                                                                   *)

\* An EventSource connects with the last id it got, if it got any; otherwise it
\* starts a log at the newest event, which the server knows or has to ask for.
Opened(local, start) == [local EXCEPT !.stream = "open", !.cursor = start,
                                      !.through = start, !.restarted = start]

stream(c) ==
    /\ client[c].stream = "closed"
    /\ Cardinality(Admitted) < maxClients
    /\ \/ /\ client[c].lastEventId > 0
          /\ client' = [client EXCEPT ![c].stream = "open", ![c].cursor = client[c].lastEventId]
          /\ UNCHANGED latestCursorPromise
       \/ /\ client[c].lastEventId = 0 /\ latestCursor # -1
          /\ client' = [client EXCEPT ![c] = Opened(@, latestCursor)]
          /\ UNCHANGED latestCursorPromise
       \/ /\ client[c].lastEventId = 0 /\ latestCursor = -1
          /\ client' = [client EXCEPT ![c].stream = "opening"]
          /\ latestCursorPromise' = IF latestCursorPromise # -1 THEN latestCursorPromise
                                    ELSE latestEventId
    /\ UNCHANGED <<database, latestCursor, cohortOffset, jobs, drops>>

\* The answer opens every stream that waits for it.
initialCursor ==
    /\ latestCursorPromise # -1
    /\ latestCursor' = latestCursorPromise
    /\ latestCursorPromise' = -1
    /\ client' = [c \in Page |-> IF client[c].stream # "opening" THEN client[c]
                                 ELSE Opened(client[c], latestCursorPromise)]
    /\ UNCHANGED <<database, cohortOffset, jobs, drops>>

receive(c) ==
    /\ client[c].queue # <<>>
    /\ LET e == Head(client[c].queue)
       IN  client' = [client EXCEPT ![c].queue = Tail(@), ![c].through = e.id,
                                    ![c].lastEventId = e.id,
                                    ![c].restarted = IF e.reset THEN e.id ELSE @]
    /\ UNCHANGED <<database, server, drops>>

Closed(local) == [local EXCEPT !.stream = "closed", !.queue = <<>>]

\* The connection is lost with what it had buffered, and what is under way for
\* it finds the stream released.  A page that was left forgets its last id.
disconnect(c) ==
    /\ client[c].stream # "closed"
    /\ drops < MaxDrops /\ drops' = drops + 1
    /\ \E last \in {client[c].lastEventId, 0} :
         client' = [client EXCEPT ![c] = [Closed(@) EXCEPT !.lastEventId = last]]
    /\ jobs' = {[job EXCEPT !.clients = @ \ {c}] : job \in jobs}
    /\ UNCHANGED <<database, latestCursor, latestCursorPromise, cohortOffset>>

\* The server restarts: the streams end, and what it knew is gone.
restart ==
    /\ drops < MaxDrops /\ drops' = drops + 1
    /\ client' = [c \in Page |-> Closed(client[c])]
    /\ latestCursor' = -1 /\ latestCursorPromise' = -1
    /\ cohortOffset' = 0 /\ jobs' = {}
    /\ UNCHANGED database

-----------------------------------------------------------------------------
LiveInit ==
    /\ liveEvents = {} /\ prunedThrough = 0 /\ nextId = 0 /\ row = NoWriter
    /\ inserted = [w \in Writer |-> 0]
    /\ latestCursor = -1 /\ latestCursorPromise = -1 /\ cohortOffset = 0 /\ jobs = {}
    /\ client = [c \in Page |-> [stream |-> "closed", cursor |-> 0, queue |-> <<>>,
                                 through |-> 0, restarted |-> 0, lastEventId |-> 0]]
    /\ published = {} /\ drops = 0

Serve == startPoll \/ \E job \in jobs : query(job) \/ deliver(job)

LiveNext ==
    \/ \E w \in Writer : lockLiveEventWriter(w) \/ commit(w) \/ rollback(w)
    \/ pruneLiveEvents
    \/ Serve \/ initialCursor \/ \E job \in jobs : queryFails(job)
    \/ \E c \in Page : stream(c) \/ receive(c) \/ disconnect(c)
    \/ restart

\* The timer polls, a page reads its stream and an EventSource reconnects.
LiveSpec == LiveInit /\ [][LiveNext]_liveVars
FairLiveSpec ==
    /\ LiveSpec /\ WF_liveVars(Serve) /\ WF_liveVars(initialCursor)
    /\ \A c \in Page : WF_liveVars(receive(c)) /\ WF_liveVars(stream(c))

-----------------------------------------------------------------------------
(* Properties                                                              *)

Feed == INSTANCE LiveFeed WITH
    Id <- 1..MaxId,
    through <- [c \in Page |-> client[c].through],
    restarted <- [c \in Page |-> client[c].restarted]

\* README: durable notifications with Last-Event-ID replay, and a reset for a
\* cursor older than what is kept.  Events become visible in the order of
\* their ids, and a page gets each of them once and misses none without being
\* told to reload, whatever transactions, prunings, overlapping polls, lost
\* connections and restarts interleave.
ImplementsFeed == Feed!Spec

\* Once the writers rest, every page that is connected reaches the newest
\* event, however many groups of cursors compete for the polls.
EventuallyFed ==
    <>[](\A c \in Page : /\ client[c].stream = "open"
                         /\ client[c].through = Max(published \cup {0}))
=============================================================================
