-------------------------------- MODULE Oracle --------------------------------
(***************************************************************************)
(* An oracle that answers queries (handleQueries over pollQueries,         *)
(* src/src/oracle/Oracle.ts) and the clients that wait for its answers     *)
(* (OracleClient.ts), over a chain on which queries expire.                *)
(***************************************************************************)
EXTENDS Integers, Sequences, FiniteSets

CONSTANTS
    Queries, NoSession,
    Sessions,       \* at most so many calls of handleQueries, numbered
    QueryTtl,       \* blocks a query lives unanswered
    CacheLag,       \* blocks a cached height may lag behind
    MaxHeight, MaxFails     \* bounds
ASSUME OracleAssumption ==
    /\ {Sessions, QueryTtl, CacheLag, MaxHeight, MaxFails} \subseteq Nat /\ MaxHeight > 0
    /\ NoSession \notin 1..Sessions
    /\ \A pairs \in SUBSET ((1..Sessions) \X Queries) : NoSession # pairs

VARIABLES
    height, expiry,     \* 0: the query was not posted
    answer,             \* session whose response is on chain
    client,             \* stage of query(q)
    begun,              \* sessions begun
    phase, ticking,     \* of a session; its interval
    checking, reading,  \* isChecking; whether getQueries is under way
    known,              \* knownQueryIds
    task,               \* handler(q)
    line,               \* responses queued at queuePromise
    handling,           \* #handleQueriesPromise: what it waits for
    awaits,             \* what a stop waits for
    fails,
    owed                \* history: handlers that ran when the session was stopped

chain == <<height, expiry, answer>>
polling == <<ticking, checking, reading, known>>
answering == <<task, line, handling>>
ovars == <<chain, client, begun, phase, polling, answering, awaits, fails, owed>>

Session == 1..Sessions
Open(q) == expiry[q] > 0 /\ answer[q] = NoSession /\ height <= expiry[q]
-----------------------------------------------------------------------------
(* The chain and the clients *)

KeyBlock ==
    /\ height < MaxHeight /\ height' = height + 1
    /\ UNCHANGED <<expiry, answer, client, begun, phase, polling, answering, awaits, fails, owed>>

Posts(q) ==
    /\ client[q] = "idle"
    /\ expiry' = [expiry EXCEPT ![q] = height + QueryTtl]
    /\ client' = [client EXCEPT ![q] = "reading"]
    /\ UNCHANGED <<height, answer, begun, phase, polling, answering, awaits, fails, owed>>

\* getQuery: the node forgets an expired query.
Reads(q) ==
    /\ client[q] = "reading"
    /\ client' = [client EXCEPT ![q] = IF answer[q] # NoSession THEN "answered"
                                       ELSE IF Open(q) THEN "pausing" ELSE "gone"]
    /\ UNCHANGED <<chain, begun, phase, polling, answering, awaits, fails, owed>>

\* mutant: the last block of the query's life is not waited for.
Turns_Early(q, h) ==
    /\ client[q] = "pausing" /\ h \in height - CacheLag .. height
    /\ client' = [client EXCEPT ![q] = IF expiry[q] > h THEN "reading" ELSE "timeout"]
    /\ UNCHANGED <<chain, begun, phase, polling, answering, awaits, fails, owed>>

\* The condition of the loop of pollForResponse, with a height that may be cached.
Turns(q, h) ==
    /\ client[q] = "pausing" /\ h \in height - CacheLag .. height
    /\ client' = [client EXCEPT ![q] = IF expiry[q] >= h THEN "reading" ELSE "timeout"]
    /\ UNCHANGED <<chain, begun, phase, polling, answering, awaits, fails, owed>>

-----------------------------------------------------------------------------
(* pollQueries *)

Checks(s) == checking' = [checking EXCEPT ![s] = TRUE] /\ reading' = [reading EXCEPT ![s] = TRUE]

\* handleQueries throws while #handleQueriesPromise is set; the first check
\* is at once.
HandleQueries(s) ==
    /\ s = begun + 1 /\ s \in Session /\ handling = NoSession
    /\ begun' = s /\ handling' = {}
    /\ phase' = [phase EXCEPT ![s] = "running"]
    /\ ticking' = [ticking EXCEPT ![s] = TRUE]
    /\ Checks(s)
    /\ UNCHANGED <<chain, client, known, task, line, awaits, fails, owed>>

Tick(s) ==
    /\ ticking[s] /\ ~checking[s] /\ Checks(s)
    /\ UNCHANGED <<chain, client, begun, phase, ticking, known, answering, awaits, fails, owed>>

Found(s) == {q \in Queries : Open(q)} \ known[s]
Begins(s, to) == task' = [task EXCEPT ![s] = [q \in Queries |-> IF q \in Found(s) THEN to ELSE @[q]]]

\* mutant: isChecking is not reset.
QueriesRead_NoReset(s) ==
    /\ reading[s] /\ reading' = [reading EXCEPT ![s] = FALSE]
    /\ known' = [known EXCEPT ![s] = @ \cup Found(s)]
    /\ Begins(s, "thinking")
    /\ handling' = IF handling = NoSession THEN NoSession ELSE handling \cup ({s} \X Found(s))
    /\ UNCHANGED <<checking, chain, client, begun, phase, ticking, line, awaits, fails, owed>>

\* mutant: #handleQueriesPromise becomes the last handler, the others forgotten.
QueriesRead_Last(s) ==
    /\ reading[s] /\ reading' = [reading EXCEPT ![s] = FALSE]
    /\ checking' = [checking EXCEPT ![s] = FALSE]
    /\ known' = [known EXCEPT ![s] = @ \cup Found(s)]
    /\ Begins(s, "thinking")
    /\ handling' = IF handling = NoSession \/ Found(s) = {} THEN handling ELSE {s} \X Found(s)
    /\ UNCHANGED <<chain, client, begun, phase, ticking, line, awaits, fails, owed>>

\* mutant: the queries of a check are not remembered.
QueriesRead_Forget(s) ==
    /\ reading[s] /\ reading' = [reading EXCEPT ![s] = FALSE]
    /\ checking' = [checking EXCEPT ![s] = FALSE]
    /\ Begins(s, "thinking")
    /\ handling' = IF handling = NoSession THEN NoSession ELSE handling \cup ({s} \X Found(s))
    /\ UNCHANGED <<known, chain, client, begun, phase, ticking, line, awaits, fails, owed>>

\* Every query that is new gets its handler, also after the session was
\* stopped: then UnexpectedTsError is thrown when the handler already runs.
QueriesRead(s) ==
    /\ reading[s] /\ reading' = [reading EXCEPT ![s] = FALSE]
    /\ checking' = [checking EXCEPT ![s] = FALSE]
    /\ known' = [known EXCEPT ![s] = @ \cup Found(s)]
    /\ Begins(s, "thinking")
    /\ handling' = IF handling = NoSession THEN NoSession ELSE handling \cup ({s} \X Found(s))
    /\ UNCHANGED <<chain, client, begun, phase, ticking, line, awaits, fails, owed>>

\* getQueries throws: isChecking stays.
ReadFails(s) ==
    /\ reading[s] /\ reading' = [reading EXCEPT ![s] = FALSE]
    /\ fails < MaxFails /\ fails' = fails + 1
    /\ UNCHANGED <<chain, client, begun, phase, ticking, checking, known, answering, awaits, owed>>

-----------------------------------------------------------------------------
(* handler *)

Moves(s, q, to) == task' = [task EXCEPT ![s][q] = to]

\* getResponse throws, or resolves and the response is queued.
Thought(s, q) ==
    /\ task[s][q] = "thinking"
    /\ \/ Moves(s, q, "done") /\ UNCHANGED line
       \/ Moves(s, q, "queued") /\ line' = [line EXCEPT ![s] = Append(@, q)]
    /\ UNCHANGED <<chain, client, begun, phase, polling, handling, awaits, fails, owed>>

Responds(s) ==
    /\ line[s] # <<>> /\ task[s][Head(line[s])] = "queued"
    /\ Moves(s, Head(line[s]), "responding")
    /\ UNCHANGED <<chain, client, begun, phase, polling, line, handling, awaits, fails, owed>>

\* mutant: a response that fails is never passed in the queue.
Responded_Stuck(s) ==
    /\ line[s] # <<>> /\ task[s][Head(line[s])] = "responding"
    /\ LET q == Head(line[s]) IN
       /\ Open(q) /\ answer' = [answer EXCEPT ![q] = s]
       /\ Moves(s, q, "done")
    /\ line' = [line EXCEPT ![s] = Tail(@)]
    /\ UNCHANGED <<height, expiry, client, begun, phase, polling, handling, awaits, fails, owed>>

\* respondToQuery resolves, or is rejected; the queue goes on either way.
Responded(s) ==
    /\ line[s] # <<>> /\ task[s][Head(line[s])] = "responding"
    /\ LET q == Head(line[s]) IN
       /\ \/ Open(q) /\ answer' = [answer EXCEPT ![q] = s]
          \/ UNCHANGED answer
       /\ Moves(s, q, "done")
    /\ line' = [line EXCEPT ![s] = Tail(@)]
    /\ UNCHANGED <<height, expiry, client, begun, phase, polling, handling, awaits, fails, owed>>

-----------------------------------------------------------------------------
(* The callback that stops *)

\* The interval is cleared; the handlers begun are waited for.
Stop(s) ==
    /\ phase[s] = "running"
    /\ phase' = [phase EXCEPT ![s] = "stopping"]
    /\ ticking' = [ticking EXCEPT ![s] = FALSE]
    /\ awaits' = [awaits EXCEPT ![s] = handling]
    /\ owed' = [owed EXCEPT ![s] = {q \in Queries : task[s][q] # "none"}]
    /\ UNCHANGED <<chain, client, begun, checking, reading, known, answering, fails>>

Stopped(s) ==
    /\ phase[s] = "stopping"
    /\ \A w \in awaits[s] : task[w[1]][w[2]] = "done"
    /\ phase' = [phase EXCEPT ![s] = "stopped"]
    /\ handling' = NoSession
    /\ UNCHANGED <<chain, client, begun, polling, task, line, awaits, fails, owed>>

-----------------------------------------------------------------------------
OInit ==
    /\ height = 1 /\ expiry = [q \in Queries |-> 0] /\ answer = [q \in Queries |-> NoSession]
    /\ client = [q \in Queries |-> "idle"]
    /\ begun = 0 /\ phase = [s \in Session |-> "none"]
    /\ ticking = [s \in Session |-> FALSE] /\ checking = ticking /\ reading = ticking
    /\ known = [s \in Session |-> {}] /\ owed = known /\ awaits = known
    /\ task = [s \in Session |-> [q \in Queries |-> "none"]]
    /\ line = [s \in Session |-> <<>>]
    /\ handling = NoSession /\ fails = 0

ClientTurns(q) == Reads(q) \/ \E h \in 0..MaxHeight : Turns(q, h)
Works(s) == Responds(s) \/ Responded(s) \/ Stopped(s)

ONext ==
    \/ KeyBlock
    \/ \E q \in Queries : Posts(q) \/ ClientTurns(q)
    \/ \E s \in Session : \/ HandleQueries(s) \/ Tick(s) \/ QueriesRead(s) \/ ReadFails(s)
                          \/ Stop(s) \/ Works(s)
                          \/ \E q \in Queries : Thought(s, q)

OSpec == OInit /\ [][ONext]_ovars

\* Requests are answered, callbacks return, intervals tick, blocks come.
OFairness ==
    /\ WF_ovars(KeyBlock /\ \E q \in Queries : client[q] # "idle")
    /\ \A q \in Queries : WF_ovars(Reads(q)) /\ SF_ovars(Turns(q, height))
    /\ \A s \in Session : /\ WF_ovars(Tick(s)) /\ WF_ovars(QueriesRead(s)) /\ WF_ovars(Works(s))
                          /\ \A q \in Queries : WF_ovars(Thought(s, q))
OFairSpec == OSpec /\ OFairness

-----------------------------------------------------------------------------
(* Properties.  As the calls are bounded, in the end none is under way. *)

\* Every variable has its type, and no response is queued twice: knownQueryIds
\* outlives the checks.
OracleTypeOK ==
    /\ height \in 1..MaxHeight /\ begun \in 0..Sessions /\ fails \in 0..MaxFails
    /\ expiry \in [Queries -> 0..MaxHeight + QueryTtl]
    /\ answer \in [Queries -> Session \cup {NoSession}]
    /\ client \in [Queries -> {"idle", "reading", "pausing", "answered", "gone", "timeout"}]
    /\ phase \in [Session -> {"none", "running", "stopping", "stopped"}]
    /\ {ticking, checking, reading} \subseteq [Session -> BOOLEAN]
    /\ {known, owed} \subseteq [Session -> SUBSET Queries]
    /\ task \in [Session -> [Queries -> {"none", "thinking", "queued", "responding", "done"}]]
    /\ \A s \in Session : /\ line[s] \in Seq(Queries)
                           /\ \A i, j \in DOMAIN line[s] : line[s][i] = line[s][j] => i = j
    /\ handling = NoSession \/ handling \subseteq Session \X Queries

\* stop resolves only when every handler that ran when it was called has
\* settled, however many were begun and in whatever order they end.
StopWaitsForHandlers == \A s \in Session, q \in Queries :
    phase[s] = "stopped" /\ q \in owed[s] => task[s][q] = "done"

\* pollForResponse gives up only when the query can no longer be answered,
\* with a height that may be cached (OracleClient.ts:89).
ClientIsPatient ==
    \A q \in Queries : client[q] = "timeout" => height > expiry[q]

\* What the oracle's sessions keep fits the queries: none is handled twice, none
\* is let down by a stop, and no client gives up while it may be answered.
OracleInOrder == OracleTypeOK /\ StopWaitsForHandlers /\ ClientIsPatient

\* A query that stays open is handled by a session that runs, unless a read
\* of the queries failed: then isChecking is never reset (Oracle.ts:108).
QueriesHandled == <>[](\A s \in Session, q \in Queries :
    phase[s] = "running" /\ Open(q) => task[s][q] = "done" \/ fails > 0)

\* A stop resolves: every handler it waits for settles, queued responses get
\* their turn whatever becomes of those before them.
StopResolves == <>[](\A s \in Session : phase[s] # "stopping")
=============================================================================
