------------------------------- MODULE Outbox -------------------------------
(***************************************************************************)
(* The analytics outbox: TopicsService writes the topics of a lesson (or   *)
(* an assignment) together with an AnalyticsOutbox row, OutboxProcessor    *)
(* replays the rows into Neo4j every five seconds.                         *)
(*                                                                         *)
(* The event types modelled are those whose application clears edges and   *)
(* then adds some: LESSON_TOPIC_SET and ASSIGNMENT_TOPIC_SET (the owner is *)
(* the lesson or the assignment); MASTERY_UPSERT is the case of at most    *)
(* one topic.  Each Cypher statement, and each statement of the editing    *)
(* transaction, is a step of its own: Postgres runs READ COMMITTED.        *)
(***************************************************************************)
EXTENDS Integers, FiniteSets

CONSTANTS
    Owners,      \* lessons and assignments
    Topics,
    Editors,     \* transactions of setLessonTopics that can be open together
    Ticks,       \* invocations of tick that can be alive together
    MaxAttempts, \* MAX_ATTEMPTS
    BatchSize,   \* take: 50
    MaxRows,     \* bound: outbox rows ever inserted
    MaxMishaps,  \* bound: restarts of the process and failed attempt updates
    None

ASSUME OutboxAssumption ==
    /\ MaxAttempts \in Nat \ {0}
    /\ BatchSize \in Nat \ {0}
    /\ MaxRows \in Nat
    /\ MaxMishaps \in Nat

Ids == 1 .. MaxRows     \* rows in the order of their createdAt

VARIABLES
    topics,   \* the Topic table
    links,    \* links[o]: the LessonTopic or AssignmentTopic rows of o
    outbox,   \* the AnalyticsOutbox table
    edit,     \* open transactions of setLessonTopics
    tick,     \* running invocations of tick
    busy,     \* OutboxProcessor.busy
    enabled,  \* Neo4jService.isEnabled(): NEO4J_URI was set at the start
    graph,    \* graph[o]: the COVERS or TESTS edges of o in Neo4j
    mishaps

VARIABLES     \* history, read by no action
    delivered,  \* rows whose statements were all executed at some time
    overlapped  \* owners two transactions were ever open for together

domain  == <<topics, links>>
worker  == <<tick, busy, graph>>
history == <<delivered, overlapped>>
vars    == <<domain, outbox, edit, worker, mishaps, enabled, history>>

\* UNCOMMITTED: inserted by a transaction that is still open, invisible.
RowStatus == {"UNCOMMITTED", "PENDING", "PROCESSED", "FAILED"}

Row ==
    [owner : Owners,
     topicIds : SUBSET Topics,
     status : RowStatus,
     attempts : 0 .. MaxAttempts]

Edit ==
    [owner : Owners,
     topicIds : SUBSET Topics,
     doomed : SUBSET Topics,    \* the links deleteMany saw
     row : Ids \cup {None}]

\* step: the statement to execute next; todo: the edges still to add.
Run ==
    [batch : SUBSET Ids,
     seen : [Ids -> 0 .. MaxAttempts],
     step : {"clear", "add", "count"},
     todo : SUBSET Topics]

ASSUME NoneAssumption == None \notin Row \cup Edit \cup Run \cup Ids

TypeOK ==
    /\ topics \subseteq Topics
    /\ links \in [Owners -> SUBSET Topics]
    /\ outbox \in [Ids -> Row \cup {None}]
    /\ edit \in [Editors -> Edit \cup {None}]
    /\ tick \in [Ticks -> Run \cup {None}]
    /\ busy \in BOOLEAN
    /\ graph \in [Owners -> SUBSET Topics]
    /\ enabled \in BOOLEAN
    /\ mishaps \in 0 .. MaxMishaps
    /\ delivered \subseteq Ids
    /\ overlapped \subseteq Owners

Init ==
    /\ topics = Topics
    /\ links = [o \in Owners |-> {}]
    /\ outbox = [i \in Ids |-> None]
    /\ edit = [e \in Editors |-> None]
    /\ tick = [t \in Ticks |-> None]
    /\ busy = FALSE
    /\ graph = [o \in Owners |-> {}]
    /\ enabled \in BOOLEAN
    /\ mishaps = 0
    /\ delivered = {}
    /\ overlapped = {}

-----------------------------------------------------------------------------
(***************************************************************************)
(* setLessonTopics, setAssignmentTopics.                                   *)
(***************************************************************************)

Editing(e) == edit[e] # None

\* validateTopics, then deleteMany: what others have not committed is not seen.
EditDelete(e, o, S) ==
    /\ ~Editing(e)
    /\ S \subseteq topics
    /\ edit' = [edit EXCEPT ![e] =
                   [owner |-> o, topicIds |-> S, doomed |-> links[o], row |-> None]]
    /\ overlapped' = IF \E f \in Editors : Editing(f) /\ edit[f].owner = o
                       THEN overlapped \cup {o}
                       ELSE overlapped
    /\ UNCHANGED <<domain, outbox, worker, mishaps, enabled, delivered>>

NextRow(i) ==
    /\ \A j \in Ids : j >= i => outbox[j] = None
    /\ i > 1 => outbox[i - 1] # None

\* OutboxService.enqueue, inside the transaction.
EditEnqueue(e, i) ==
    LET d == edit[e] IN
    /\ Editing(e)
    /\ d.row = None
    /\ NextRow(i)
    /\ outbox' = [outbox EXCEPT ![i] =
                     [owner |-> d.owner, topicIds |-> d.topicIds,
                      status |-> "UNCOMMITTED", attempts |-> 0]]
    /\ edit' = [edit EXCEPT ![e] =
                   [owner |-> d.owner, topicIds |-> d.topicIds,
                    doomed |-> d.doomed, row |-> i]]
    /\ UNCHANGED <<domain, worker, mishaps, enabled, history>>

SetStatus(i, status, attempts) ==
    outbox' = [outbox EXCEPT ![i] =
                  [owner |-> @.owner, topicIds |-> @.topicIds,
                   status |-> status, attempts |-> attempts]]

\* The primary key and the foreign key of the link table can still refuse.
EditCommit(e) ==
    LET d == edit[e]
        kept == links[d.owner] \ d.doomed
    IN  /\ Editing(e)
        /\ d.row # None
        /\ d.topicIds \subseteq topics
        /\ d.topicIds \cap kept = {}
        /\ links' = [links EXCEPT ![d.owner] = kept \cup d.topicIds]
        /\ SetStatus(d.row, "PENDING", 0)
        /\ edit' = [edit EXCEPT ![e] = None]
        /\ UNCHANGED <<topics, worker, mishaps, enabled, history>>

\* Refused by a key, or the request died: everything is rolled back.
EditRollback(e) ==
    /\ Editing(e)
    /\ outbox' = [i \in Ids |-> IF i = edit[e].row THEN None ELSE outbox[i]]
    /\ edit' = [edit EXCEPT ![e] = None]
    /\ UNCHANGED <<domain, worker, mishaps, enabled, history>>

\* TopicsService.remove: links cascade, no outbox row.
RemoveTopic(x) ==
    /\ x \in topics
    /\ topics' = topics \ {x}
    /\ links' = [o \in Owners |-> links[o] \ {x}]
    /\ UNCHANGED <<outbox, edit, worker, mishaps, enabled, history>>

-----------------------------------------------------------------------------
(***************************************************************************)
(* OutboxProcessor.                                                        *)
(***************************************************************************)

Running(t) == tick[t] # None

Pending == {i \in Ids : outbox[i] # None /\ outbox[i].status = "PENDING"}

\* Mutant: no orderBy.
IsAnyBatch(B) ==
    /\ B \subseteq Pending
    /\ \/ Cardinality(B) = BatchSize
       \/ B = Pending /\ Cardinality(B) < BatchSize

\* orderBy createdAt, take BatchSize
IsBatch(B) ==
    /\ B \subseteq Pending
    /\ \A i \in B, j \in Pending \ B : i < j
    /\ \/ Cardinality(B) = BatchSize
       \/ B = Pending /\ Cardinality(B) < BatchSize

\* The row a run is working on: the oldest left of its batch.
First(B)   == CHOOSE i \in B : \A j \in B : i <= j
Current(t) == First(tick[t].batch)

ReadBatch(t) ==
    \E B \in SUBSET Pending :
        /\ B # {}
        /\ IsBatch(B)
        /\ tick' = [tick EXCEPT ![t] =
                      [batch |-> B,
                       seen |-> [i \in Ids |-> IF i \in B THEN outbox[i].attempts ELSE 0],
                       step |-> "clear",
                       todo |-> {}]]

\* Mutant: the flag is not looked at.
TickAlthoughBusy(t) ==
    /\ enabled
    /\ ~Running(t)
    /\ ReadBatch(t)
    /\ busy' = TRUE
    /\ UNCHANGED <<domain, outbox, edit, graph, mishaps, enabled, history>>

Tick(t) ==
    /\ ~busy
    /\ enabled
    /\ ~Running(t)
    /\ ReadBatch(t)
    /\ busy' = TRUE
    /\ UNCHANGED <<domain, outbox, edit, graph, mishaps, enabled, history>>

At(t, step) == Running(t) /\ tick[t].step = step

Goto(t, step, todo) ==
    tick' = [tick EXCEPT ![t] =
                [batch |-> @.batch, seen |-> @.seen, step |-> step, todo |-> todo]]

\* Mutant: busy is reset on the way out of the try block only, not on a throw.
EndTickStaysBusy(t) ==
    /\ tick' = [tick EXCEPT ![t] = None]
    /\ busy' = (tick[t].step = "count")

\* finally { this.busy = false }
EndTick(t) ==
    /\ tick' = [tick EXCEPT ![t] = None]
    /\ busy' = FALSE

NextInBatch(t) ==
    LET rest == tick[t].batch \ {Current(t)} IN
    IF rest = {}
      THEN EndTick(t)
      ELSE /\ tick' = [tick EXCEPT ![t] =
                          [batch |-> rest, seen |-> @.seen, step |-> "clear", todo |-> {}]]
           /\ UNCHANGED busy

\* After this statement `left` edges of row i remain to be added.
Applied(i, left) ==
    delivered' = IF left = {} THEN delivered \cup {i} ELSE delivered

\* Mutant: edges are merged, never cleared.
ClearNothing(t) ==
    LET row == outbox[Current(t)] IN
    /\ At(t, "clear")
    /\ Goto(t, "add", row.topicIds)
    /\ Applied(Current(t), row.topicIds)
    /\ UNCHANGED <<domain, outbox, edit, busy, graph, mishaps, enabled, overlapped>>

Clear(t) ==
    LET row == outbox[Current(t)] IN
    /\ At(t, "clear")
    /\ graph' = [graph EXCEPT ![row.owner] = {}]
    /\ Goto(t, "add", row.topicIds)
    /\ Applied(Current(t), row.topicIds)
    /\ UNCHANGED <<domain, outbox, edit, busy, mishaps, enabled, overlapped>>

AddEdge(t, x) ==
    LET row  == outbox[Current(t)]
        left == tick[t].todo \ {x}
    IN  /\ At(t, "add")
        /\ x \in tick[t].todo
        /\ graph' = [graph EXCEPT ![row.owner] = @ \cup {x}]
        /\ Goto(t, "add", left)
        /\ Applied(Current(t), left)
        /\ UNCHANGED <<domain, outbox, edit, busy, mishaps, enabled, overlapped>>

\* Mutant: the statements of the loop are not awaited.
MarkTooEarly(t) ==
    /\ At(t, "add")
    /\ SetStatus(Current(t), "PROCESSED", outbox[Current(t)].attempts)
    /\ NextInBatch(t)
    /\ UNCHANGED <<domain, edit, graph, mishaps, enabled, history>>

MarkProcessed(t) ==
    /\ At(t, "add")
    /\ tick[t].todo = {}
    /\ SetStatus(Current(t), "PROCESSED", outbox[Current(t)].attempts)
    /\ NextInBatch(t)
    /\ UNCHANGED <<domain, edit, graph, mishaps, enabled, history>>

\* A Cypher statement, or the update to PROCESSED, throws into the catch.
StatementFails(t) ==
    /\ At(t, "clear") \/ At(t, "add")
    /\ Goto(t, "count", {})
    /\ UNCHANGED <<domain, outbox, edit, busy, graph, mishaps, enabled, history>>

CountAttempt(t) ==
    LET i == Current(t)
        attempts == tick[t].seen[i] + 1
    IN  /\ At(t, "count")
        /\ SetStatus(i, IF attempts >= MaxAttempts THEN "FAILED" ELSE "PENDING", attempts)
        /\ NextInBatch(t)
        /\ UNCHANGED <<domain, edit, graph, mishaps, enabled, history>>

\* The update in the catch throws: the rest of the batch is skipped.
CountFails(t) ==
    /\ At(t, "count")
    /\ mishaps < MaxMishaps
    /\ mishaps' = mishaps + 1
    /\ EndTick(t)
    /\ UNCHANGED <<domain, outbox, edit, graph, enabled, history>>

\* The process dies; what was in Neo4j stays.  busy is a field of the
\* process, and whether there is a driver is decided when it starts.
Restart ==
    /\ mishaps < MaxMishaps
    /\ mishaps' = mishaps + 1
    /\ enabled' \in BOOLEAN
    /\ tick' = [t \in Ticks |-> None]
    /\ busy' = FALSE
    /\ edit' = [e \in Editors |-> None]
    /\ outbox' = [i \in Ids |->
                    IF outbox[i] # None /\ outbox[i].status = "UNCOMMITTED"
                      THEN None ELSE outbox[i]]
    /\ UNCHANGED <<domain, graph, history>>

EditStep(e) ==
    \/ \E o \in Owners, S \in SUBSET Topics : EditDelete(e, o, S)
    \/ \E i \in Ids : EditEnqueue(e, i)
    \/ EditCommit(e)
    \/ EditRollback(e)

RunStep(t) ==
    \/ Clear(t)
    \/ \E x \in Topics : AddEdge(t, x)
    \/ MarkProcessed(t)
    \/ StatementFails(t)
    \/ CountAttempt(t)
    \/ CountFails(t)

Next ==
    \/ \E e \in Editors : EditStep(e)
    \/ \E x \in Topics : RemoveTopic(x)
    \/ \E t \in Ticks : Tick(t) \/ RunStep(t)
    \/ Restart

Spec == Init /\ [][Next]_vars

\* The cron fires again and again, and a statement that was sent is answered
\* or fails.  Nothing obliges an editor, or a failure, to happen.
Fairness ==
    /\ WF_vars(\E t \in Ticks : Tick(t))
    /\ \A t \in Ticks : WF_vars(RunStep(t))

FairSpec == Spec /\ Fairness

-----------------------------------------------------------------------------
(***************************************************************************)
(* Properties.                                                             *)
(***************************************************************************)

Visible(i) == outbox[i] # None /\ outbox[i].status # "UNCOMMITTED"

RowsOf(o) == {i \in Ids : Visible(i) /\ outbox[i].owner = o}

\* One tick at a time: the flag is up exactly while a run is alive, and the
\* rows left in its batch are the ones still pending, with the attempts it saw.
OneRunWithFreshBatch ==
    /\ busy <=> \E t \in Ticks : Running(t)
    /\ \A s, t \in Ticks : Running(s) /\ Running(t) => s = t
    /\ \A t \in Ticks : Running(t) =>
          /\ tick[t].batch # {}
          /\ \A i \in tick[t].batch :
                /\ i \in Pending
                /\ outbox[i].attempts = tick[t].seen[i]

\* A row is given up exactly when its attempts are used up.
FailedAfterMaxAttempts ==
    \A i \in Ids : Visible(i) =>
        (outbox[i].status = "FAILED" <=> outbox[i].attempts = MaxAttempts)

\* A row reaches the graph before every later row of the same owner, unless
\* an attempt at it failed or two edits of the owner overlapped.
NoOvertaking ==
    \A o \in Owners \ overlapped : \A i, j \in RowsOf(o) :
        i < j /\ outbox[j].status = "PROCESSED" =>
            outbox[i].status # "PENDING" \/ outbox[i].attempts > 0

\* Rows are settled in their order, and given up only when worn out.
SettledInOrder == NoOvertaking /\ FailedAfterMaxAttempts

Drained(o) ==
    /\ RowsOf(o) # {}
    /\ \A i \in RowsOf(o) : outbox[i].status = "PROCESSED"

LastRow(o) == CHOOSE i \in RowsOf(o) : \A j \in RowsOf(o) : j <= i

\* Once the rows of an owner are all processed, and none needed a second
\* attempt, the graph shows what the last one said and Postgres differs from
\* it by removed topics only; restarts and skipped batches do no harm.
DrainedGraphMatches ==
    \A o \in Owners \ overlapped :
        (Drained(o) /\ \A i \in RowsOf(o) : outbox[i].attempts = 0) =>
            /\ graph[o] = outbox[LastRow(o)].topicIds
            /\ links[o] = graph[o] \cap topics

\* A row that was acknowledged or given up is never touched again, and the
\* outbox loses no row.
ResolvedForGood ==
    [][\A i \in Ids : Visible(i) =>
          /\ outbox'[i] # None
          /\ outbox'[i].topicIds = outbox[i].topicIds
          /\ outbox[i].status \in {"PROCESSED", "FAILED"} => outbox'[i] = outbox[i]]_vars

EventOf(i) ==
    CASE ~Visible(i)                       -> "none"
      [] Visible(i) /\ outbox[i].status = "PROCESSED" -> "acknowledged"
      [] Visible(i) /\ outbox[i].status = "FAILED"    -> "abandoned"
      [] Visible(i) /\ outbox[i].status = "PENDING"   ->
            IF i \in delivered THEN "delivered" ELSE "accepted"

Promise == INSTANCE Delivery WITH event <- [i \in Ids |-> EventOf(i)]

\* Each row is applied in full at least once before it says PROCESSED.
ImplementsDelivery == Promise!Spec

\* Every committed row is settled, whatever Neo4j does, once Postgres and a
\* process started with NEO4J_URI stay up.
EventsSettle == <>[]enabled => Promise!Settles

-----------------------------------------------------------------------------
(***************************************************************************)
(* What the documentation says and the code does not keep.                 *)
(***************************************************************************)

\* docs/superpowers/specs/2026-07-30-analytics-design.md:175, "Outbox
\* `MASTERY_UPSERT` + Neo4j `STRUGGLING_WITH` when struggling (else remove
\* relationship)": the graph has the edge exactly when the latest row says so.
\* A row whose first attempt failed is retried after a newer row was applied.
RetriesDoNoHarm ==
    \A o \in Owners \ overlapped :
        Drained(o) => graph[o] = outbox[LastRow(o)].topicIds

=============================================================================
