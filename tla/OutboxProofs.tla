---------------------------- MODULE OutboxProofs ----------------------------
(***************************************************************************)
(* Theorems of module Outbox, for any owners and topics, any batch size,   *)
(* any number of rows, attempts, transactions and invocations of the tick. *)
(*                                                                         *)
(* The inductive invariant keeps the two sides of the outbox apart: the    *)
(* row of an open transaction is uncommitted and its own (EditsSound), the *)
(* rows left in a batch are pending with the attempts the run has seen     *)
(* (OneRunWithFreshBatch), and a row with no edge left to add has been     *)
(* applied in full (DeliveredSound).                                       *)
(***************************************************************************)
EXTENDS Outbox, WellFoundedInduction, TLAPS

OutboxTable == [Ids -> Row \cup {None}]

\* e has inserted row i.
Owns(e, i) == Editing(e) /\ edit[e].row = i

EditsSound ==
    \A e \in Editors : \A i \in Ids : Owns(e, i) =>
        /\ outbox[i] # None
        /\ outbox[i].status = "UNCOMMITTED"
        /\ \A f \in Editors : Owns(f, i) => e = f

DeliveredSound ==
    /\ \A i \in delivered : Visible(i)
    /\ \A t \in Ticks : At(t, "add") /\ tick[t].todo = {} => Current(t) \in delivered

IndInv ==
    /\ TypeOK
    /\ EditsSound
    /\ FailedAfterMaxAttempts
    /\ OneRunWithFreshBatch
    /\ DeliveredSound

LEMMA InitIndInv == Init => IndInv
<1> SUFFICES ASSUME Init PROVE IndInv
  OBVIOUS
<1>1. mishaps \in 0 .. MaxMishaps
  BY OutboxAssumption DEF Init
<1>2. TypeOK
  BY <1>1 DEF Init, TypeOK
<1>3. EditsSound /\ FailedAfterMaxAttempts /\ OneRunWithFreshBatch /\ DeliveredSound
  BY DEF Init, EditsSound, Owns, Editing, FailedAfterMaxAttempts, OneRunWithFreshBatch, Running,
         DeliveredSound, At, Visible
<1> QED BY <1>2, <1>3 DEF IndInv

-----------------------------------------------------------------------------
(***************************************************************************)
(* The row a run works on.                                                 *)
(***************************************************************************)

LEMMA OldestExists ==
    ASSUME NEW B, B \subseteq Nat, B # {}
    PROVE  \E i \in B : \A j \in B : i <= j
<1>1. \E i \in B : \A j \in B : ~(j < i)
  <2>1. \E i \in B : \A j \in B : <<j, i>> \notin OpToRel(<, Nat)
    BY NatLessThanWellFounded, WFMin, Zenon
  <2> QED BY <2>1, Zenon DEF OpToRel
<1> QED BY <1>1

LEMMA FirstInBatch ==
    ASSUME NEW B, B \subseteq Ids, B # {}
    PROVE  First(B) \in B
<1>1. B \subseteq Nat
  BY OutboxAssumption DEF Ids
<1>2. \E i \in B : \A j \in B : i <= j
  BY <1>1, OldestExists
<1> QED BY <1>2 DEF First

LEMMA CurrentRow ==
    ASSUME IndInv, NEW t \in Ticks, Running(t)
    PROVE  /\ tick[t] \in Run
           /\ tick[t].batch \subseteq Pending
           /\ Current(t) \in tick[t].batch
           /\ Current(t) \in Ids
           /\ outbox[Current(t)] \in Row
           /\ outbox[Current(t)].status = "PENDING"
           /\ Visible(Current(t))
           /\ outbox[Current(t)].attempts = tick[t].seen[Current(t)]
           /\ tick[t].seen[Current(t)] \in 0 .. (MaxAttempts - 1)
<1>1. tick[t] \in Run
  BY DEF IndInv, TypeOK, Running
<1>2. /\ tick[t].batch # {} /\ tick[t].batch \subseteq Pending
      /\ \A i \in tick[t].batch : outbox[i].attempts = tick[t].seen[i]
  BY DEF IndInv, OneRunWithFreshBatch
<1>3. tick[t].batch \subseteq Ids
  BY <1>1 DEF Run
<1>4. Current(t) \in tick[t].batch
  BY <1>2, <1>3, FirstInBatch DEF Current
<1> DEFINE i == Current(t)
<1>5. i \in Ids /\ outbox[i] # None /\ outbox[i].status = "PENDING"
  BY <1>2, <1>4 DEF Pending
<1> HIDE DEF i
<1>6. outbox[i] \in Row
  BY <1>5 DEF IndInv, TypeOK
<1>7. Visible(i)
  BY <1>5 DEF Visible
<1>8. outbox[i].attempts # MaxAttempts
  BY <1>5, <1>7 DEF IndInv, FailedAfterMaxAttempts
<1>9. outbox[i].attempts \in 0 .. (MaxAttempts - 1)
  BY <1>6, <1>8, OutboxAssumption DEF Row
<1> QED BY <1>1, <1>2, <1>4, <1>5, <1>6, <1>7, <1>9 DEF i

-----------------------------------------------------------------------------
(***************************************************************************)
(* Transactions: whatever they do to rows nobody sees, they leave the      *)
(* visible ones alone and add fresh ones.                                  *)
(***************************************************************************)

LEMMA VisibleKept ==
    ASSUME IndInv, UNCHANGED <<worker, delivered>>,
           outbox' \in OutboxTable,
           \A i \in Ids : Visible(i) => outbox'[i] = outbox[i],
           \A i \in Ids : Visible(i)' /\ ~Visible(i) =>
               outbox'[i].status = "PENDING" /\ outbox'[i].attempts = 0
    PROVE  FailedAfterMaxAttempts' /\ OneRunWithFreshBatch' /\ DeliveredSound'
<1>1. FailedAfterMaxAttempts'
  <2> SUFFICES ASSUME NEW i \in Ids, Visible(i)'
               PROVE  outbox'[i].status = "FAILED" <=> outbox'[i].attempts = MaxAttempts
    BY DEF FailedAfterMaxAttempts
  <2>1. CASE Visible(i)
    BY <2>1 DEF IndInv, FailedAfterMaxAttempts
  <2>2. CASE ~Visible(i)
    BY <2>2, OutboxAssumption
  <2> QED BY <2>1, <2>2
<1>2. \A i \in Pending : Visible(i) /\ i \in Ids
  BY DEF Pending, Visible
<1>3. \A i \in Pending : outbox'[i] = outbox[i] /\ i \in Pending'
  BY <1>2 DEF Pending
<1>4. OneRunWithFreshBatch'
  BY <1>3 DEF IndInv, OneRunWithFreshBatch, Running, worker
<1>5. \A i \in delivered' : Visible(i)'
  BY DEF IndInv, TypeOK, DeliveredSound, Visible
<1>6. \A t \in Ticks : At(t, "add")' /\ tick'[t].todo = {} => Current(t)' \in delivered'
  BY DEF IndInv, DeliveredSound, At, Running, Current, worker
<1> QED BY <1>1, <1>4, <1>5, <1>6 DEF DeliveredSound

LEMMA EditDeleteStep ==
    ASSUME IndInv, NEW e \in Editors, NEW o \in Owners, NEW S \in SUBSET Topics,
           EditDelete(e, o, S)
    PROVE  IndInv'
<1> DEFINE d == [owner |-> o, topicIds |-> S, doomed |-> links[o], row |-> None]
<1>1. /\ edit' = [edit EXCEPT ![e] = d]
      /\ UNCHANGED <<domain, outbox, worker, mishaps, enabled, delivered>>
      /\ overlapped' \in SUBSET Owners
  BY DEF EditDelete, IndInv, TypeOK
<1>2. d \in Edit
  BY DEF IndInv, TypeOK, Edit
<1>3. d.row \notin Ids
  BY NoneAssumption
<1> HIDE DEF d
<1>4. TypeOK'
  BY <1>1, <1>2 DEF IndInv, TypeOK, domain, worker
<1>5. \A f \in Editors : \A i \in Ids : Owns(f, i)' => Owns(f, i)
  BY <1>1, <1>3 DEF IndInv, TypeOK, Owns, Editing
<1>6. EditsSound'
  BY <1>1, <1>5 DEF IndInv, EditsSound
<1>7. FailedAfterMaxAttempts' /\ OneRunWithFreshBatch' /\ DeliveredSound'
  <2>1. outbox' \in OutboxTable
    BY <1>1 DEF IndInv, TypeOK, OutboxTable
  <2>2. \A i \in Ids : Visible(i)' <=> Visible(i)
    BY <1>1 DEF Visible
  <2> QED BY <1>1, <2>1, <2>2, VisibleKept
<1> QED BY <1>4, <1>6, <1>7 DEF IndInv

LEMMA EditEnqueueStep ==
    ASSUME IndInv, NEW e \in Editors, NEW i \in Ids, EditEnqueue(e, i)
    PROVE  IndInv'
<1> DEFINE d == [owner |-> edit[e].owner, topicIds |-> edit[e].topicIds,
                 doomed |-> edit[e].doomed, row |-> i]
           row == [owner |-> edit[e].owner, topicIds |-> edit[e].topicIds,
                   status |-> "UNCOMMITTED", attempts |-> 0]
<1>1. /\ Editing(e) /\ edit[e] \in Edit
      /\ outbox' = [outbox EXCEPT ![i] = row]
      /\ edit' = [edit EXCEPT ![e] = d]
      /\ UNCHANGED <<domain, worker, mishaps, enabled, history>>
  BY DEF EditEnqueue, IndInv, TypeOK, Editing
<1>2. outbox[i] = None
  BY OutboxAssumption DEF EditEnqueue, NextRow, Ids
<1>3. d \in Edit /\ d.row = i /\ d # None
  BY <1>1, NoneAssumption DEF Edit
<1>4. row \in Row /\ row.status = "UNCOMMITTED" /\ row # None
  BY <1>1, OutboxAssumption, NoneAssumption DEF Edit, Row, RowStatus
<1> HIDE DEF d, row
<1>5. /\ outbox' \in OutboxTable /\ outbox'[i] = row
      /\ \A j \in Ids : j # i => outbox'[j] = outbox[j]
  BY <1>1, <1>4 DEF IndInv, TypeOK, OutboxTable
<1>6. /\ edit'[e] = d
      /\ \A f \in Editors : f # e => edit'[f] = edit[f]
  BY <1>1 DEF IndInv, TypeOK
<1>7. TypeOK'
  BY <1>1, <1>3, <1>5 DEF IndInv, TypeOK, OutboxTable, domain, worker, history
<1>8. EditsSound'
  <2>1. \A f \in Editors : \A j \in Ids : Owns(f, j)' <=> IF f = e THEN j = i ELSE Owns(f, j)
    BY <1>3, <1>6 DEF Owns, Editing
  <2>2. \A f \in Editors : ~Owns(f, i)
    BY <1>2 DEF IndInv, EditsSound
  <2> QED BY <1>4, <1>5, <2>1, <2>2 DEF IndInv, EditsSound
<1>9. FailedAfterMaxAttempts' /\ OneRunWithFreshBatch' /\ DeliveredSound'
  <2>1. \A j \in Ids : Visible(j)' <=> Visible(j)
    BY <1>2, <1>4, <1>5 DEF Visible
  <2>2. \A j \in Ids : Visible(j) => outbox'[j] = outbox[j]
    BY <1>2, <1>5 DEF Visible
  <2> QED BY <1>1, <1>5, <2>1, <2>2, VisibleKept DEF history
<1> QED BY <1>7, <1>8, <1>9 DEF IndInv

LEMMA EditCommitStep ==
    ASSUME IndInv, NEW e \in Editors, EditCommit(e)
    PROVE  IndInv'
<1> DEFINE i == edit[e].row
           row == [owner |-> outbox[i].owner, topicIds |-> outbox[i].topicIds,
                   status |-> "PENDING", attempts |-> 0]
<1>1. /\ Editing(e) /\ edit[e] \in Edit /\ i \in Ids
      /\ outbox' = [outbox EXCEPT ![i] = row]
      /\ edit' = [edit EXCEPT ![e] = None]
      /\ UNCHANGED <<topics, worker, mishaps, enabled, history>>
  BY DEF EditCommit, SetStatus, IndInv, TypeOK, Editing, Edit
<1>2. Owns(e, i)
  BY <1>1 DEF Owns
<1>3. outbox[i] # None /\ outbox[i].status = "UNCOMMITTED"
  BY <1>1, <1>2 DEF IndInv, EditsSound
<1>4. row \in Row /\ row.status = "PENDING" /\ row.attempts = 0
  BY <1>1, <1>3, OutboxAssumption DEF IndInv, TypeOK, Row, RowStatus
<1>5. links' \in [Owners -> SUBSET Topics]
  BY <1>1 DEF EditCommit, IndInv, TypeOK, Edit
<1> HIDE DEF i, row
<1>6. /\ outbox' \in OutboxTable /\ outbox'[i] = row
      /\ \A j \in Ids : j # i => outbox'[j] = outbox[j]
  BY <1>1, <1>4 DEF IndInv, TypeOK, OutboxTable
<1>7. /\ edit' \in [Editors -> Edit \cup {None}]
      /\ edit'[e] = None
      /\ \A f \in Editors : f # e => edit'[f] = edit[f]
  BY <1>1 DEF IndInv, TypeOK
<1>8. TypeOK'
  BY <1>1, <1>5, <1>6, <1>7 DEF IndInv, TypeOK, OutboxTable, worker, history
<1>9. EditsSound'
  <2>1. \A f \in Editors : \A j \in Ids : Owns(f, j)' => Owns(f, j) /\ f # e
    BY <1>7 DEF Owns, Editing
  <2>2. \A f \in Editors : Owns(f, i) => f = e
    BY <1>1, <1>2 DEF IndInv, EditsSound
  <2> QED BY <1>6, <2>1, <2>2 DEF IndInv, EditsSound
<1>10. FailedAfterMaxAttempts' /\ OneRunWithFreshBatch' /\ DeliveredSound'
  <2>1. \A j \in Ids : Visible(j) => outbox'[j] = outbox[j]
    BY <1>3, <1>6 DEF Visible
  <2>2. \A j \in Ids : Visible(j)' /\ ~Visible(j) => j = i
    BY <1>6 DEF Visible
  <2>3. \A j \in Ids : Visible(j)' /\ ~Visible(j) =>
            outbox'[j].status = "PENDING" /\ outbox'[j].attempts = 0
    BY <1>4, <1>6, <2>2
  <2> QED BY <1>1, <1>6, <2>1, <2>3, VisibleKept DEF history
<1> QED BY <1>8, <1>9, <1>10 DEF IndInv

LEMMA EditRollbackStep ==
    ASSUME IndInv, NEW e \in Editors, EditRollback(e)
    PROVE  IndInv'
<1>1. /\ Editing(e)
      /\ outbox' = [j \in Ids |-> IF j = edit[e].row THEN None ELSE outbox[j]]
      /\ edit' = [edit EXCEPT ![e] = None]
      /\ UNCHANGED <<domain, worker, mishaps, enabled, history>>
  BY DEF EditRollback
<1>2. /\ outbox' \in OutboxTable
      /\ \A j \in Ids : j # edit[e].row => outbox'[j] = outbox[j]
      /\ \A j \in Ids : j = edit[e].row => outbox'[j] = None
  BY <1>1 DEF IndInv, TypeOK, OutboxTable
<1>3. /\ edit' \in [Editors -> Edit \cup {None}]
      /\ edit'[e] = None
      /\ \A f \in Editors : f # e => edit'[f] = edit[f]
  BY <1>1 DEF IndInv, TypeOK
<1>4. TypeOK'
  BY <1>1, <1>2, <1>3 DEF IndInv, TypeOK, OutboxTable, domain, worker, history
<1>5. \A j \in Ids : j = edit[e].row => Owns(e, j)
  BY <1>1 DEF Owns
<1>6. EditsSound'
  <2>1. \A f \in Editors : \A j \in Ids : Owns(f, j)' => Owns(f, j) /\ f # e
    BY <1>3 DEF Owns, Editing
  <2>2. \A f \in Editors : \A j \in Ids : Owns(f, j)' => j # edit[e].row
    BY <1>5, <2>1 DEF IndInv, EditsSound
  <2> QED BY <1>2, <2>1, <2>2 DEF IndInv, EditsSound
<1>7. FailedAfterMaxAttempts' /\ OneRunWithFreshBatch' /\ DeliveredSound'
  <2>1. \A j \in Ids : Visible(j) => j # edit[e].row
    BY <1>5 DEF IndInv, EditsSound, Visible
  <2>2. \A j \in Ids : Visible(j) => outbox'[j] = outbox[j]
    BY <1>2, <2>1
  <2>3. \A j \in Ids : Visible(j)' => Visible(j)
    BY <1>2 DEF Visible
  <2> QED BY <1>1, <1>2, <2>2, <2>3, VisibleKept DEF history
<1> QED BY <1>4, <1>6, <1>7 DEF IndInv

LEMMA RemoveTopicStep ==
    ASSUME IndInv, NEW x \in Topics, RemoveTopic(x)
    PROVE  IndInv'
<1>1. UNCHANGED <<outbox, edit, worker, mishaps, enabled, history>>
  BY DEF RemoveTopic
<1>2. topics' \subseteq Topics /\ links' \in [Owners -> SUBSET Topics]
  BY DEF RemoveTopic, IndInv, TypeOK
<1>3. TypeOK'
  BY <1>1, <1>2 DEF IndInv, TypeOK, worker, history
<1>4. EditsSound'
  BY <1>1 DEF IndInv, EditsSound, Owns, Editing
<1>5. outbox' \in OutboxTable
  BY <1>1 DEF IndInv, TypeOK, OutboxTable
<1>6. \A i \in Ids : Visible(i)' <=> Visible(i)
  BY <1>1 DEF Visible
<1>7. FailedAfterMaxAttempts' /\ OneRunWithFreshBatch' /\ DeliveredSound'
  BY <1>1, <1>5, <1>6, VisibleKept DEF history
<1> QED BY <1>3, <1>4, <1>7 DEF IndInv

-----------------------------------------------------------------------------
(***************************************************************************)
(* The processor.                                                          *)
(***************************************************************************)

LEMMA TickStep ==
    ASSUME IndInv, NEW t \in Ticks, Tick(t)
    PROVE  IndInv'
<1>1. PICK B \in SUBSET Pending :
        /\ B # {}
        /\ tick' = [tick EXCEPT ![t] =
                      [batch |-> B,
                       seen |-> [i \in Ids |-> IF i \in B THEN outbox[i].attempts ELSE 0],
                       step |-> "clear",
                       todo |-> {}]]
  BY DEF Tick, ReadBatch
<1>2. /\ ~busy /\ ~Running(t) /\ busy' = TRUE
      /\ UNCHANGED <<domain, outbox, edit, graph, mishaps, enabled, history>>
  BY DEF Tick
<1> DEFINE seen == [i \in Ids |-> IF i \in B THEN outbox[i].attempts ELSE 0]
           run == [batch |-> B, seen |-> seen, step |-> "clear", todo |-> {}]
<1>3. seen \in [Ids -> 0 .. MaxAttempts]
  BY OutboxAssumption DEF IndInv, TypeOK, Pending, Row
<1>4. \A i \in B : seen[i] = outbox[i].attempts
  BY DEF Pending
<1>5. /\ run \in Run /\ run # None
      /\ run.batch = B /\ run.step = "clear" /\ \A i \in B : run.seen[i] = outbox[i].attempts
  <2> HIDE DEF seen
  <2>1. run \in Run
    BY <1>3 DEF Run, Pending
  <2> QED BY <1>4, <2>1, NoneAssumption
<1>6. tick' = [tick EXCEPT ![t] = run]
  BY <1>1
<1> HIDE DEF run, seen
<1>7. /\ tick' \in [Ticks -> Run \cup {None}]
      /\ tick'[t] = run
      /\ \A s \in Ticks : s # t => tick'[s] = None
  BY <1>2, <1>5, <1>6 DEF IndInv, TypeOK, OneRunWithFreshBatch, Running
<1>8. TypeOK'
  BY <1>2, <1>7 DEF IndInv, TypeOK, domain, history
<1>9. EditsSound'
  BY <1>2 DEF IndInv, EditsSound, Owns, Editing
<1>10. \A i \in Ids : Visible(i)' <=> Visible(i)
  BY <1>2 DEF Visible
<1>11. FailedAfterMaxAttempts'
  BY <1>2, <1>10 DEF IndInv, FailedAfterMaxAttempts
<1>12. Pending' = Pending
  BY <1>2 DEF Pending
<1>13. OneRunWithFreshBatch'
  BY <1>1, <1>2, <1>5, <1>7, <1>12 DEF OneRunWithFreshBatch, Running
<1>14. DeliveredSound'
  <2>1. \A i \in delivered' : Visible(i)'
    BY <1>2, <1>10 DEF IndInv, TypeOK, DeliveredSound, history
  <2>2. \A s \in Ticks : ~At(s, "add")'
    BY <1>5, <1>7 DEF At, Running
  <2> QED BY <2>1, <2>2 DEF DeliveredSound
<1> QED BY <1>8, <1>9, <1>11, <1>13, <1>14 DEF IndInv

\* The run stays with its row; only what is left to do for it changes.
LEMMA GotoStep ==
    ASSUME IndInv, NEW t \in Ticks, Running(t),
           NEW step \in {"clear", "add", "count"}, NEW todo \in SUBSET Topics,
           Goto(t, step, todo),
           graph' \in [Owners -> SUBSET Topics],
           UNCHANGED <<domain, outbox, edit, busy, mishaps, enabled, overlapped>>,
           delivered \subseteq delivered', delivered' \subseteq delivered \cup {Current(t)},
           step = "add" /\ todo = {} => Current(t) \in delivered'
    PROVE  IndInv'
<1> DEFINE run == [batch |-> tick[t].batch, seen |-> tick[t].seen, step |-> step, todo |-> todo]
<1>1. Current(t) \in Ids /\ Visible(Current(t)) /\ tick[t] \in Run
  BY CurrentRow
<1>2. /\ run \in Run /\ run # None
      /\ run.batch = tick[t].batch /\ run.seen = tick[t].seen
      /\ run.step = step /\ run.todo = todo
  BY <1>1, NoneAssumption DEF Run
<1>3. tick' = [tick EXCEPT ![t] = run]
  BY DEF Goto
<1> HIDE DEF run
<1>4. /\ tick' \in [Ticks -> Run \cup {None}]
      /\ tick'[t] = run
      /\ \A s \in Ticks : s # t => tick'[s] = None /\ tick[s] = None
  BY <1>2, <1>3 DEF IndInv, TypeOK, OneRunWithFreshBatch, Running
<1>5. delivered' \subseteq Ids
  BY <1>1 DEF IndInv, TypeOK
<1>6. TypeOK'
  BY <1>4, <1>5 DEF IndInv, TypeOK, domain
<1>7. EditsSound'
  BY DEF IndInv, EditsSound, Owns, Editing
<1>8. \A i \in Ids : Visible(i)' <=> Visible(i)
  BY DEF Visible
<1>9. FailedAfterMaxAttempts'
  BY <1>8 DEF IndInv, FailedAfterMaxAttempts
<1>10. Pending' = Pending
  BY DEF Pending
<1>11. OneRunWithFreshBatch'
  BY <1>2, <1>4, <1>10 DEF IndInv, OneRunWithFreshBatch, Running
<1>12. DeliveredSound'
  <2>1. \A i \in delivered' : Visible(i)'
    BY <1>1, <1>5, <1>8 DEF IndInv, DeliveredSound
  <2>2. Current(t)' = Current(t)
    BY <1>2, <1>4 DEF Current
  <2>3. \A s \in Ticks : At(s, "add")' /\ tick'[s].todo = {} => Current(s)' \in delivered'
    BY <1>2, <1>4, <2>2 DEF At, Running
  <2> QED BY <2>1, <2>3 DEF DeliveredSound
<1> QED BY <1>6, <1>7, <1>9, <1>11, <1>12 DEF IndInv

LEMMA ClearStep ==
    ASSUME IndInv, NEW t \in Ticks, Clear(t)
    PROVE  IndInv'
<1>1. Running(t)
  BY DEF Clear, At
<1>2. PICK S : S = outbox[Current(t)].topicIds
  OBVIOUS
<1>3. S \in SUBSET Topics
  BY <1>1, <1>2, CurrentRow DEF Row
<1>4. /\ Goto(t, "add", S) /\ Applied(Current(t), S)
      /\ graph' = [graph EXCEPT ![outbox[Current(t)].owner] = {}]
      /\ UNCHANGED <<domain, outbox, edit, busy, mishaps, enabled, overlapped>>
  BY <1>2 DEF Clear
<1>5. graph' \in [Owners -> SUBSET Topics]
  BY <1>4 DEF IndInv, TypeOK
<1>6. /\ delivered \subseteq delivered' /\ delivered' \subseteq delivered \cup {Current(t)}
      /\ S = {} => Current(t) \in delivered'
  BY <1>4 DEF Applied
<1> QED BY <1>1, <1>3, <1>4, <1>5, <1>6, GotoStep

LEMMA AddEdgeStep ==
    ASSUME IndInv, NEW t \in Ticks, NEW x \in Topics, AddEdge(t, x)
    PROVE  IndInv'
<1>1. Running(t)
  BY DEF AddEdge, At
<1>2. PICK left : left = tick[t].todo \ {x}
  OBVIOUS
<1>3. left \in SUBSET Topics
  BY <1>1, <1>2, CurrentRow DEF Run
<1>4. /\ Goto(t, "add", left) /\ Applied(Current(t), left)
      /\ graph' = [graph EXCEPT ![outbox[Current(t)].owner] = @ \cup {x}]
      /\ UNCHANGED <<domain, outbox, edit, busy, mishaps, enabled, overlapped>>
  BY <1>2 DEF AddEdge
<1>5. graph' \in [Owners -> SUBSET Topics]
  BY <1>4 DEF IndInv, TypeOK
<1>6. /\ delivered \subseteq delivered' /\ delivered' \subseteq delivered \cup {Current(t)}
      /\ left = {} => Current(t) \in delivered'
  BY <1>4 DEF Applied
<1> QED BY <1>1, <1>3, <1>4, <1>5, <1>6, GotoStep

LEMMA StatementFailsStep ==
    ASSUME IndInv, NEW t \in Ticks, StatementFails(t)
    PROVE  IndInv'
<1>1. Running(t)
  BY DEF StatementFails, At
<1>2. /\ Goto(t, "count", {})
      /\ UNCHANGED <<domain, outbox, edit, busy, graph, mishaps, enabled, delivered, overlapped>>
  BY DEF StatementFails, history
<1>3. graph' \in [Owners -> SUBSET Topics]
  BY <1>2 DEF IndInv, TypeOK
<1> QED BY <1>1, <1>2, <1>3, GotoStep

\* No run is alive after the step.
LEMMA IdleStep ==
    ASSUME IndInv, busy' = FALSE,
           tick' \in [Ticks -> {None}],
           outbox' \in OutboxTable,
           \A i \in Ids : Visible(i) => outbox'[i] = outbox[i],
           \A i \in Ids : Visible(i)' => Visible(i),
           UNCHANGED delivered
    PROVE  FailedAfterMaxAttempts' /\ OneRunWithFreshBatch' /\ DeliveredSound'
<1>1. FailedAfterMaxAttempts'
  BY DEF IndInv, FailedAfterMaxAttempts
<1>2. \A t \in Ticks : ~Running(t)'
  BY DEF Running
<1>3. OneRunWithFreshBatch'
  BY <1>2 DEF OneRunWithFreshBatch
<1>4. \A i \in delivered' : Visible(i)'
  BY DEF IndInv, TypeOK, DeliveredSound, Visible
<1>5. \A t \in Ticks : ~At(t, "add")'
  BY <1>2 DEF At, Running
<1> QED BY <1>1, <1>3, <1>4, <1>5 DEF DeliveredSound

LEMMA CountFailsStep ==
    ASSUME IndInv, NEW t \in Ticks, CountFails(t)
    PROVE  IndInv'
<1>1. /\ tick' = [tick EXCEPT ![t] = None] /\ busy' = FALSE
      /\ mishaps < MaxMishaps /\ mishaps' = mishaps + 1
      /\ Running(t)
      /\ UNCHANGED <<domain, outbox, edit, graph, enabled, history>>
  BY DEF CountFails, EndTick, At
<1>2. tick' \in [Ticks -> {None}]
  BY <1>1 DEF IndInv, TypeOK, OneRunWithFreshBatch, Running
<1>3. mishaps' \in 0 .. MaxMishaps
  BY <1>1, OutboxAssumption DEF IndInv, TypeOK
<1>4. TypeOK'
  BY <1>1, <1>2, <1>3 DEF IndInv, TypeOK, domain, history
<1>5. EditsSound'
  BY <1>1 DEF IndInv, EditsSound, Owns, Editing
<1>6. outbox' \in OutboxTable /\ \A i \in Ids : Visible(i)' => Visible(i)
  BY <1>1 DEF IndInv, TypeOK, OutboxTable, Visible
<1>7. FailedAfterMaxAttempts' /\ OneRunWithFreshBatch' /\ DeliveredSound'
  BY <1>1, <1>2, <1>6, IdleStep DEF history
<1> QED BY <1>4, <1>5, <1>7 DEF IndInv

LEMMA RestartStep ==
    ASSUME IndInv, Restart
    PROVE  IndInv'
<1>1. /\ tick' = [t \in Ticks |-> None] /\ busy' = FALSE
      /\ edit' = [e \in Editors |-> None]
      /\ outbox' = [i \in Ids |->
                      IF outbox[i] # None /\ outbox[i].status = "UNCOMMITTED"
                        THEN None ELSE outbox[i]]
      /\ mishaps < MaxMishaps /\ mishaps' = mishaps + 1
      /\ enabled' \in BOOLEAN
      /\ UNCHANGED <<domain, graph, history>>
  BY DEF Restart
<1>2. mishaps' \in 0 .. MaxMishaps
  BY <1>1, OutboxAssumption DEF IndInv, TypeOK
<1>3. /\ outbox' \in OutboxTable
      /\ \A i \in Ids : Visible(i) => outbox'[i] = outbox[i]
      /\ \A i \in Ids : Visible(i)' => Visible(i)
  BY <1>1 DEF IndInv, TypeOK, OutboxTable, Visible
<1>4. tick' \in [Ticks -> {None}]
  BY <1>1
<1>5. TypeOK'
  BY <1>1, <1>2, <1>3 DEF IndInv, TypeOK, OutboxTable, domain, history
<1>6. EditsSound'
  BY <1>1 DEF EditsSound, Owns, Editing
<1>7. FailedAfterMaxAttempts' /\ OneRunWithFreshBatch' /\ DeliveredSound'
  BY <1>1, <1>3, <1>4, IdleStep DEF history
<1> QED BY <1>5, <1>6, <1>7 DEF IndInv

\* The run is through with its row, whose status and attempts are written.
LEMMA ResolveStep ==
    ASSUME IndInv, NEW t \in Ticks, Running(t),
           NEW status \in {"PENDING", "PROCESSED", "FAILED"},
           NEW attempts \in 0 .. MaxAttempts,
           status = "FAILED" <=> attempts = MaxAttempts,
           SetStatus(Current(t), status, attempts),
           NextInBatch(t),
           UNCHANGED <<domain, edit, graph, mishaps, enabled, history>>
    PROVE  IndInv'
<1>1. PICK i : i = Current(t)
  OBVIOUS
<1>2. /\ tick[t] \in Run /\ i \in tick[t].batch /\ i \in Ids
      /\ tick[t].batch \subseteq Pending
      /\ outbox[i] \in Row /\ Visible(i)
  BY <1>1, CurrentRow
<1> DEFINE row == [owner |-> outbox[i].owner, topicIds |-> outbox[i].topicIds,
                   status |-> status, attempts |-> attempts]
<1>3. /\ row \in Row /\ row # None
      /\ row.status = status /\ row.attempts = attempts
  BY <1>2, NoneAssumption DEF Row, RowStatus
<1>4. outbox' = [outbox EXCEPT ![i] = row]
  BY <1>1, <1>2 DEF SetStatus
<1> HIDE DEF row
<1>5. /\ outbox' \in OutboxTable /\ outbox'[i] = row
      /\ \A j \in Ids : j # i => outbox'[j] = outbox[j]
  BY <1>2, <1>3, <1>4 DEF IndInv, TypeOK, OutboxTable
<1>6. \A j \in Ids : Visible(j)' <=> Visible(j)
  BY <1>2, <1>3, <1>5 DEF Visible
<1>7. EditsSound'
  BY <1>2, <1>5 DEF IndInv, EditsSound, Owns, Editing, Visible
<1>8. FailedAfterMaxAttempts'
  BY <1>3, <1>5, <1>6 DEF IndInv, FailedAfterMaxAttempts
<1>9. \A j \in delivered' : Visible(j)'
  BY <1>6 DEF IndInv, TypeOK, DeliveredSound, history
<1> DEFINE rest == tick[t].batch \ {i}
<1>10. CASE rest = {}
  <2>1. tick' = [tick EXCEPT ![t] = None] /\ busy' = FALSE
    BY <1>1, <1>10 DEF NextInBatch, EndTick
  <2>2. tick' \in [Ticks -> {None}]
    BY <2>1 DEF IndInv, TypeOK, OneRunWithFreshBatch, Running
  <2>3. \A s \in Ticks : ~Running(s)'
    BY <2>2 DEF Running
  <2>4. TypeOK'
    BY <1>5, <2>1, <2>2 DEF IndInv, TypeOK, OutboxTable, domain, history
  <2>5. OneRunWithFreshBatch' /\ DeliveredSound'
    BY <1>9, <2>1, <2>3 DEF OneRunWithFreshBatch, DeliveredSound, At, Running
  <2> QED BY <1>7, <1>8, <2>4, <2>5 DEF IndInv
<1>11. CASE rest # {}
  <2> DEFINE run == [batch |-> rest, seen |-> tick[t].seen, step |-> "clear", todo |-> {}]
  <2>1. tick' = [tick EXCEPT ![t] = run] /\ UNCHANGED busy
    BY <1>1, <1>11 DEF NextInBatch
  <2>2. /\ run \in Run /\ run # None /\ run.batch = rest
        /\ run.seen = tick[t].seen /\ run.step = "clear"
    BY <1>2, NoneAssumption DEF Run
  <2>3. \A j \in rest : j \in Pending' /\ outbox'[j] = outbox[j]
    BY <1>2, <1>5 DEF Pending
  <2>4. \A j \in rest : outbox[j].attempts = tick[t].seen[j]
    BY DEF IndInv, OneRunWithFreshBatch
  <2> HIDE DEF run, rest
  <2>5. /\ tick' \in [Ticks -> Run \cup {None}]
        /\ tick'[t] = run
        /\ \A s \in Ticks : s # t => tick'[s] = None
    BY <2>1, <2>2 DEF IndInv, TypeOK, OneRunWithFreshBatch, Running
  <2>6. TypeOK'
    BY <1>5, <2>1, <2>5 DEF IndInv, TypeOK, OutboxTable, domain, history
  <2>7. busy' = TRUE
    BY <2>1 DEF IndInv, TypeOK, OneRunWithFreshBatch
  <2>8. OneRunWithFreshBatch'
    BY <1>11, <2>2, <2>3, <2>4, <2>5, <2>7 DEF OneRunWithFreshBatch, Running
  <2>9. \A s \in Ticks : ~At(s, "add")'
    BY <2>2, <2>5 DEF At, Running
  <2> QED BY <1>7, <1>8, <1>9, <2>6, <2>8, <2>9 DEF IndInv, DeliveredSound
<1> QED BY <1>10, <1>11

LEMMA MarkProcessedStep ==
    ASSUME IndInv, NEW t \in Ticks, MarkProcessed(t)
    PROVE  IndInv'
<1>1. Running(t)
  BY DEF MarkProcessed, At
<1>2. PICK attempts : attempts = outbox[Current(t)].attempts
  OBVIOUS
<1>3. attempts \in 0 .. MaxAttempts /\ attempts # MaxAttempts
  BY <1>1, <1>2, CurrentRow, OutboxAssumption
<1> QED BY <1>1, <1>2, <1>3, ResolveStep DEF MarkProcessed

LEMMA CountAttemptStep ==
    ASSUME IndInv, NEW t \in Ticks, CountAttempt(t)
    PROVE  IndInv'
<1>1. Running(t)
  BY DEF CountAttempt, At
<1>2. PICK attempts : attempts = tick[t].seen[Current(t)] + 1
  OBVIOUS
<1>3. attempts \in 0 .. MaxAttempts
  BY <1>1, <1>2, CurrentRow, OutboxAssumption
<1>4. PICK status : status = IF attempts >= MaxAttempts THEN "FAILED" ELSE "PENDING"
  OBVIOUS
<1>5. /\ status \in {"PENDING", "PROCESSED", "FAILED"}
      /\ status = "FAILED" <=> attempts = MaxAttempts
  BY <1>3, <1>4, OutboxAssumption
<1>6. /\ SetStatus(Current(t), status, attempts) /\ NextInBatch(t)
      /\ UNCHANGED <<domain, edit, graph, mishaps, enabled, history>>
  BY <1>2, <1>4 DEF CountAttempt
<1> QED BY <1>1, <1>3, <1>5, <1>6, ResolveStep

LEMMA StutterStep ==
    ASSUME IndInv, UNCHANGED vars
    PROVE  IndInv'
<1>1. UNCHANGED <<topics, links, outbox, edit, tick, busy, graph, mishaps, enabled, delivered, overlapped>>
  BY DEF vars, domain, worker, history
<1>2. TypeOK' /\ EditsSound'
  BY <1>1 DEF IndInv, TypeOK, EditsSound, Owns, Editing
<1>3. outbox' \in OutboxTable /\ \A i \in Ids : Visible(i)' <=> Visible(i)
  BY <1>1 DEF IndInv, TypeOK, OutboxTable, Visible
<1>4. FailedAfterMaxAttempts' /\ OneRunWithFreshBatch' /\ DeliveredSound'
  BY <1>1, <1>3, VisibleKept DEF worker
<1> QED BY <1>2, <1>4 DEF IndInv

LEMMA NextIndInv == IndInv /\ [Next]_vars => IndInv'
<1> SUFFICES ASSUME IndInv, [Next]_vars PROVE IndInv'
  OBVIOUS
<1>1. ASSUME NEW e \in Editors, EditStep(e) PROVE IndInv'
  BY <1>1, EditDeleteStep, EditEnqueueStep, EditCommitStep, EditRollbackStep DEF EditStep
<1>2. ASSUME NEW x \in Topics, RemoveTopic(x) PROVE IndInv'
  BY <1>2, RemoveTopicStep
<1>3. ASSUME NEW t \in Ticks, Tick(t) PROVE IndInv'
  BY <1>3, TickStep
<1>4. ASSUME NEW t \in Ticks, RunStep(t) PROVE IndInv'
  BY <1>4, ClearStep, AddEdgeStep, MarkProcessedStep, StatementFailsStep, CountAttemptStep,
     CountFailsStep DEF RunStep
<1>5. CASE Restart
  BY <1>5, RestartStep
<1>6. CASE UNCHANGED vars
  BY <1>6, StutterStep
<1> QED BY <1>1, <1>2, <1>3, <1>4, <1>5, <1>6 DEF Next

LEMMA Invariance == Spec => []IndInv
BY InitIndInv, NextIndInv, PTL DEF Spec

-----------------------------------------------------------------------------
(***************************************************************************)
(* Theorems.                                                               *)
(***************************************************************************)

\* The tables, the transactions and the runs keep their types.
THEOREM TypeCorrect == Spec => []TypeOK
<1>1. IndInv => TypeOK
  BY DEF IndInv
<1> QED BY <1>1, Invariance, PTL

\* However many crons fire, one run at a time is alive, and what it read from
\* the table before its first statement is still true of every row it has yet
\* to work on: the attempts it adds one to are the row's.
THEOREM OneRunAtATime == Spec => []OneRunWithFreshBatch
<1>1. IndInv => OneRunWithFreshBatch
  BY DEF IndInv
<1> QED BY <1>1, Invariance, PTL

\* A row is FAILED exactly when its attempts reached MAX_ATTEMPTS: none is
\* given up early, none is tried once more, across restarts and failed updates.
THEOREM GivenUpAtLast == Spec => []FailedAfterMaxAttempts
<1>1. IndInv => FailedAfterMaxAttempts
  BY DEF IndInv
<1> QED BY <1>1, Invariance, PTL

-----------------------------------------------------------------------------
(***************************************************************************)
(* What a step does to the rows everyone sees.                             *)
(***************************************************************************)

RowsKept == \A i \in Ids : Visible(i) => outbox'[i] = outbox[i]
NoneNew  == \A i \in Ids : Visible(i)' => Visible(i)

\* Row i, seen to be pending, is given a status and a number of attempts.
Rewrites(i, status, attempts) ==
    /\ i \in Ids /\ Visible(i) /\ outbox[i].status = "PENDING"
    /\ \A j \in Ids : j # i => outbox'[j] = outbox[j]
    /\ outbox'[i] = [owner |-> outbox[i].owner, topicIds |-> outbox[i].topicIds,
                      status |-> status, attempts |-> attempts]
    /\ outbox'[i] # None

Quiet ==
    \/ \E e \in Editors :
          \/ \E o \in Owners, S \in SUBSET Topics : EditDelete(e, o, S)
          \/ \E i \in Ids : EditEnqueue(e, i)
          \/ EditRollback(e)
    \/ \E x \in Topics : RemoveTopic(x)
    \/ \E t \in Ticks : Tick(t) \/ StatementFails(t) \/ CountFails(t)
    \/ Restart
    \/ UNCHANGED vars

Applies == \E t \in Ticks : Clear(t) \/ \E x \in Topics : AddEdge(t, x)

LEMMA QuietKeeps ==
    ASSUME IndInv, Quiet
    PROVE  RowsKept /\ NoneNew /\ UNCHANGED delivered
<1>1. ASSUME UNCHANGED <<outbox, delivered>> PROVE RowsKept /\ NoneNew /\ UNCHANGED delivered
  BY <1>1 DEF RowsKept, NoneNew, Visible
<1>2. ASSUME NEW e \in Editors, NEW i \in Ids, EditEnqueue(e, i)
      PROVE  RowsKept /\ NoneNew /\ UNCHANGED delivered
  <2>1. outbox[i] = None /\ UNCHANGED delivered
    BY <1>2, OutboxAssumption DEF EditEnqueue, NextRow, Ids, history
  <2>2. PICK row : row = [owner |-> edit[e].owner, topicIds |-> edit[e].topicIds,
                          status |-> "UNCOMMITTED", attempts |-> 0]
    OBVIOUS
  <2>3. outbox' = [outbox EXCEPT ![i] = row]
    BY <1>2, <2>2 DEF EditEnqueue
  <2>4. outbox'[i].status = "UNCOMMITTED" /\ \A j \in Ids : j # i => outbox'[j] = outbox[j]
    BY <2>2, <2>3 DEF IndInv, TypeOK
  <2> QED BY <2>1, <2>4 DEF RowsKept, NoneNew, Visible
<1>3. ASSUME NEW e \in Editors, EditRollback(e)
      PROVE  RowsKept /\ NoneNew /\ UNCHANGED delivered
  <2>1. /\ Editing(e) /\ UNCHANGED delivered
        /\ outbox' = [i \in Ids |-> IF i = edit[e].row THEN None ELSE outbox[i]]
    BY <1>3 DEF EditRollback, history
  <2>2. \A i \in Ids : i = edit[e].row => ~Visible(i)
    BY <2>1 DEF IndInv, EditsSound, Owns, Visible
  <2> QED BY <2>1, <2>2 DEF RowsKept, NoneNew, Visible
<1>4. ASSUME Restart PROVE RowsKept /\ NoneNew /\ UNCHANGED delivered
  BY <1>4 DEF Restart, RowsKept, NoneNew, Visible, history
<1>5. ASSUME NEW e \in Editors, NEW o \in Owners, NEW S \in SUBSET Topics, EditDelete(e, o, S)
      PROVE  UNCHANGED <<outbox, delivered>>
  BY <1>5 DEF EditDelete
<1>6. ASSUME NEW x \in Topics, RemoveTopic(x) PROVE UNCHANGED <<outbox, delivered>>
  BY <1>6 DEF RemoveTopic, history
<1>7. ASSUME NEW t \in Ticks, Tick(t) \/ StatementFails(t) \/ CountFails(t)
      PROVE  UNCHANGED <<outbox, delivered>>
  BY <1>7 DEF Tick, StatementFails, CountFails, history
<1>8. CASE UNCHANGED vars
  BY <1>1, <1>8 DEF vars, history
<1> QED BY <1>1, <1>2, <1>3, <1>4, <1>5, <1>6, <1>7, <1>8 DEF Quiet

LEMMA CommitPublishes ==
    ASSUME IndInv, NEW e \in Editors, EditCommit(e)
    PROVE  \E i \in Ids :
              /\ ~Visible(i) /\ Visible(i)' /\ outbox'[i].status = "PENDING"
              /\ \A j \in Ids : j # i => outbox'[j] = outbox[j]
              /\ UNCHANGED delivered
<1>1. PICK i : i = edit[e].row
  OBVIOUS
<1>2. /\ Owns(e, i) /\ i \in Ids
  BY <1>1 DEF EditCommit, Owns, Editing, IndInv, TypeOK, Edit
<1>3. ~Visible(i)
  BY <1>2 DEF IndInv, EditsSound, Visible
<1>4. PICK row : row = [owner |-> outbox[i].owner, topicIds |-> outbox[i].topicIds,
                        status |-> "PENDING", attempts |-> 0]
  OBVIOUS
<1>5. outbox' = [outbox EXCEPT ![i] = row] /\ UNCHANGED delivered
  BY <1>1, <1>2, <1>4 DEF EditCommit, SetStatus, history
<1>6. /\ outbox'[i] = row /\ \A j \in Ids : j # i => outbox'[j] = outbox[j]
  BY <1>2, <1>5 DEF IndInv, TypeOK
<1>7. row # None
  <2>1. row \in Row
    BY <1>2, <1>4, OutboxAssumption DEF IndInv, EditsSound, TypeOK, Row, RowStatus
  <2> QED BY <2>1, NoneAssumption
<1> QED BY <1>2, <1>3, <1>4, <1>5, <1>6, <1>7 DEF Visible

LEMMA RunRewrites ==
    ASSUME IndInv, NEW t \in Ticks, Running(t),
           NEW status \in RowStatus, NEW attempts \in 0 .. MaxAttempts,
           SetStatus(Current(t), status, attempts)
    PROVE  Rewrites(Current(t), status, attempts)
<1>1. PICK i : i = Current(t)
  OBVIOUS
<1>2. i \in Ids /\ Visible(i) /\ outbox[i].status = "PENDING" /\ outbox[i] \in Row
  BY <1>1, CurrentRow
<1>3. PICK row : row = [owner |-> outbox[i].owner, topicIds |-> outbox[i].topicIds,
                        status |-> status, attempts |-> attempts]
  OBVIOUS
<1>4. row # None
  BY <1>2, <1>3, NoneAssumption DEF Row
<1>5. outbox' = [outbox EXCEPT ![i] = row]
  BY <1>1, <1>2, <1>3 DEF SetStatus
<1>6. outbox'[i] = row /\ \A j \in Ids : j # i => outbox'[j] = outbox[j]
  BY <1>2, <1>5 DEF IndInv, TypeOK
<1> QED BY <1>1, <1>2, <1>3, <1>4, <1>6 DEF Rewrites

LEMMA MarkProcessedRewrites ==
    ASSUME IndInv, NEW t \in Ticks, MarkProcessed(t)
    PROVE  /\ \E attempts : Rewrites(Current(t), "PROCESSED", attempts)
           /\ Current(t) \in delivered /\ UNCHANGED delivered
<1>1. Running(t)
  BY DEF MarkProcessed, At
<1>2. PICK attempts \in 0 .. MaxAttempts : attempts = outbox[Current(t)].attempts
  BY <1>1, CurrentRow DEF Row
<1>3. Rewrites(Current(t), "PROCESSED", attempts)
  BY <1>1, <1>2, RunRewrites DEF MarkProcessed, RowStatus
<1>4. Current(t) \in delivered /\ UNCHANGED delivered
  BY DEF MarkProcessed, IndInv, DeliveredSound, history
<1> QED BY <1>3, <1>4

LEMMA CountAttemptRewrites ==
    ASSUME IndInv, NEW t \in Ticks, CountAttempt(t)
    PROVE  /\ \E status \in {"PENDING", "FAILED"} : \E attempts :
                  Rewrites(Current(t), status, attempts)
           /\ UNCHANGED delivered
<1>1. Running(t)
  BY DEF CountAttempt, At
<1>2. PICK attempts \in 0 .. MaxAttempts : attempts = tick[t].seen[Current(t)] + 1
  BY <1>1, CurrentRow, OutboxAssumption
<1>3. PICK status \in {"PENDING", "FAILED"} :
          status = IF attempts >= MaxAttempts THEN "FAILED" ELSE "PENDING"
  OBVIOUS
<1>4. SetStatus(Current(t), status, attempts) /\ UNCHANGED delivered
  BY <1>2, <1>3 DEF CountAttempt, history
<1>5. Rewrites(Current(t), status, attempts)
  BY <1>1, <1>4, RunRewrites DEF RowStatus
<1> QED BY <1>4, <1>5

LEMMA Cases ==
    ASSUME [Next]_vars
    PROVE  \/ Quiet \/ Applies
           \/ \E e \in Editors : EditCommit(e)
           \/ \E t \in Ticks : MarkProcessed(t) \/ CountAttempt(t)
BY DEF Next, EditStep, RunStep, Quiet, Applies

\* PROCESSED and FAILED are final, and no row that was committed is lost or
\* changes its payload, whichever runs, transactions and crashes follow.
THEOREM SettledForGood == Spec => ResolvedForGood
<1> DEFINE Keeps(i) ==
             Visible(i) =>
               /\ outbox'[i] # None
               /\ outbox'[i].topicIds = outbox[i].topicIds
               /\ outbox[i].status \in {"PROCESSED", "FAILED"} => outbox'[i] = outbox[i]
<1>1. ASSUME IndInv, [Next]_vars, NEW i \in Ids PROVE Keeps(i)
  <2>1. ASSUME outbox'[i] = outbox[i] PROVE Keeps(i)
    BY <2>1 DEF Visible
  <2>2. ASSUME NEW j, NEW status, NEW attempts, Rewrites(j, status, attempts)
        PROVE  Keeps(i)
    BY <2>1, <2>2 DEF Rewrites
  <2> HIDE DEF Keeps
  <2>3. CASE Quiet
    BY <1>1, <2>1, <2>3, QuietKeeps DEF RowsKept, Keeps
  <2>4. CASE Applies
    BY <2>1, <2>4 DEF Applies, Clear, AddEdge
  <2>5. ASSUME NEW e \in Editors, EditCommit(e) PROVE Keeps(i)
    <3>1. PICK j \in Ids : /\ ~Visible(j)
                          /\ \A k \in Ids : k # j => outbox'[k] = outbox[k]
      BY <1>1, <2>5, CommitPublishes
    <3> QED BY <1>1, <2>1, <3>1 DEF Keeps
  <2>6. ASSUME NEW t \in Ticks, MarkProcessed(t) \/ CountAttempt(t) PROVE Keeps(i)
    BY <1>1, <2>2, <2>6, MarkProcessedRewrites, CountAttemptRewrites
  <2> QED BY <1>1, <2>3, <2>4, <2>5, <2>6, Cases
<1>2. IndInv /\ [Next]_vars => [\A i \in Ids : Keeps(i)]_vars
  BY <1>1
<1> QED BY <1>2, Invariance, PTL DEF Spec, ResolvedForGood

-----------------------------------------------------------------------------
(***************************************************************************)
(* Outbox implements Delivery: a step moves one event, or none.            *)
(***************************************************************************)

LEMMA EventMoves ==
    ASSUME NEW i \in Ids, NEW from, NEW to, EventOf(i) \in from, EventOf(i)' = to,
           \A j \in Ids : j # i => EventOf(j)' = EventOf(j)
    PROVE  Promise!Becomes(i, from, to)
BY DEF Promise!Becomes

LEMMA EventsStay ==
    ASSUME \A i \in Ids : EventOf(i)' = EventOf(i)
    PROVE  UNCHANGED [i \in Ids |-> EventOf(i)]
OBVIOUS

\* An event is a function of its row and of whether it is in delivered.
LEMMA SameEvent ==
    ASSUME NEW i \in Ids, outbox'[i] = outbox[i], i \in delivered' <=> i \in delivered
    PROVE  EventOf(i)' = EventOf(i)
BY DEF EventOf, Visible

LEMMA QuietEvents ==
    ASSUME IndInv, Quiet, NEW i \in Ids
    PROVE  EventOf(i)' = EventOf(i)
<1>1. CASE Visible(i)
  BY <1>1, QuietKeeps, SameEvent DEF RowsKept
<1>2. CASE ~Visible(i)
  BY <1>2, QuietKeeps DEF NoneNew, EventOf
<1> QED BY <1>1, <1>2

LEMMA EventStep ==
    ASSUME IndInv, [Next]_vars
    PROVE  [Promise!Next]_[i \in Ids |-> EventOf(i)]
<1>1. CASE Quiet
  BY <1>1, QuietEvents, EventsStay
<1>2. ASSUME NEW t \in Ticks, Clear(t) \/ \E x \in Topics : AddEdge(t, x)
      PROVE  [Promise!Next]_[i \in Ids |-> EventOf(i)]
  <2>1. PICK i : i = Current(t)
    OBVIOUS
  <2>2. Running(t) /\ UNCHANGED outbox
    BY <1>2 DEF Clear, AddEdge, At
  <2>3. delivered' = delivered \/ delivered' = delivered \cup {i}
    BY <1>2, <2>1 DEF Clear, AddEdge, Applied
  <2>4. i \in Ids /\ Visible(i) /\ outbox[i].status = "PENDING"
    BY <2>1, <2>2, CurrentRow
  <2>5. \A j \in Ids : j # i => EventOf(j)' = EventOf(j)
    BY <2>2, <2>3, SameEvent
  <2>6. CASE i \in delivered' <=> i \in delivered
    BY <2>2, <2>4, <2>5, <2>6, SameEvent, EventsStay
  <2>7. CASE i \in delivered' /\ i \notin delivered
    <3>1. EventOf(i) = "accepted" /\ EventOf(i)' = "delivered"
      BY <2>2, <2>4, <2>7 DEF EventOf, Visible
    <3>2. Promise!Deliver(i)
      BY <2>4, <2>5, <3>1, EventMoves DEF Promise!Deliver
    <3> QED BY <2>4, <3>2 DEF Promise!Next
  <2> QED BY <2>3, <2>6, <2>7
<1>3. ASSUME NEW e \in Editors, EditCommit(e)
      PROVE  [Promise!Next]_[i \in Ids |-> EventOf(i)]
  <2>1. PICK i \in Ids :
          /\ ~Visible(i) /\ Visible(i)' /\ outbox'[i].status = "PENDING"
          /\ \A j \in Ids : j # i => outbox'[j] = outbox[j]
          /\ UNCHANGED delivered
    BY <1>3, CommitPublishes
  <2>2. i \notin delivered
    BY <2>1 DEF IndInv, DeliveredSound
  <2>3. EventOf(i) = "none" /\ EventOf(i)' = "accepted"
    BY <2>1, <2>2 DEF EventOf
  <2>4. \A j \in Ids : j # i => EventOf(j)' = EventOf(j)
    BY <2>1, SameEvent
  <2>5. Promise!Publish(i)
    BY <2>3, <2>4, EventMoves DEF Promise!Publish
  <2> QED BY <2>5 DEF Promise!Next
<1>4. ASSUME NEW t \in Ticks, MarkProcessed(t)
      PROVE  [Promise!Next]_[i \in Ids |-> EventOf(i)]
  <2>1. PICK i, attempts : /\ Rewrites(i, "PROCESSED", attempts)
                           /\ i \in delivered /\ UNCHANGED delivered
    BY <1>4, MarkProcessedRewrites
  <2>2. EventOf(i) = "delivered" /\ EventOf(i)' = "acknowledged"
    BY <2>1 DEF Rewrites, EventOf, Visible
  <2>3. \A j \in Ids : j # i => EventOf(j)' = EventOf(j)
    BY <2>1, SameEvent DEF Rewrites
  <2>4. Promise!Acknowledge(i)
    BY <2>1, <2>2, <2>3, EventMoves DEF Promise!Acknowledge, Rewrites
  <2> QED BY <2>1, <2>4 DEF Promise!Next, Rewrites
<1>5. ASSUME NEW t \in Ticks, CountAttempt(t)
      PROVE  [Promise!Next]_[i \in Ids |-> EventOf(i)]
  <2>1. PICK i \in Ids, status \in {"PENDING", "FAILED"} :
          (\E attempts : Rewrites(i, status, attempts)) /\ UNCHANGED delivered
    BY <1>5, CountAttemptRewrites DEF Rewrites
  <2>2. \A j \in Ids : j # i => EventOf(j)' = EventOf(j)
    BY <2>1, SameEvent DEF Rewrites
  <2>3. CASE status = "PENDING"
    <3>1. i \in Ids /\ EventOf(i)' = EventOf(i)
      BY <2>1, <2>3 DEF Rewrites, EventOf, Visible
    <3> QED BY <2>2, <3>1, EventsStay
  <2>4. CASE status = "FAILED"
    <3>1. i \in Ids /\ EventOf(i) \in {"accepted", "delivered"} /\ EventOf(i)' = "abandoned"
      BY <2>1, <2>4 DEF Rewrites, EventOf, Visible
    <3>2. Promise!Abandon(i)
      BY <2>2, <3>1, EventMoves DEF Promise!Abandon
    <3> QED BY <3>1, <3>2 DEF Promise!Next
  <2> QED BY <2>1, <2>3, <2>4
<1> QED BY <1>1, <1>2, <1>3, <1>4, <1>5, Cases DEF Applies

\* The table, the transactions, the cron and Neo4j together keep the promise
\* of Delivery: no row says PROCESSED that was not applied in full.
THEOREM Implements == Spec => ImplementsDelivery
<1>1. Init => Promise!Init
  BY DEF Init, Promise!Init, EventOf, Visible
<1>2. IndInv /\ [Next]_vars => [Promise!Next]_[i \in Ids |-> EventOf(i)]
  BY EventStep
<1> QED BY <1>1, <1>2, Invariance, PTL DEF Spec, ImplementsDelivery, Promise!Spec

-----------------------------------------------------------------------------
(***************************************************************************)
(* The order of the rows of an owner, and what it does to Postgres and to  *)
(* Neo4j.  An owner no two transactions were ever open for together has    *)
(* one open transaction at most, whose row is its latest; the last row     *)
(* everyone sees says what Postgres holds; a batch leaves no older untried *)
(* row behind; a row half applied has the rest of its edges still to do;   *)
(* when all rows are processed at their first attempt the last one says    *)
(* what Neo4j holds.                                                       *)
(***************************************************************************)

IsLast(o, i) == i \in RowsOf(o) /\ \A j \in RowsOf(o) : j <= i

Untried(i) == outbox[i].status = "PENDING" /\ outbox[i].attempts = 0

AtFirstAttempt(o) ==
    \A i \in RowsOf(o) : outbox[i].status = "PROCESSED" /\ outbox[i].attempts = 0

EditsApart ==
    \A e, f \in Editors :
        Editing(e) /\ Editing(f) /\ edit[e].owner = edit[f].owner
            /\ edit[e].owner \notin overlapped => e = f

RowIsLatest ==
    \A e \in Editors : \A i \in Ids : Owns(e, i) =>
        /\ outbox[i].owner = edit[e].owner
        /\ outbox[i].topicIds = edit[e].topicIds
        /\ edit[e].owner \notin overlapped => \A j \in RowsOf(edit[e].owner) : j < i

AllLinksDoomed ==
    \A e \in Editors : Editing(e) /\ edit[e].owner \notin overlapped =>
        links[edit[e].owner] \subseteq edit[e].doomed

LinksFollowLast ==
    \A o \in Owners \ overlapped : \A i \in Ids :
        IsLast(o, i) => links[o] = outbox[i].topicIds \cap topics

EditInv == EditsApart /\ RowIsLatest /\ AllLinksDoomed /\ LinksFollowLast

BatchIsPrefix ==
    \A t \in Ticks : Running(t) =>
        \A o \in Owners \ overlapped : \A i, j \in RowsOf(o) :
            i < j /\ j \in tick[t].batch /\ Untried(i) => i \in tick[t].batch

Halfway ==
    \A t \in Ticks : At(t, "add") =>
        graph[outbox[Current(t)].owner] \cup tick[t].todo = outbox[Current(t)].topicIds

GraphFollowsLast ==
    \A o \in Owners \ overlapped : \A i \in Ids :
        IsLast(o, i) /\ AtFirstAttempt(o) => graph[o] = outbox[i].topicIds

RunInv == BatchIsPrefix /\ Halfway /\ NoOvertaking /\ GraphFollowsLast

OrderInv == IndInv /\ EditInv /\ RunInv

LEMMA InitOrderInv == Init => OrderInv
<1> SUFFICES ASSUME Init PROVE OrderInv
  OBVIOUS
<1>1. IndInv
  BY InitIndInv
<1>2. \A o : RowsOf(o) = {}
  BY DEF Init, RowsOf, Visible
<1>3. EditInv
  BY <1>2 DEF Init, EditInv, EditsApart, RowIsLatest, AllLinksDoomed, LinksFollowLast, IsLast,
     Owns, Editing
<1>4. RunInv
  BY <1>2 DEF Init, RunInv, BatchIsPrefix, Halfway, NoOvertaking, GraphFollowsLast, IsLast,
     Running, At
<1> QED BY <1>1, <1>3, <1>4 DEF OrderInv

\* The rows everyone sees keep their owner and their payload.
SamePayloads ==
    \A i \in Ids :
        /\ Visible(i)' <=> Visible(i)
        /\ ~Visible(i) => outbox'[i] = outbox[i]
        /\ outbox'[i].owner = outbox[i].owner
        /\ outbox'[i].topicIds = outbox[i].topicIds

LEMMA SameRows ==
    ASSUME \A i \in Ids : Visible(i)' <=> Visible(i),
           \A i \in Ids : Visible(i) => outbox'[i].owner = outbox[i].owner,
           NEW o
    PROVE  RowsOf(o)' = RowsOf(o) /\ \A i : IsLast(o, i)' <=> IsLast(o, i)
<1>1. RowsOf(o)' = RowsOf(o)
  BY DEF RowsOf
<1> QED BY <1>1 DEF IsLast

LEMMA RewriteKeepsPayloads ==
    ASSUME NEW i, NEW status \in {"PENDING", "PROCESSED", "FAILED"}, NEW attempts,
           Rewrites(i, status, attempts)
    PROVE  SamePayloads
BY DEF Rewrites, SamePayloads, Visible

\* The processor, seen from the transactions.
LEMMA EditInvUnderRuns ==
    ASSUME IndInv, EditInv, SamePayloads, UNCHANGED <<domain, edit, overlapped>>
    PROVE  EditInv'
<1>1. \A o : RowsOf(o)' = RowsOf(o) /\ \A i : IsLast(o, i)' <=> IsLast(o, i)
  BY SameRows DEF SamePayloads
<1>2. \A e \in Editors : /\ Editing(e)' <=> Editing(e)
                         /\ \A i \in Ids : Owns(e, i)' <=> Owns(e, i)
  BY DEF Editing, Owns
<1>3. EditsApart'
  BY <1>2 DEF EditInv, EditsApart
<1>4. RowIsLatest'
  BY <1>1, <1>2 DEF EditInv, RowIsLatest, SamePayloads
<1>5. AllLinksDoomed'
  BY <1>2 DEF EditInv, AllLinksDoomed, domain
<1>6. LinksFollowLast'
  BY <1>1 DEF EditInv, LinksFollowLast, SamePayloads, domain
<1> QED BY <1>3, <1>4, <1>5, <1>6 DEF EditInv

\* Steps of the processor that leave the table alone.
LEMMA SilentRuns ==
    ASSUME UNCHANGED outbox
    PROVE  SamePayloads
BY DEF SamePayloads, Visible

LEMMA EditInvRunStep ==
    ASSUME IndInv, EditInv, NEW t \in Ticks, Tick(t) \/ RunStep(t)
    PROVE  EditInv'
<1>1. UNCHANGED <<domain, edit, overlapped>>
  BY DEF RunStep, Tick, Clear, AddEdge, MarkProcessed, StatementFails, CountAttempt, CountFails,
     history
<1>2. SamePayloads
  <2>1. CASE MarkProcessed(t)
    BY <2>1, MarkProcessedRewrites, RewriteKeepsPayloads
  <2>2. CASE CountAttempt(t)
    BY <2>2, CountAttemptRewrites, RewriteKeepsPayloads
  <2>3. CASE UNCHANGED outbox
    BY <2>3, SilentRuns
  <2> QED BY <2>1, <2>2, <2>3 DEF RunStep, Tick, Clear, AddEdge, StatementFails, CountFails
<1> QED BY <1>1, <1>2, EditInvUnderRuns

\* A transaction opens: its owner is alone, or is marked.
LEMMA EditInvDelete ==
    ASSUME IndInv, EditInv, NEW e \in Editors, NEW o \in Owners, NEW S \in SUBSET Topics,
           EditDelete(e, o, S)
    PROVE  EditInv'
<1> DEFINE d == [owner |-> o, topicIds |-> S, doomed |-> links[o], row |-> None]
<1>1. /\ edit' = [edit EXCEPT ![e] = d]
      /\ UNCHANGED <<topics, links, outbox>>
      /\ overlapped \subseteq overlapped'
      /\ \A f \in Editors : Editing(f) /\ edit[f].owner = o => o \in overlapped'
      /\ ~Editing(e)
  BY DEF EditDelete, domain
<1>2. d.owner = o /\ d.doomed = links[o] /\ d.row \notin Ids
  BY NoneAssumption
<1> HIDE DEF d
<1>3. edit'[e] = d /\ \A f \in Editors : f # e => edit'[f] = edit[f]
  BY <1>1 DEF IndInv, TypeOK
<1>4. \A p : RowsOf(p)' = RowsOf(p) /\ \A i : IsLast(p, i)' <=> IsLast(p, i)
  BY <1>1, SameRows DEF Visible
<1>5. EditsApart'
  BY <1>1, <1>2, <1>3 DEF EditInv, EditsApart, Editing
<1>6. RowIsLatest'
  <2>1. \A f \in Editors : \A i \in Ids : Owns(f, i)' => f # e /\ Owns(f, i)
    BY <1>2, <1>3 DEF Owns, Editing
  <2> QED BY <1>1, <1>3, <1>4, <2>1 DEF EditInv, RowIsLatest
<1>7. AllLinksDoomed'
  BY <1>1, <1>2, <1>3 DEF EditInv, AllLinksDoomed, Editing
<1>8. LinksFollowLast'
  BY <1>1, <1>4 DEF EditInv, LinksFollowLast
<1> QED BY <1>5, <1>6, <1>7, <1>8 DEF EditInv

LEMMA EditInvEnqueue ==
    ASSUME IndInv, EditInv, NEW e \in Editors, NEW i \in Ids, EditEnqueue(e, i)
    PROVE  EditInv'
<1> DEFINE d == [owner |-> edit[e].owner, topicIds |-> edit[e].topicIds,
                 doomed |-> edit[e].doomed, row |-> i]
           row == [owner |-> edit[e].owner, topicIds |-> edit[e].topicIds,
                   status |-> "UNCOMMITTED", attempts |-> 0]
<1>1. /\ Editing(e) /\ \A j \in Ids : j >= i => outbox[j] = None
      /\ outbox' = [outbox EXCEPT ![i] = row]
      /\ edit' = [edit EXCEPT ![e] = d]
      /\ UNCHANGED <<topics, links, overlapped>>
  BY DEF EditEnqueue, NextRow, domain, history
<1>2. /\ d.owner = edit[e].owner /\ d.topicIds = edit[e].topicIds
      /\ d.doomed = edit[e].doomed /\ d.row = i
      /\ row.owner = edit[e].owner /\ row.topicIds = edit[e].topicIds
      /\ row.status = "UNCOMMITTED"
  OBVIOUS
<1> HIDE DEF d, row
<1>3. /\ edit'[e] = d /\ \A f \in Editors : f # e => edit'[f] = edit[f]
      /\ outbox'[i] = row /\ \A j \in Ids : j # i => outbox'[j] = outbox[j]
  BY <1>1 DEF IndInv, TypeOK
<1>4. \A j \in Ids : (Visible(j)' <=> Visible(j)) /\ (Visible(j) => j < i)
  BY <1>1, <1>2, <1>3, OutboxAssumption DEF Visible, Ids
<1>5. /\ \A j \in Ids : Visible(j) => outbox'[j] = outbox[j]
      /\ \A o : RowsOf(o)' = RowsOf(o) /\ \A j : IsLast(o, j)' <=> IsLast(o, j)
  <2>1. \A j \in Ids : Visible(j) => j # i
    BY <1>4, OutboxAssumption DEF Ids
  <2> QED BY <1>3, <1>4, <2>1, SameRows
<1>6. \A f \in Editors : Editing(f)' => Editing(f) /\ edit'[f].owner = edit[f].owner
                                          /\ edit'[f].doomed = edit[f].doomed
  BY <1>1, <1>2, <1>3 DEF Editing
<1>7. EditsApart' /\ AllLinksDoomed'
  BY <1>1, <1>6 DEF EditInv, EditsApart, AllLinksDoomed
<1>8. RowIsLatest'
  <2>1. \A f \in Editors : \A j \in Ids : Owns(f, j)' => IF f = e THEN j = i ELSE Owns(f, j)
    BY <1>2, <1>3 DEF Owns, Editing
  <2>2. \A f \in Editors : \A j \in Ids : Owns(f, j) => j # i
    BY <1>1, OutboxAssumption DEF IndInv, EditsSound, Ids
  <2>3. \A j \in RowsOf(edit[e].owner) : j < i
    BY <1>4 DEF RowsOf
  <2> QED BY <1>1, <1>2, <1>3, <1>5, <2>1, <2>2, <2>3 DEF EditInv, RowIsLatest
<1>9. LinksFollowLast'
  <2>1. \A o, j : IsLast(o, j) => j \in Ids /\ Visible(j)
    BY DEF IsLast, RowsOf
  <2> QED BY <1>1, <1>5, <2>1 DEF EditInv, LinksFollowLast
<1> QED BY <1>7, <1>8, <1>9 DEF EditInv

\* Transactions end, their rows with them; nobody else notices.
LEMMA EditInvUndone ==
    ASSUME IndInv, EditInv,
           \A f \in Editors : Editing(f)' => Editing(f) /\ edit'[f] = edit[f],
           \A i \in Ids : Visible(i)' <=> Visible(i),
           \A i \in Ids : Visible(i) => outbox'[i] = outbox[i],
           \A f \in Editors : \A i \in Ids : Owns(f, i)' => outbox'[i] = outbox[i],
           UNCHANGED <<domain, overlapped>>
    PROVE  EditInv'
<1>1. \A o : RowsOf(o)' = RowsOf(o) /\ \A i : IsLast(o, i)' <=> IsLast(o, i)
  BY SameRows
<1>2. EditsApart' /\ AllLinksDoomed'
  BY DEF EditInv, EditsApart, AllLinksDoomed, domain
<1>3. RowIsLatest'
  BY <1>1 DEF EditInv, RowIsLatest, Owns
<1>4. LinksFollowLast'
  BY <1>1 DEF EditInv, LinksFollowLast, IsLast, RowsOf, domain
<1> QED BY <1>2, <1>3, <1>4 DEF EditInv

LEMMA EditInvRollback ==
    ASSUME IndInv, EditInv, NEW e \in Editors, EditRollback(e)
    PROVE  EditInv'
<1>1. /\ Editing(e) /\ UNCHANGED <<domain, overlapped>>
      /\ outbox' = [i \in Ids |-> IF i = edit[e].row THEN None ELSE outbox[i]]
      /\ edit' = [edit EXCEPT ![e] = None]
  BY DEF EditRollback, history
<1>2. edit'[e] = None /\ \A f \in Editors : f # e => edit'[f] = edit[f]
  BY <1>1 DEF IndInv, TypeOK
<1>3. \A f \in Editors : Editing(f)' => Editing(f) /\ edit'[f] = edit[f] /\ f # e
  BY <1>2 DEF Editing
<1>4. \A i \in Ids : i = edit[e].row => Owns(e, i) /\ ~Visible(i)
  BY <1>1 DEF Owns, IndInv, EditsSound, Visible
<1>5. /\ \A i \in Ids : Visible(i)' <=> Visible(i)
      /\ \A i \in Ids : Visible(i) => outbox'[i] = outbox[i]
  BY <1>1, <1>4 DEF Visible
<1>6. \A f \in Editors : \A i \in Ids : Owns(f, i)' => outbox'[i] = outbox[i]
  <2>1. \A f \in Editors : \A i \in Ids : Owns(f, i)' => Owns(f, i) /\ f # e
    BY <1>3 DEF Owns
  <2>2. \A f \in Editors : \A i \in Ids : Owns(f, i)' => i # edit[e].row
    BY <1>4, <2>1 DEF IndInv, EditsSound
  <2> QED BY <1>1, <2>2
<1> QED BY <1>1, <1>3, <1>5, <1>6, EditInvUndone

LEMMA EditInvRestart ==
    ASSUME IndInv, EditInv, Restart
    PROVE  EditInv'
<1>1. \A f \in Editors : ~Editing(f)' /\ \A i \in Ids : ~Owns(f, i)'
  BY DEF Restart, Editing, Owns
<1>2. /\ \A i \in Ids : Visible(i)' <=> Visible(i)
      /\ \A i \in Ids : Visible(i) => outbox'[i] = outbox[i]
  BY DEF Restart, Visible
<1>3. UNCHANGED <<domain, overlapped>>
  BY DEF Restart, history
<1> QED BY <1>1, <1>2, <1>3, EditInvUndone

LEMMA EditInvRemoveTopic ==
    ASSUME IndInv, EditInv, NEW x \in Topics, RemoveTopic(x)
    PROVE  EditInv'
<1>1. /\ UNCHANGED <<outbox, edit, overlapped>>
      /\ topics' = topics \ {x}
      /\ \A o \in Owners : links'[o] = links[o] \ {x}
  BY DEF RemoveTopic, history
<1>2. \A o : RowsOf(o)' = RowsOf(o) /\ \A i : IsLast(o, i)' <=> IsLast(o, i)
  BY <1>1, SameRows DEF Visible
<1>3. EditsApart'
  BY <1>1 DEF EditInv, EditsApart, Editing
<1>4. RowIsLatest'
  BY <1>1, <1>2 DEF EditInv, RowIsLatest, Owns, Editing
<1>5. AllLinksDoomed'
  <2>1. \A e \in Editors : Editing(e) => edit[e].owner \in Owners
    BY DEF Editing, IndInv, TypeOK, Edit
  <2> QED BY <1>1, <2>1 DEF EditInv, AllLinksDoomed, Editing
<1>6. LinksFollowLast'
  BY <1>1, <1>2 DEF EditInv, LinksFollowLast
<1> QED BY <1>3, <1>4, <1>5, <1>6 DEF EditInv

\* The commit publishes the latest row of its owner, with the links it says.
LEMMA EditInvCommit ==
    ASSUME IndInv, EditInv, NEW e \in Editors, EditCommit(e)
    PROVE  EditInv'
<1>a. PICK i, own, said : /\ i = edit[e].row
                         /\ own = edit[e].owner
                         /\ said = edit[e].topicIds
  OBVIOUS
<1>b. PICK row : row = [owner |-> outbox[i].owner, topicIds |-> outbox[i].topicIds,
                        status |-> "PENDING", attempts |-> 0]
  OBVIOUS
<1>1. /\ Editing(e) /\ edit[e] \in Edit /\ i \in Ids /\ own \in Owners
      /\ said \subseteq topics
      /\ links' = [links EXCEPT ![own] = (links[own] \ edit[e].doomed) \cup said]
      /\ outbox' = [outbox EXCEPT ![i] = row]
      /\ edit' = [edit EXCEPT ![e] = None]
      /\ UNCHANGED <<topics, overlapped>>
  BY <1>a, <1>b DEF EditCommit, SetStatus, IndInv, TypeOK, Editing, Edit, history
<1>2. Owns(e, i) /\ ~Visible(i)
  BY <1>1, <1>a DEF Owns, IndInv, EditsSound, Visible
<1>3. outbox[i].owner = own /\ outbox[i].topicIds = said
  BY <1>1, <1>2, <1>a DEF EditInv, RowIsLatest
<1>4. /\ row.owner = own /\ row.topicIds = said /\ row.status = "PENDING" /\ row # None
  <2>1. outbox[i] \in Row
    BY <1>1, <1>2 DEF IndInv, EditsSound, TypeOK
  <2>2. row \in Row
    BY <1>b, <2>1, OutboxAssumption DEF Row, RowStatus
  <2> QED BY <1>b, <1>3, <2>2, NoneAssumption
<1>5. own \notin overlapped => /\ \A j \in RowsOf(own) : j < i
                               /\ links[own] \subseteq edit[e].doomed
                               /\ \A f \in Editors : Editing(f) /\ edit[f].owner = own => f = e
  BY <1>1, <1>2, <1>a DEF EditInv, RowIsLatest, AllLinksDoomed, EditsApart
<1>6. /\ own \notin overlapped => links'[own] = said \cap topics
      /\ \A o \in Owners : o # own => links'[o] = links[o]
  BY <1>1, <1>5 DEF IndInv, TypeOK
<1>7. /\ outbox'[i] = row /\ \A j \in Ids : j # i => outbox'[j] = outbox[j]
      /\ edit'[e] = None /\ \A f \in Editors : f # e => edit'[f] = edit[f]
  BY <1>1 DEF IndInv, TypeOK
<1>8. \A j \in Ids : Visible(j)' <=> Visible(j) \/ j = i
  BY <1>2, <1>4, <1>7 DEF Visible
<1>9. /\ \A o : o # own => RowsOf(o)' = RowsOf(o)
      /\ RowsOf(own)' = RowsOf(own) \cup {i}
  BY <1>1, <1>2, <1>4, <1>7, <1>8 DEF RowsOf
<1>10. \A f \in Editors : Editing(f)' => Editing(f) /\ f # e /\ edit'[f] = edit[f]
  BY <1>7 DEF Editing
<1>11. EditsApart'
  BY <1>1, <1>10 DEF EditInv, EditsApart
<1>12. AllLinksDoomed'
  <2>1. \A f \in Editors : Editing(f) => edit[f].owner \in Owners
    BY DEF Editing, IndInv, TypeOK, Edit
  <2>2. \A f \in Editors : Editing(f)' /\ edit'[f].owner \notin overlapped' =>
            links'[edit'[f].owner] = links[edit[f].owner]
    BY <1>1, <1>5, <1>6, <1>10, <2>1
  <2> QED BY <1>1, <1>10, <2>2 DEF EditInv, AllLinksDoomed
<1>13. RowIsLatest'
  <2>1. \A f \in Editors : \A j \in Ids : Owns(f, j)' =>
            Owns(f, j) /\ Editing(f)' /\ f # e /\ j # i /\ edit'[f] = edit[f]
    BY <1>2, <1>10 DEF Owns, IndInv, EditsSound, Editing
  <2>2. \A f \in Editors : Editing(f)' /\ edit[f].owner \notin overlapped =>
            RowsOf(edit[f].owner)' = RowsOf(edit[f].owner)
    BY <1>1, <1>5, <1>9, <1>10
  <2> QED BY <1>1, <1>7, <2>1, <2>2 DEF EditInv, RowIsLatest
<1>14. LinksFollowLast'
  <2> SUFFICES ASSUME NEW o \in Owners \ overlapped, NEW j \in Ids, IsLast(o, j)'
               PROVE  links'[o] = outbox'[j].topicIds \cap topics
    BY <1>1 DEF LinksFollowLast
  <2>1. CASE o = own
    <3>1. i <= j /\ j \in RowsOf(own) \cup {i}
      BY <1>9, <2>1 DEF IsLast
    <3>2. \A k \in RowsOf(own) : k < i
      BY <1>5, <2>1
    <3>3. j = i
      BY <1>1, <3>1, <3>2, OutboxAssumption DEF Ids
    <3> QED BY <1>4, <1>6, <1>7, <2>1, <3>3
  <2>2. CASE o # own
    <3>1. IsLast(o, j) /\ Visible(j)
      BY <1>9, <2>2 DEF IsLast, RowsOf
    <3>2. outbox'[j] = outbox[j]
      BY <1>2, <1>7, <3>1
    <3> QED BY <1>6, <2>2, <3>1, <3>2 DEF EditInv, LinksFollowLast
  <2> QED BY <2>1, <2>2
<1> QED BY <1>11, <1>12, <1>13, <1>14 DEF EditInv

LEMMA NextEditInv == IndInv /\ EditInv /\ [Next]_vars => EditInv'
<1> SUFFICES ASSUME IndInv, EditInv, [Next]_vars PROVE EditInv'
  OBVIOUS
<1>1. ASSUME NEW e \in Editors, EditStep(e) PROVE EditInv'
  BY <1>1, EditInvDelete, EditInvEnqueue, EditInvCommit, EditInvRollback DEF EditStep
<1>2. ASSUME NEW x \in Topics, RemoveTopic(x) PROVE EditInv'
  BY <1>2, EditInvRemoveTopic
<1>3. ASSUME NEW t \in Ticks, Tick(t) \/ RunStep(t) PROVE EditInv'
  BY <1>3, EditInvRunStep
<1>4. CASE Restart
  BY <1>4, EditInvRestart
<1>5. CASE UNCHANGED vars
  <2>1. SamePayloads /\ UNCHANGED <<domain, edit, overlapped>>
    BY <1>5, SilentRuns DEF vars, history
  <2> QED BY <2>1, EditInvUnderRuns
<1> QED BY <1>1, <1>2, <1>3, <1>4, <1>5 DEF Next

-----------------------------------------------------------------------------
(***************************************************************************)
(* The runs and the graph.                                                 *)
(***************************************************************************)

\* Nobody's rows change, and runs at most stop or fail.
LEMMA RunInvCalm ==
    ASSUME IndInv, RunInv,
           \A i \in Ids : Visible(i)' <=> Visible(i),
           \A i \in Ids : Visible(i) => outbox'[i] = outbox[i],
           \A t \in Ticks : Running(t)' =>
               /\ Running(t)
               /\ tick'[t].batch = tick[t].batch
               /\ tick'[t].step = "add" => tick'[t] = tick[t],
           overlapped \subseteq overlapped', UNCHANGED graph
    PROVE  RunInv'
<1>1. \A o : RowsOf(o)' = RowsOf(o) /\ \A i : IsLast(o, i)' <=> IsLast(o, i)
  BY SameRows
<1>2. \A o : \A i \in RowsOf(o) : outbox'[i] = outbox[i] /\ i \in Ids
  BY DEF RowsOf
<1>3. BatchIsPrefix'
  BY <1>1, <1>2 DEF RunInv, BatchIsPrefix, Untried
<1>4. Halfway'
  <2> SUFFICES ASSUME NEW t \in Ticks, At(t, "add")'
               PROVE  (graph[outbox[Current(t)].owner] \cup tick[t].todo
                          = outbox[Current(t)].topicIds)'
    BY DEF Halfway
  <2>1. At(t, "add") /\ tick'[t] = tick[t]
    BY DEF At, Running
  <2>2. Current(t)' = Current(t) /\ outbox'[Current(t)] = outbox[Current(t)]
    BY <2>1, CurrentRow DEF At, Current
  <2> QED BY <2>1, <2>2 DEF RunInv, Halfway
<1>5. NoOvertaking'
  BY <1>1, <1>2 DEF RunInv, NoOvertaking
<1>6. GraphFollowsLast'
  <2>1. \A o : AtFirstAttempt(o)' <=> AtFirstAttempt(o)
    BY <1>1, <1>2 DEF AtFirstAttempt
  <2>2. \A o, i : IsLast(o, i) => i \in RowsOf(o)
    BY DEF IsLast
  <2> QED BY <1>1, <1>2, <2>1, <2>2 DEF RunInv, GraphFollowsLast
<1> QED BY <1>3, <1>4, <1>5, <1>6 DEF RunInv

LEMMA RunInvQuiet ==
    ASSUME IndInv, RunInv, NEW e \in Editors,
           \/ \E o \in Owners, S \in SUBSET Topics : EditDelete(e, o, S)
           \/ \E i \in Ids : EditEnqueue(e, i)
           \/ EditRollback(e)
    PROVE  RunInv'
<1>1. Quiet
  BY DEF Quiet
<1>2. /\ \A i \in Ids : Visible(i) => outbox'[i] = outbox[i]
      /\ \A i \in Ids : Visible(i)' <=> Visible(i)
  BY <1>1, QuietKeeps DEF RowsKept, NoneNew, Visible
<1>3. UNCHANGED <<tick, graph>> /\ overlapped \subseteq overlapped'
  BY DEF EditDelete, EditEnqueue, EditRollback, worker, history
<1> QED BY <1>2, <1>3, RunInvCalm DEF Running

LEMMA RunInvRemoveTopic ==
    ASSUME IndInv, RunInv, NEW x \in Topics, RemoveTopic(x)
    PROVE  RunInv'
BY RunInvCalm DEF RemoveTopic, worker, history, Visible, Running

LEMMA RunInvRestart ==
    ASSUME IndInv, RunInv, Restart
    PROVE  RunInv'
<1>1. /\ \A i \in Ids : Visible(i)' <=> Visible(i)
      /\ \A i \in Ids : Visible(i) => outbox'[i] = outbox[i]
  BY DEF Restart, Visible
<1>2. \A t \in Ticks : ~Running(t)'
  BY DEF Restart, Running
<1> QED BY <1>1, <1>2, RunInvCalm DEF Restart, history

LEMMA RunInvFails ==
    ASSUME IndInv, RunInv, NEW t \in Ticks, StatementFails(t) \/ CountFails(t)
    PROVE  RunInv'
<1>1. UNCHANGED <<outbox, graph, overlapped>> /\ Running(t)
  BY DEF StatementFails, CountFails, history, At
<1>2. \A s \in Ticks : s # t => ~Running(s)
  BY <1>1 DEF IndInv, OneRunWithFreshBatch
<1>3. \A s \in Ticks : Running(s)' =>
          Running(s) /\ tick'[s].batch = tick[s].batch /\ tick'[s].step # "add"
  <2>1. CASE StatementFails(t)
    <3>1. PICK run : run = [batch |-> tick[t].batch, seen |-> tick[t].seen,
                            step |-> "count", todo |-> {}]
      OBVIOUS
    <3>2. tick' = [tick EXCEPT ![t] = run]
      BY <2>1, <3>1 DEF StatementFails, Goto
    <3>3. tick'[t] = run /\ \A s \in Ticks : s # t => tick'[s] = tick[s]
      BY <3>2 DEF IndInv, TypeOK
    <3> QED BY <1>1, <1>2, <3>1, <3>3 DEF Running
  <2>2. CASE CountFails(t)
    BY <1>2, <2>2 DEF CountFails, EndTick, Running, IndInv, TypeOK
  <2> QED BY <2>1, <2>2
<1> QED BY <1>1, <1>3, RunInvCalm DEF Visible

LEMMA RunInvTick ==
    ASSUME IndInv, RunInv, NEW t \in Ticks, Tick(t)
    PROVE  RunInv'
<1>1. PICK B \in SUBSET Pending :
        /\ IsBatch(B)
        /\ tick' = [tick EXCEPT ![t] =
                      [batch |-> B,
                       seen |-> [i \in Ids |-> IF i \in B THEN outbox[i].attempts ELSE 0],
                       step |-> "clear",
                       todo |-> {}]]
  BY DEF Tick, ReadBatch
<1>2. /\ ~busy /\ UNCHANGED <<outbox, graph, overlapped>>
  BY DEF Tick, history
<1>3. \A s \in Ticks : Running(s)' =>
          s = t /\ tick'[s].batch = B /\ tick'[s].step = "clear"
  BY <1>1, <1>2 DEF IndInv, TypeOK, OneRunWithFreshBatch, Running
<1>4. \A o : RowsOf(o)' = RowsOf(o) /\ \A i : IsLast(o, i)' <=> IsLast(o, i)
  BY <1>2, SameRows DEF Visible
<1>5. BatchIsPrefix'
  <2> SUFFICES ASSUME NEW o, NEW i \in RowsOf(o), NEW j \in RowsOf(o),
                      i < j, j \in B, Untried(i)
               PROVE  i \in B
    BY <1>2, <1>3, <1>4 DEF BatchIsPrefix, Untried
  <2>1. i \in Pending /\ i \in Ids /\ j \in Ids
    BY DEF RowsOf, Untried, Pending, Visible
  <2>2. i \notin B => j < i
    BY <1>1, <2>1 DEF IsBatch
  <2> QED BY <2>1, <2>2, OutboxAssumption DEF Ids
<1>6. Halfway'
  BY <1>3 DEF Halfway, At
<1>7. NoOvertaking' /\ GraphFollowsLast'
  BY <1>2, <1>4 DEF RunInv, NoOvertaking, GraphFollowsLast, AtFirstAttempt
<1> QED BY <1>5, <1>6, <1>7 DEF RunInv

\* One edge more, or none left: what is on the graph and what is still to be
\* done add up to what the row says.
LEMMA RunInvApplies ==
    ASSUME IndInv, RunInv, NEW t \in Ticks, Clear(t) \/ \E x \in Topics : AddEdge(t, x)
    PROVE  RunInv'
<1>1. PICK i, own : i = Current(t) /\ own = outbox[i].owner
  OBVIOUS
<1>2. Running(t) /\ UNCHANGED <<outbox, overlapped>>
  BY DEF Clear, AddEdge, At
<1>3. /\ i \in Ids /\ Visible(i) /\ outbox[i].status = "PENDING" /\ own \in Owners
      /\ tick[t] \in Run
  BY <1>1, <1>2, CurrentRow DEF Row
<1>4. PICK todo, run :
        /\ run = [batch |-> tick[t].batch, seen |-> tick[t].seen, step |-> "add", todo |-> todo]
        /\ tick' = [tick EXCEPT ![t] = run]
        /\ graph'[own] \cup todo = outbox[i].topicIds
        /\ \A o \in Owners : o # own => graph'[o] = graph[o]
  <2>1. CASE Clear(t)
    BY <1>1, <1>3, <2>1 DEF Clear, Goto, IndInv, TypeOK
  <2>2. ASSUME NEW x \in Topics, AddEdge(t, x)
        PROVE  /\ graph'[own] \cup (tick[t].todo \ {x}) = outbox[i].topicIds
               /\ \A o \in Owners : o # own => graph'[o] = graph[o]
    <3>1. graph[own] \cup tick[t].todo = outbox[i].topicIds
      BY <1>1, <2>2 DEF AddEdge, RunInv, Halfway
    <3>2. x \in tick[t].todo /\ graph' = [graph EXCEPT ![own] = @ \cup {x}]
      BY <1>1, <2>2 DEF AddEdge
    <3>3. graph'[own] = graph[own] \cup {x}
      BY <1>3, <3>2 DEF IndInv, TypeOK
    <3>4. \A o \in Owners : o # own => graph'[o] = graph[o]
      BY <3>2 DEF IndInv, TypeOK
    <3> QED BY <3>1, <3>2, <3>3, <3>4
  <2>3. ASSUME NEW x \in Topics, AddEdge(t, x)
        PROVE  tick' = [tick EXCEPT ![t] =
                          [batch |-> tick[t].batch, seen |-> tick[t].seen, step |-> "add",
                           todo |-> tick[t].todo \ {x}]]
    BY <2>3 DEF AddEdge, Goto
  <2> QED BY <2>1, <2>2, <2>3
<1>5. /\ run.batch = tick[t].batch /\ run.todo = todo
      /\ tick'[t] = run /\ \A s \in Ticks : s # t => ~Running(s)'
  <2>1. \A s \in Ticks : s # t => ~Running(s)
    BY <1>2 DEF IndInv, OneRunWithFreshBatch
  <2> QED BY <1>4, <2>1 DEF IndInv, TypeOK, Running
<1>6. \A o : RowsOf(o)' = RowsOf(o) /\ \A j : IsLast(o, j)' <=> IsLast(o, j)
  BY <1>2, SameRows DEF Visible
<1>7. BatchIsPrefix'
  BY <1>2, <1>5, <1>6 DEF RunInv, BatchIsPrefix, Untried, Running
<1>8. Halfway'
  <2>1. Current(t)' = i
    BY <1>1, <1>5 DEF Current
  <2>2. \A s \in Ticks : At(s, "add")' => s = t
    BY <1>5 DEF At
  <2> QED BY <1>1, <1>2, <1>4, <1>5, <2>1, <2>2 DEF Halfway
<1>9. NoOvertaking'
  BY <1>2, <1>6 DEF RunInv, NoOvertaking
<1>10. GraphFollowsLast'
  <2>1. ~AtFirstAttempt(own) /\ \A o : AtFirstAttempt(o)' <=> AtFirstAttempt(o)
    BY <1>1, <1>2, <1>3, <1>6 DEF AtFirstAttempt, RowsOf
  <2> QED BY <1>2, <1>4, <1>6, <2>1 DEF RunInv, GraphFollowsLast
<1> QED BY <1>7, <1>8, <1>9, <1>10 DEF RunInv

\* What a commit publishes is later than every other row of its owner.
LEMMA RunInvCommit ==
    ASSUME IndInv, EditInv, RunInv, NEW e \in Editors, EditCommit(e)
    PROVE  RunInv'
<1>1. PICK i, own : i = edit[e].row /\ own = edit[e].owner
  OBVIOUS
<1>2. Owns(e, i) /\ i \in Ids /\ ~Visible(i)
  BY <1>1 DEF EditCommit, Owns, Editing, IndInv, TypeOK, Edit, EditsSound, Visible
<1>3. PICK k \in Ids : /\ ~Visible(k) /\ Visible(k)' /\ outbox'[k].status = "PENDING"
                       /\ \A j \in Ids : j # k => outbox'[j] = outbox[j]
  BY CommitPublishes
<1>4. outbox'[i].owner = own /\ k = i
  <2>1. outbox' = [outbox EXCEPT ![i] = [owner |-> outbox[i].owner,
                                         topicIds |-> outbox[i].topicIds,
                                         status |-> "PENDING", attempts |-> 0]]
    BY <1>1 DEF EditCommit, SetStatus
  <2>2. outbox'[i].owner = own /\ outbox'[i].status = "PENDING"
    BY <1>1, <1>2, <2>1 DEF IndInv, TypeOK, EditInv, RowIsLatest
  <2>3. outbox[i].status = "UNCOMMITTED"
    BY <1>2 DEF IndInv, EditsSound
  <2> QED BY <1>2, <1>3, <2>2, <2>3
<1>5. UNCHANGED <<tick, graph, overlapped>>
  BY DEF EditCommit, worker, history
<1>6. own \notin overlapped => \A j \in RowsOf(own) : j < i
  BY <1>1, <1>2 DEF EditInv, RowIsLatest
<1>7. /\ \A o : o # own => RowsOf(o)' = RowsOf(o)
      /\ RowsOf(own)' = RowsOf(own) \cup {i}
      /\ \A o : \A j \in RowsOf(o) : outbox'[j] = outbox[j] /\ j \in Ids /\ j # i
  BY <1>2, <1>3, <1>4 DEF RowsOf, Visible
<1>8. \A o \in Owners \ overlapped : \A j \in RowsOf(o)' : \A l \in RowsOf(o)' :
          j < l => j \in RowsOf(o) /\ l \in RowsOf(o)'
  BY <1>2, <1>5, <1>6, <1>7, OutboxAssumption DEF Ids
<1>9. BatchIsPrefix'
  <2>1. \A s \in Ticks : Running(s) => tick[s].batch \subseteq Pending
    BY CurrentRow
  <2>2. \A s \in Ticks : Running(s) => i \notin tick[s].batch
    BY <1>2, <2>1 DEF Pending, Visible
  <2>3. \A o : \A j \in RowsOf(o) : Untried(j)' <=> Untried(j)
    BY <1>7 DEF Untried
  <2> QED BY <1>5, <1>7, <1>8, <2>2, <2>3 DEF RunInv, BatchIsPrefix, Running
<1>10. Halfway'
  <2>1. \A s \in Ticks : At(s, "add") =>
            Current(s)' = Current(s) /\ outbox'[Current(s)] = outbox[Current(s)]
    BY <1>2, <1>3, <1>4, <1>5, CurrentRow DEF At, Current
  <2> QED BY <1>5, <2>1 DEF RunInv, Halfway, At, Running
<1>11. NoOvertaking'
  BY <1>3, <1>4, <1>5, <1>7, <1>8 DEF RunInv, NoOvertaking
<1>12. GraphFollowsLast'
  <2>1. ~AtFirstAttempt(own)'
    BY <1>3, <1>4, <1>7 DEF AtFirstAttempt
  <2>2. \A o : o # own =>
            /\ AtFirstAttempt(o)' <=> AtFirstAttempt(o)
            /\ \A j : IsLast(o, j)' <=> IsLast(o, j)
    BY <1>7 DEF AtFirstAttempt, IsLast
  <2>3. \A o, j : IsLast(o, j) => j \in RowsOf(o)
    BY DEF IsLast
  <2> QED BY <1>5, <1>7, <2>1, <2>2, <2>3 DEF RunInv, GraphFollowsLast
<1> QED BY <1>9, <1>10, <1>11, <1>12 DEF RunInv

LEMMA BatchShrinks ==
    ASSUME IndInv, NEW t \in Ticks, Running(t), NextInBatch(t)
    PROVE  \A s \in Ticks : Running(s)' =>
               /\ s = t /\ tick'[s].step = "clear"
               /\ tick'[s].batch = tick[t].batch \ {Current(t)}
<1>1. \A s \in Ticks : s # t => ~Running(s)
  BY DEF IndInv, OneRunWithFreshBatch
<1>2. PICK rest : rest = tick[t].batch \ {Current(t)}
  OBVIOUS
<1>3. CASE rest = {}
  BY <1>1, <1>2, <1>3 DEF NextInBatch, EndTick, Running, IndInv, TypeOK
<1>4. CASE rest # {}
  <2>1. PICK run : run = [batch |-> rest, seen |-> tick[t].seen, step |-> "clear", todo |-> {}]
    OBVIOUS
  <2>2. tick' = [tick EXCEPT ![t] = run]
    BY <1>2, <1>4, <2>1 DEF NextInBatch
  <2> QED BY <1>1, <1>2, <2>1, <2>2 DEF Running, IndInv, TypeOK
<1> QED BY <1>3, <1>4

\* The row at hand is the oldest of its batch, so what it overtakes has been
\* tried already; if it is processed at its first attempt and its owner has
\* nothing else to do, it is the last one.
LEMMA RunInvResolves ==
    ASSUME IndInv, RunInv, NEW t \in Ticks, MarkProcessed(t) \/ CountAttempt(t)
    PROVE  RunInv'
<1>1. PICK i, own : i = Current(t) /\ own = outbox[i].owner
  OBVIOUS
<1>2. Running(t) /\ NextInBatch(t) /\ UNCHANGED <<graph, overlapped>>
  BY DEF MarkProcessed, CountAttempt, At, history
<1>3. /\ i \in Ids /\ Visible(i) /\ outbox[i].status = "PENDING" /\ own \in Owners
      /\ i \in tick[t].batch /\ tick[t].batch \subseteq Ids /\ outbox[i] \in Row
      /\ tick[t].seen[i] \in 0 .. (MaxAttempts - 1)
  BY <1>1, <1>2, CurrentRow DEF Row, Run
<1>4. \A j \in tick[t].batch : i <= j
  <2>1. tick[t].batch \subseteq Nat /\ tick[t].batch # {}
    BY <1>3, OutboxAssumption DEF Ids
  <2>2. \E k \in tick[t].batch : \A j \in tick[t].batch : k <= j
    BY <2>1, OldestExists
  <2> QED BY <1>1, <2>2 DEF Current, First
<1>5. PICK status \in {"PENDING", "PROCESSED", "FAILED"}, attempts \in 0 .. MaxAttempts :
        /\ Rewrites(i, status, attempts)
        /\ IF MarkProcessed(t)
             THEN status = "PROCESSED" /\ attempts = outbox[i].attempts
                  /\ graph[own] = outbox[i].topicIds
             ELSE status # "PROCESSED" /\ attempts > 0
  <2>1. CASE MarkProcessed(t)
    <3>1. outbox[i].attempts \in 0 .. MaxAttempts
      BY <1>3 DEF Row
    <3>2. Rewrites(i, "PROCESSED", outbox[i].attempts)
      BY <1>1, <1>2, <2>1, <3>1, RunRewrites DEF MarkProcessed, RowStatus
    <3>3. graph[own] = outbox[i].topicIds
      BY <1>1, <2>1 DEF MarkProcessed, RunInv, Halfway
    <3> QED BY <2>1, <3>1, <3>2, <3>3
  <2>2. CASE ~MarkProcessed(t)
    <3>1. PICK attempts \in 1 .. MaxAttempts : attempts = tick[t].seen[i] + 1
      BY <1>3, OutboxAssumption
    <3>2. PICK status \in {"PENDING", "FAILED"} :
              status = IF attempts >= MaxAttempts THEN "FAILED" ELSE "PENDING"
      OBVIOUS
    <3>3. SetStatus(i, status, attempts)
      BY <1>1, <2>2, <3>1, <3>2 DEF CountAttempt
    <3>4. Rewrites(i, status, attempts)
      BY <1>1, <1>2, <3>1, <3>3, RunRewrites, OutboxAssumption DEF RowStatus
    <3> QED BY <2>2, <3>1, <3>4, OutboxAssumption
  <2> QED BY <2>1, <2>2
<1>6. /\ \A j \in Ids : j # i => outbox'[j] = outbox[j]
      /\ outbox'[i].status = status /\ outbox'[i].attempts = attempts
      /\ outbox'[i].topicIds = outbox[i].topicIds
  BY <1>5 DEF Rewrites
<1>7. \A o : RowsOf(o)' = RowsOf(o) /\ \A j : IsLast(o, j)' <=> IsLast(o, j)
  BY <1>5, RewriteKeepsPayloads, SameRows DEF SamePayloads
<1>8. \A o : \A j \in RowsOf(o) : /\ j \in Ids
                                  /\ j = i => o = own
                                  /\ j # i => outbox'[j] = outbox[j]
  BY <1>1, <1>6 DEF RowsOf
<1>9. BatchIsPrefix'
  <2>1. \A s \in Ticks : Running(s)' => s = t /\ tick'[s].batch = tick[t].batch \ {i}
    BY <1>1, <1>2, BatchShrinks
  <2>2. ~Untried(i)' /\ \A o : \A j \in RowsOf(o) : Untried(j)' => Untried(j) /\ j # i
    BY <1>5, <1>6, <1>8 DEF Untried
  <2> QED BY <1>2, <1>7, <2>1, <2>2 DEF RunInv, BatchIsPrefix
<1>10. Halfway'
  BY <1>2, BatchShrinks DEF Halfway, At
<1>11. NoOvertaking'
  <2> SUFFICES ASSUME NEW o \in Owners \ overlapped, NEW j \in RowsOf(o), NEW k \in RowsOf(o),
                      j < k, outbox'[k].status = "PROCESSED"
               PROVE  outbox'[j].status # "PENDING" \/ outbox'[j].attempts > 0
    BY <1>2, <1>7 DEF NoOvertaking
  <2>1. CASE j = i
    BY <1>5, <1>6, <2>1
  <2>2. CASE j # i /\ k # i
    BY <1>8, <2>2 DEF RunInv, NoOvertaking
  <2>3. CASE j # i /\ k = i
    <3>1. j \notin tick[t].batch
      BY <1>3, <1>4, <1>8, <2>3, OutboxAssumption DEF Ids
    <3>2. ~Untried(j)
      BY <1>2, <1>3, <2>3, <3>1 DEF RunInv, BatchIsPrefix
    <3>3. outbox[j].attempts \in Nat
      BY OutboxAssumption DEF IndInv, TypeOK, RowsOf, Visible, Row
    <3> QED BY <1>8, <2>3, <3>2, <3>3 DEF Untried
  <2> QED BY <2>1, <2>2, <2>3
<1>12. GraphFollowsLast'
  <2> SUFFICES ASSUME NEW o \in Owners \ overlapped, NEW l \in RowsOf(o),
                      IsLast(o, l), AtFirstAttempt(o)'
               PROVE  graph[o] = outbox'[l].topicIds
    BY <1>2, <1>7 DEF GraphFollowsLast, IsLast
  <2>1. \A j \in RowsOf(o) : outbox'[j].status = "PROCESSED" /\ outbox'[j].attempts = 0
    BY <1>7 DEF AtFirstAttempt
  <2>2. CASE o # own
    BY <1>8, <2>1, <2>2 DEF RunInv, GraphFollowsLast, AtFirstAttempt
  <2>3. CASE o = own
    <3>1. i \in RowsOf(o)
      BY <1>1, <1>3, <2>3 DEF RowsOf
    <3>2. status = "PROCESSED" /\ outbox[i].attempts = 0
      BY <1>5, <1>6, <2>1, <3>1
    <3>3. graph[own] = outbox[i].topicIds
      BY <1>5, <3>2
    <3>4. ASSUME i < l PROVE FALSE
      <4>1. l # i /\ outbox[l].status = "PROCESSED"
        BY <1>3, <1>8, <2>1, <3>4, OutboxAssumption DEF Ids
      <4>2. outbox[i].status # "PENDING" \/ outbox[i].attempts > 0
        BY <3>1, <3>4, <4>1 DEF RunInv, NoOvertaking
      <4> QED BY <1>3, <3>2, <4>2
    <3>5. i <= l
      BY <3>1 DEF IsLast
    <3>6. l = i
      BY <1>3, <1>8, <3>4, <3>5, OutboxAssumption DEF Ids
    <3> QED BY <1>6, <2>3, <3>3, <3>6
  <2> QED BY <2>2, <2>3
<1> QED BY <1>9, <1>10, <1>11, <1>12 DEF RunInv

LEMMA NextOrderInv == OrderInv /\ [Next]_vars => OrderInv'
<1> SUFFICES ASSUME IndInv, EditInv, RunInv, [Next]_vars PROVE OrderInv'
  BY DEF OrderInv
<1>1. IndInv' /\ EditInv'
  BY NextIndInv, NextEditInv
<1>2. ASSUME NEW e \in Editors, EditStep(e) PROVE RunInv'
  BY <1>2, RunInvQuiet, RunInvCommit DEF EditStep
<1>3. ASSUME NEW x \in Topics, RemoveTopic(x) PROVE RunInv'
  BY <1>3, RunInvRemoveTopic
<1>4. ASSUME NEW t \in Ticks, Tick(t) \/ RunStep(t) PROVE RunInv'
  BY <1>4, RunInvTick, RunInvApplies, RunInvResolves, RunInvFails DEF RunStep
<1>5. ASSUME Restart PROVE RunInv'
  BY <1>5, RunInvRestart
<1>6. ASSUME UNCHANGED vars PROVE RunInv'
  BY <1>6, RunInvCalm DEF vars, worker, history, Visible, Running
<1>7. RunInv'
  BY <1>2, <1>3, <1>4, <1>5, <1>6 DEF Next
<1> QED BY <1>1, <1>7 DEF OrderInv

LEMMA OrderInvariance == Spec => []OrderInv
BY InitOrderInv, NextOrderInv, PTL DEF Spec

\* Rows of an owner reach the graph in the order in which they were written,
\* through any interleaving of transactions, batches, failures and crashes,
\* and none is given up before its attempts are used up.
THEOREM InOrder == Spec => []SettledInOrder
<1>1. OrderInv => SettledInOrder
  BY DEF OrderInv, IndInv, RunInv, SettledInOrder
<1> QED BY <1>1, OrderInvariance, PTL

LEMMA LatestExists ==
    ASSUME NEW B, B \subseteq Ids, B # {}
    PROVE  \E i \in B : \A j \in B : j <= i
<1> DEFINE C == {MaxRows - i : i \in B}
<1>1. C \subseteq Nat /\ C # {}
  <2>1. \A i \in B : MaxRows - i \in Nat
    BY OutboxAssumption DEF Ids
  <2> QED BY <2>1
<1>2. PICK c \in C : \A d \in C : c <= d
  BY <1>1, OldestExists
<1>3. PICK i \in B : c = MaxRows - i
  BY <1>2
<1>4. \A j \in B : MaxRows - i <= MaxRows - j
  BY <1>2, <1>3
<1>5. \A j \in B : j <= i
  BY <1>4, OutboxAssumption DEF Ids
<1> QED BY <1>5

\* An owner whose rows are all processed at their first attempt has on the
\* graph what its last row said, and in Postgres the same less the topics
\* removed since, whatever crashed in between.
THEOREM GraphIsUpToDate == Spec => []DrainedGraphMatches
<1>1. OrderInv => DrainedGraphMatches
  <2> SUFFICES ASSUME OrderInv, NEW o \in Owners \ overlapped, Drained(o),
                      \A i \in RowsOf(o) : outbox[i].attempts = 0
               PROVE  /\ graph[o] = outbox[LastRow(o)].topicIds
                      /\ links[o] = graph[o] \cap topics
    BY DEF DrainedGraphMatches
  <2>1. RowsOf(o) # {} /\ RowsOf(o) \subseteq Ids
    BY DEF Drained, RowsOf
  <2>2. \E i \in RowsOf(o) : \A j \in RowsOf(o) : j <= i
    BY <2>1, LatestExists
  <2>3. IsLast(o, LastRow(o)) /\ LastRow(o) \in Ids
    BY <2>1, <2>2 DEF IsLast, LastRow
  <2>4. AtFirstAttempt(o)
    BY DEF Drained, AtFirstAttempt
  <2> QED BY <2>3, <2>4 DEF OrderInv, EditInv, RunInv, GraphFollowsLast, LinksFollowLast
<1> QED BY <1>1, OrderInvariance, PTL

=============================================================================
