--------------------------- MODULE AttemptsProofs ---------------------------
(***************************************************************************)
(* Theorems of module Attempts, for any students and assignments, any      *)
(* number of attempts and any number of concurrent requests.               *)
(*                                                                         *)
(* What a request read may be out of date when it writes.  The inductive   *)
(* invariant says how far: the attempts a request counted still exist, the *)
(* limit it read is still within the ceiling, and the attempt it loaded is *)
(* still there (RequestSound).                                             *)
(***************************************************************************)
EXTENDS Attempts, FiniteSetTheorems, TLAPS

Creating == {"findDraft", "count", "findFinished", "create"}
Counted  == {"findFinished", "create"}
Loaded   == {"upsertAnswers", "readAssignment", "readAnswers", "submit", "grade"}

\* limit was a limit of k at some time.
WasLimit(k, limit) ==
    ceiling[k] # None => limit # None /\ limit <= ceiling[k]

Sound(q) ==
    /\ q.next \in Creating => WasLimit(q.key, q.limit)
    /\ q.next \in Counted =>
          /\ q.limit # None => q.number < q.limit
          /\ q.number > 0 => Exists(q.key, q.number)
    /\ q.next \in Loaded => q.number \in Numbers /\ Exists(q.key, q.number)

RequestSound == \A r \in Requests : Busy(r) => Sound(request[r])

CeilingIsLimit == \A k \in Keys : WasLimit(k, maxAttempts[k])

IndInv ==
    /\ TypeOK
    /\ RequestSound
    /\ CeilingIsLimit
    /\ AttemptsContiguous
    /\ WithinCeiling

-----------------------------------------------------------------------------
(***************************************************************************)
(* Counting the attempts finds the number of the latest.                   *)
(***************************************************************************)

LEMMA CountIsLatest ==
    ASSUME IndInv, NEW k \in Keys
    PROVE  /\ Count(k) \in 0 .. MaxNo
           /\ \A n \in Numbers : Exists(k, n) <=> n <= Count(k)
<1> DEFINE E == {n \in Numbers : Exists(k, n)}
           c == Count(k)
<1>1. MaxNo \in Nat
  BY AttemptsAssumption
<1>2. IsFiniteSet(Numbers) /\ Cardinality(Numbers) = MaxNo
  BY <1>1, FS_Interval DEF Numbers
<1>3. IsFiniteSet(E) /\ c = Cardinality(E) /\ c \in 0 .. MaxNo
  <2>1. IsFiniteSet(E) /\ Cardinality(E) <= MaxNo
    BY <1>2, FS_Subset
  <2>2. Cardinality(E) \in Nat
    BY <2>1, FS_CardinalityType
  <2> QED BY <1>1, <2>1, <2>2 DEF Count
<1>4. ASSUME NEW n \in E PROVE n <= c
  <2>1. n \in Nat /\ n >= 1 /\ \A m \in 1 .. n : m \in Numbers /\ Exists(k, m)
    BY <1>1 DEF IndInv, AttemptsContiguous, Numbers
  <2>2. (1 .. n) \in SUBSET E
    BY <2>1
  <2>3. Cardinality(1 .. n) = n
    BY <2>1, FS_Interval
  <2> QED BY <1>3, <2>2, <2>3, FS_Subset
<1>5. E \in SUBSET (1 .. c)
  BY <1>1, <1>3, <1>4 DEF Numbers
<1>6. IsFiniteSet(1 .. c) /\ Cardinality(1 .. c) = c
  BY <1>3, FS_Interval
<1>7. E = 1 .. c
  BY <1>3, <1>5, <1>6, FS_Subset
<1> QED BY <1>1, <1>3, <1>7 DEF Numbers

-----------------------------------------------------------------------------
(***************************************************************************)
(* Steps that change the requests only.                                    *)
(***************************************************************************)

LEMMA InitIndInv == Init => IndInv
<1> SUFFICES ASSUME Init PROVE IndInv
  OBVIOUS
<1>1. TypeOK
  BY DEF Init, TypeOK
<1>2. RequestSound /\ AttemptsContiguous /\ WithinCeiling
  BY DEF Init, RequestSound, Busy, AttemptsContiguous, WithinCeiling, Exists
<1>3. CeilingIsLimit
  BY AttemptsAssumption DEF Init, CeilingIsLimit, WasLimit, Numbers
<1> QED BY <1>1, <1>2, <1>3 DEF IndInv

LEMMA RequestOnly ==
    ASSUME IndInv,
           NEW r \in Requests, NEW q \in InFlight \cup {None},
           q # None => Sound(q),
           request' = [request EXCEPT ![r] = q],
           UNCHANGED <<tables, ceiling, generous>>,
           overlapped' \subseteq Keys
    PROVE  IndInv'
<1>1. TypeOK'
  BY DEF IndInv, TypeOK, tables, assignment
<1>2. RequestSound'
  <2> SUFFICES ASSUME NEW p \in Requests, Busy(p)' PROVE Sound(request[p])'
    BY DEF RequestSound
  <2>1. Sound(request'[p])
    BY DEF IndInv, TypeOK, RequestSound, Busy
  <2> QED BY <2>1 DEF Sound, WasLimit, Exists, tables
<1>3. CeilingIsLimit' /\ AttemptsContiguous' /\ WithinCeiling'
  BY DEF IndInv, CeilingIsLimit, AttemptsContiguous, WithinCeiling,
         WasLimit, Exists, tables, assignment
<1> QED BY <1>1, <1>2, <1>3 DEF IndInv

LEMMA StartStep ==
    ASSUME IndInv, NEW r \in Requests, NEW s \in Statement, NEW k \in Keys,
           NEW n \in 0 .. MaxNo, NEW x \in Scores, NEW limit \in Numbers \cup {None},
           Sound([next |-> s, key |-> k, number |-> n, score |-> x, limit |-> limit, review |-> FALSE]),
           Start(r, s, k, n, x, limit)
    PROVE  IndInv'
<1> DEFINE q == [next |-> s, key |-> k, number |-> n, score |-> x, limit |-> limit, review |-> FALSE]
<1>1. q \in InFlight
  BY DEF InFlight
<1>2. request' = [request EXCEPT ![r] = q] /\ UNCHANGED <<tables, ceiling, generous>>
  BY DEF Start, Await
<1>3. overlapped' \subseteq Keys
  BY DEF Start, IndInv, TypeOK
<1> HIDE DEF q
<1>4. Sound(q)
  BY DEF q
<1> QED BY <1>1, <1>2, <1>3, <1>4, RequestOnly

LEMMA FinishStep ==
    ASSUME IndInv, NEW r \in Requests, Finish(r), UNCHANGED <<tables, history>>
    PROVE  IndInv'
<1>1. overlapped' \subseteq Keys
  BY DEF IndInv, TypeOK, history
<1> QED BY <1>1, RequestOnly DEF Finish, history

\* A request that goes on keeps its key and the limit it read.
LEMMA AwaitStep ==
    ASSUME IndInv, NEW r \in Requests, Busy(r),
           NEW s \in Statement, NEW n \in 0 .. MaxNo, NEW x \in Scores,
           NEW b \in BOOLEAN,
           Sound([next |-> s, key |-> request[r].key, number |-> n, score |-> x,
                  limit |-> request[r].limit, review |-> b]),
           Await(r, s, request[r].key, n, x, request[r].limit, b), UNCHANGED <<tables, history>>
    PROVE  IndInv'
<1> DEFINE q == [next |-> s, key |-> request[r].key, number |-> n, score |-> x,
                 limit |-> request[r].limit, review |-> b]
<1>1. request[r] \in InFlight
  BY DEF IndInv, TypeOK, Busy
<1>2. q \in InFlight
  BY <1>1 DEF InFlight
<1>3. request' = [request EXCEPT ![r] = q] /\ UNCHANGED <<tables, ceiling, generous>>
  BY DEF Await, history
<1>4. overlapped' \subseteq Keys
  BY DEF IndInv, TypeOK, history
<1> HIDE DEF q
<1>5. Sound(q)
  BY DEF q
<1> QED BY <1>2, <1>3, <1>4, <1>5, RequestOnly

LEMMA GoesStep ==
    ASSUME IndInv, NEW r \in Requests, Busy(r),
           NEW s \in Statement, NEW n \in 0 .. MaxNo, NEW x \in Scores,
           Sound([next |-> s, key |-> request[r].key, number |-> n, score |-> x,
                  limit |-> request[r].limit, review |-> request[r].review]),
           Goes(r, s, n, x), UNCHANGED <<tables, history>>
    PROVE  IndInv'
<1>1. request[r].review \in BOOLEAN
  BY DEF IndInv, TypeOK, Busy, InFlight
<1> QED BY <1>1, AwaitStep DEF Goes

LEMMA CreatingSteps ==
    ASSUME IndInv, NEW r \in Requests,
           \/ \E k \in Keys : CreateReadAssignment(r, k)
           \/ CreateFindDraft(r)
           \/ CreateCount(r)
           \/ CreateFindFinished(r)
    PROVE  IndInv'
<1>0. 0 \in 0 .. MaxNo /\ 0 \in Scores
  BY AttemptsAssumption DEF Scores
<1>1. ASSUME NEW k \in Keys, CreateReadAssignment(r, k) PROVE IndInv'
  <2>1. maxAttempts[k] \in Numbers \cup {None} /\ WasLimit(k, maxAttempts[k])
    BY DEF IndInv, TypeOK, CeilingIsLimit
  <2>2. Sound([next |-> "findDraft", key |-> k, number |-> 0, score |-> 0,
               limit |-> maxAttempts[k], review |-> FALSE])
    BY <2>1 DEF Sound, Creating, Counted, Loaded
  <2> QED BY <1>0, <1>1, <2>1, <2>2, StartStep DEF CreateReadAssignment, Statement
<1>2. ASSUME Busy(r), request[r].next \in Creating
      PROVE  /\ request[r] \in InFlight
             /\ request[r].key \in Keys
             /\ WasLimit(request[r].key, request[r].limit)
  <2>1. request[r] \in InFlight /\ Sound(request[r])
    BY <1>2 DEF IndInv, TypeOK, RequestSound, Busy
  <2> QED BY <1>2, <2>1 DEF InFlight, Sound
<1>3. ASSUME CreateFindDraft(r) PROVE IndInv'
  <2>1. Busy(r) /\ WasLimit(request[r].key, request[r].limit)
    BY <1>2, <1>3 DEF CreateFindDraft, Resumes, Creating
  <2>2. CASE Finish(r)
    BY <1>3, <2>2, FinishStep DEF CreateFindDraft
  <2>3. CASE Goes(r, "count", 0, 0)
    <3>1. Sound([next |-> "count", key |-> request[r].key, number |-> 0, score |-> 0,
                 limit |-> request[r].limit, review |-> request[r].review])
      BY <2>1 DEF Sound, Creating, Counted, Loaded
    <3> QED BY <1>0, <1>3, <2>1, <2>3, <3>1, GoesStep DEF CreateFindDraft, Statement
  <2> QED BY <1>3, <2>2, <2>3 DEF CreateFindDraft
<1>4. ASSUME CreateCount(r) PROVE IndInv'
  <2> DEFINE c == Count(request[r].key)
  <2>1. /\ Busy(r)
        /\ request[r] \in InFlight
        /\ request[r].key \in Keys
        /\ WasLimit(request[r].key, request[r].limit)
    BY <1>2, <1>4 DEF CreateCount, Resumes, Creating
  <2>2. CASE Finish(r)
    BY <1>4, <2>2, FinishStep DEF CreateCount
  <2>3. CASE ~Reached(request[r].limit, c) /\ Goes(r, "findFinished", c, 0)
    <3>1. c \in 0 .. MaxNo /\ (c > 0 => Exists(request[r].key, c))
      BY <2>1, CountIsLatest, AttemptsAssumption DEF Numbers
    <3>2. request[r].limit # None => c < request[r].limit
      BY <2>1, <2>3, <3>1, AttemptsAssumption DEF Reached, InFlight, Numbers
    <3> HIDE DEF c
    <3>3. Sound([next |-> "findFinished", key |-> request[r].key, number |-> c, score |-> 0,
                 limit |-> request[r].limit, review |-> request[r].review])
      BY <2>1, <3>1, <3>2 DEF Sound, Creating, Counted, Loaded
    <3> QED BY <1>0, <1>4, <2>1, <2>3, <3>1, <3>3, GoesStep DEF CreateCount, Statement
  <2> QED BY <1>4, <2>2, <2>3 DEF CreateCount
<1>5. ASSUME CreateFindFinished(r) PROVE IndInv'
  <2>1. Busy(r) /\ request[r].next = "findFinished" /\ request[r] \in InFlight /\ Sound(request[r])
    BY <1>5 DEF CreateFindFinished, Resumes, IndInv, TypeOK, RequestSound, Busy
  <2>2. CASE Finish(r)
    BY <1>5, <2>2, FinishStep DEF CreateFindFinished
  <2>3. CASE Goes(r, "create", request[r].number, 0)
    <3>1. Sound([next |-> "create", key |-> request[r].key, number |-> request[r].number,
                 score |-> 0, limit |-> request[r].limit, review |-> request[r].review])
      BY <2>1 DEF Sound, Creating, Counted, Loaded
    <3>2. request[r].number \in 0 .. MaxNo
      BY <2>1 DEF InFlight
    <3> QED BY <1>0, <1>5, <2>1, <2>3, <3>1, <3>2, GoesStep DEF CreateFindFinished, Statement
  <2> QED BY <1>5, <2>2, <2>3 DEF CreateFindFinished
<1> QED BY <1>1, <1>3, <1>4, <1>5

LEMMA LoadingSteps ==
    ASSUME IndInv, NEW r \in Requests, NEW k \in Keys, NEW n \in Numbers,
           \/ SubmitLoad(r, k, n)
           \/ \E x \in Scores : SaveLoad(r, k, n, x) \/ GradeRead(r, k, n, x)
    PROVE  IndInv'
<1>0. n \in 0 .. MaxNo /\ 0 \in Scores
  BY AttemptsAssumption DEF Numbers, Scores
<1>1. ASSUME NEW s \in {"upsertAnswers", "readAssignment"}, NEW x \in Scores, LoadDraft(r, k, n, s, x)
      PROVE  IndInv'
  <2>1. Sound([next |-> s, key |-> k, number |-> n, score |-> x, limit |-> None, review |-> FALSE])
    BY <1>1 DEF LoadDraft, Draft, Sound, Creating, Counted, Loaded
  <2> QED BY <1>0, <1>1, <2>1, StartStep DEF LoadDraft, Statement
<1>2. ASSUME NEW x \in Scores, GradeRead(r, k, n, x) PROVE IndInv'
  <2>1. Exists(k, n)
    BY <1>2 DEF GradeRead
  <2>2. Sound([next |-> "grade", key |-> k, number |-> n, score |-> x, limit |-> None, review |-> FALSE])
    BY <2>1 DEF Sound, Creating, Counted, Loaded
  <2> QED BY <1>0, <1>2, <2>2, StartStep DEF GradeRead, Statement
<1> QED BY <1>0, <1>1, <1>2 DEF SubmitLoad, SaveLoad

LEMMA SubmitReadStep ==
    ASSUME IndInv, NEW r \in Requests, SubmitReadAnswers(r)
    PROVE  IndInv'
<1>1. /\ Busy(r) /\ request[r].next = "readAnswers"
      /\ request[r] \in InFlight /\ Sound(request[r])
  BY DEF SubmitReadAnswers, Resumes, IndInv, TypeOK, RequestSound, Busy
<1>2. /\ request[r].key \in Keys
      /\ request[r].number \in Numbers /\ request[r].number \in 0 .. MaxNo
      /\ Exists(request[r].key, request[r].number)
  BY <1>1 DEF InFlight, Sound, Loaded
<1>3. attempt[request[r].key][request[r].number].answers \in Scores
  BY <1>2 DEF IndInv, TypeOK, Exists, Submission
<1>4. Sound([next |-> "submit", key |-> request[r].key, number |-> request[r].number,
             score |-> attempt[request[r].key][request[r].number].answers,
             limit |-> request[r].limit, review |-> request[r].review])
  BY <1>2 DEF Sound, Creating, Counted, Loaded
<1> QED BY <1>1, <1>2, <1>3, <1>4, GoesStep DEF SubmitReadAnswers, Statement

LEMMA SubmitReadModeStep ==
    ASSUME IndInv, NEW r \in Requests, SubmitReadAssignment(r)
    PROVE  IndInv'
<1>1. /\ Busy(r) /\ request[r].next = "readAssignment"
      /\ request[r] \in InFlight /\ Sound(request[r])
  BY DEF SubmitReadAssignment, Resumes, IndInv, TypeOK, RequestSound, Busy
<1>2. /\ request[r].key \in Keys
      /\ request[r].number \in Numbers /\ request[r].number \in 0 .. MaxNo
      /\ Exists(request[r].key, request[r].number)
      /\ 0 \in Scores
  BY <1>1, AttemptsAssumption DEF InFlight, Sound, Loaded, Scores
<1>3. PICK b \in BOOLEAN : b = hasOpen[request[r].key]
  BY <1>2 DEF IndInv, TypeOK
<1>4. Sound([next |-> "readAnswers", key |-> request[r].key, number |-> request[r].number,
             score |-> 0, limit |-> request[r].limit, review |-> b])
  BY <1>2 DEF Sound, Creating, Counted, Loaded
<1> QED BY <1>1, <1>2, <1>3, <1>4, AwaitStep DEF SubmitReadAssignment, Statement

-----------------------------------------------------------------------------
(***************************************************************************)
(* Steps that write an attempt or the limit.                               *)
(***************************************************************************)

\* A row that is there, or that continues the numbering within the ceiling,
\* may be written.
LEMMA WriteStep ==
    ASSUME IndInv, NEW r \in Requests, NEW k \in Keys, NEW n \in Numbers, NEW row \in Submission,
           SetAttempt(k, n, row), Finish(r),
           UNCHANGED <<assignment, history>>,
           \/ Exists(k, n)
           \/ /\ \A m \in 1 .. n : m = n \/ Exists(k, m)
              /\ ceiling[k] # None => n <= ceiling[k]
    PROVE  IndInv'
<1>1. attempt \in [Keys -> [Numbers -> Submission \cup {None}]]
  BY DEF IndInv, TypeOK
<1>2. /\ attempt' \in [Keys -> [Numbers -> Submission \cup {None}]]
      /\ attempt'[k][n] = row
      /\ \A j \in Keys : \A m \in Numbers : j # k \/ m # n => attempt'[j][m] = attempt[j][m]
  BY <1>1 DEF SetAttempt
<1>3. row # None
  BY NoneAssumption
<1>4. /\ Exists(k, n)'
      /\ \A j \in Keys : \A m \in Numbers : Exists(j, m) => Exists(j, m)'
      /\ \A j \in Keys : \A m \in Numbers : (j # k \/ m # n) /\ Exists(j, m)' => Exists(j, m)
  BY <1>2, <1>3 DEF Exists
<1>5. TypeOK'
  BY <1>2 DEF IndInv, TypeOK, Finish, history, assignment
<1>6. RequestSound'
  <2> SUFFICES ASSUME NEW p \in Requests, Busy(p)' PROVE Sound(request[p])'
    BY DEF RequestSound
  <2>1. request'[p] = request[p] /\ Busy(p) /\ request[p] \in InFlight
    BY DEF Finish, Busy, IndInv, TypeOK
  <2>2. Sound(request[p])
    BY <2>1 DEF IndInv, RequestSound
  <2>3. request[p].key \in Keys /\ (request[p].number > 0 => request[p].number \in Numbers)
    BY <2>1, AttemptsAssumption DEF InFlight, Numbers
  <2> QED BY <1>4, <2>1, <2>2, <2>3 DEF Sound, WasLimit, history
<1>8. AttemptsContiguous'
  <2> SUFFICES ASSUME NEW j \in Keys, NEW i \in Numbers, Exists(j, i)', NEW m \in 1 .. i
               PROVE  Exists(j, m)'
    BY DEF AttemptsContiguous
  <2>1. m \in Numbers
    BY AttemptsAssumption DEF Numbers
  <2>2. CASE Exists(j, i)
    BY <1>4, <2>1, <2>2 DEF IndInv, AttemptsContiguous
  <2>3. CASE ~Exists(j, i)
    <3>1. j = k /\ i = n
      BY <1>4, <2>3
    <3> QED BY <1>4, <2>1, <2>3, <3>1
  <2> QED BY <2>2, <2>3
<1>9. WithinCeiling'
  <2> SUFFICES ASSUME NEW j \in Keys, NEW m \in Numbers, Exists(j, m)', ceiling[j] # None
               PROVE  m <= ceiling[j]
    BY DEF WithinCeiling, history
  <2>1. CASE Exists(j, m)
    BY <2>1 DEF IndInv, WithinCeiling
  <2>2. CASE ~Exists(j, m)
    BY <1>4, <2>2
  <2> QED BY <2>1, <2>2
<1>10. CeilingIsLimit'
  BY DEF IndInv, CeilingIsLimit, WasLimit, history, assignment
<1> QED BY <1>5, <1>6, <1>8, <1>9, <1>10 DEF IndInv

\* The row after the counted ones is free only if none was added since.
LEMMA InsertStep ==
    ASSUME IndInv, NEW r \in Requests, CreateInsert(r)
    PROVE  IndInv'
<1> DEFINE k == request[r].key
           c == request[r].number
           n == c + 1
<1>1. /\ Busy(r) /\ request[r].next = "create"
      /\ request[r] \in InFlight /\ Sound(request[r])
  BY DEF CreateInsert, Resumes, IndInv, TypeOK, RequestSound, Busy
<1>2. k \in Keys /\ c \in 0 .. MaxNo /\ n \in Numbers
  BY <1>1 DEF InFlight, CreateInsert
<1>3. CASE Exists(k, n)
  <2>1. UNCHANGED <<tables, history>> /\ Finish(r)
    BY <1>3 DEF CreateInsert, tables
  <2> QED BY <2>1, FinishStep
<1>4. CASE ~Exists(k, n)
  <2>1. SetAttempt(k, n, NewAttempt) /\ Finish(r) /\ UNCHANGED <<assignment, history>>
    BY <1>4 DEF CreateInsert
  <2>2. NewAttempt \in Submission
    BY AttemptsAssumption DEF NewAttempt, Submission, Status, Scores
  <2>3. ASSUME NEW m \in 1 .. n, m # n PROVE Exists(k, m)
    <3>1. c > 0 /\ c \in Numbers /\ m \in 1 .. c
      BY <1>2, <2>3, AttemptsAssumption DEF Numbers
    <3>2. Exists(k, c)
      BY <1>1, <3>1 DEF Sound, Counted
    <3> QED BY <1>2, <3>1, <3>2 DEF IndInv, AttemptsContiguous
  <2>4. ceiling[k] # None => n <= ceiling[k]
    <3> SUFFICES ASSUME ceiling[k] # None PROVE n <= ceiling[k]
      OBVIOUS
    <3>1. request[r].limit # None /\ request[r].limit <= ceiling[k] /\ c < request[r].limit
      BY <1>1 DEF Sound, Creating, Counted, WasLimit
    <3>2. request[r].limit \in Numbers /\ ceiling[k] \in Numbers
      BY <1>1, <1>2, <3>1 DEF InFlight, IndInv, TypeOK
    <3> QED BY <1>2, <3>1, <3>2, AttemptsAssumption DEF Numbers
  <2>5. NewAttempt.status = "IN_PROGRESS"
    BY DEF NewAttempt
  <2> HIDE DEF k, n, c
  <2> QED BY <1>2, <2>1, <2>2, <2>3, <2>4, <2>5, WriteStep
<1> QED BY <1>3, <1>4

\* The attempt a request loaded is still there when it is written.
LEMMA LoadedRow ==
    ASSUME IndInv, NEW r \in Requests, Busy(r), request[r].next \in Loaded
    PROVE  LET k == request[r].key
               n == request[r].number
           IN  /\ request[r] \in InFlight
               /\ k \in Keys /\ n \in Numbers
               /\ Exists(k, n) /\ attempt[k][n] \in Submission
<1>1. request[r] \in InFlight /\ Sound(request[r])
  BY DEF IndInv, TypeOK, RequestSound, Busy
<1>2. /\ request[r].key \in Keys /\ request[r].number \in Numbers
      /\ Exists(request[r].key, request[r].number)
  BY <1>1 DEF InFlight, Sound
<1>3. attempt[request[r].key][request[r].number] \in Submission
  BY <1>2 DEF IndInv, TypeOK, Exists
<1> QED BY <1>1, <1>2, <1>3

LEMMA WritingSteps ==
    ASSUME IndInv, NEW r \in Requests, SaveUpsert(r) \/ SubmitWrite(r) \/ GradeWrite(r)
    PROVE  IndInv'
<1> DEFINE k == request[r].key
           n == request[r].number
           x == request[r].score
           row == attempt[k][n]
<1>0. Busy(r) /\ request[r].next \in Loaded
  BY DEF SaveUpsert, SubmitWrite, GradeWrite, Resumes, Loaded
<1>1. /\ k \in Keys /\ n \in Numbers /\ x \in Scores
      /\ Exists(k, n) /\ row \in Submission
  BY <1>0, LoadedRow DEF InFlight
<1>2. CASE SaveUpsert(r)
  <2> DEFINE saved == [status |-> row.status, answers |-> x, scoreXp |-> row.scoreXp]
  <2>1. SetAttempt(k, n, saved) /\ Finish(r) /\ UNCHANGED <<assignment, history>>
    BY <1>2 DEF SaveUpsert
  <2>2. saved \in Submission /\ saved.status = row.status
    BY <1>1 DEF Submission
  <2> HIDE DEF saved, row, x, k, n
  <2> QED BY <1>1, <2>1, <2>2, WriteStep
<1>3. ASSUME NEW status \in Status, Settle(k, n, status, x), Finish(r),
             UNCHANGED <<assignment, history>>
      PROVE  IndInv'
  <2> DEFINE settled == [status |-> status, answers |-> row.answers, scoreXp |-> x]
  <2>1. SetAttempt(k, n, settled)
    BY <1>3 DEF Settle
  <2>2. settled \in Submission /\ settled.status = status
    BY <1>1 DEF Submission
  <2> HIDE DEF settled, row, x, k, n
  <2> QED BY <1>1, <1>3, <2>1, <2>2, WriteStep
<1>4. CASE SubmitWrite(r)
  <2> DEFINE status == IF request[r].review THEN "PENDING_REVIEW" ELSE "AUTO_GRADED"
  <2>1. /\ Settle(k, n, status, x) /\ Finish(r)
        /\ UNCHANGED <<assignment, history>>
    BY <1>4 DEF SubmitWrite
  <2>2. status \in Status
    BY DEF Status
  <2> HIDE DEF status
  <2> QED BY <1>3, <2>1, <2>2
<1>5. CASE GradeWrite(r)
  <2>1. /\ Settle(k, n, "GRADED", x) /\ Finish(r)
        /\ UNCHANGED <<assignment, history>>
    BY <1>5 DEF GradeWrite
  <2> QED BY <1>1, <1>3, <2>1 DEF Status
<1> QED BY <1>2, <1>4, <1>5

\* A raised ceiling stays above every limit that was read, and above the
\* limits to come.
LEMMA UpdateStep ==
    ASSUME IndInv, NEW k \in Keys, NEW limit \in Numbers \cup {None}, NEW open \in BOOLEAN,
           Update(k, limit, open)
    PROVE  IndInv'
<1>1. /\ \A j \in Keys : ceiling[j] \in Numbers \cup {None}
      /\ ceiling' = [ceiling EXCEPT ![k] = Higher(@, limit)]
      /\ maxAttempts' = [maxAttempts EXCEPT ![k] = limit]
      /\ UNCHANGED <<removed, attempt, request, overlapped>>
  BY DEF Update, IndInv, TypeOK
<1>2. \A a, b \in Numbers \cup {None} :
         /\ Higher(a, b) \in Numbers \cup {None}
         /\ Higher(a, b) # None =>
               a # None /\ b # None /\ a <= Higher(a, b) /\ b <= Higher(a, b)
  BY AttemptsAssumption DEF Higher, Numbers
<1>3. TypeOK'
  BY <1>1, <1>2 DEF Update, IndInv, TypeOK
<1>4. \A j \in Keys : ceiling'[j] # None => ceiling[j] # None /\ ceiling[j] <= ceiling'[j]
  <2> TAKE j \in Keys
  <2> HAVE ceiling'[j] # None
  <2>1. ceiling \in [Keys -> Numbers \cup {None}]
    BY DEF IndInv, TypeOK
  <2>2. CASE j = k
    <3>1. ceiling'[j] = Higher(ceiling[j], limit)
      BY <1>1, <2>1, <2>2
    <3> QED BY <1>1, <1>2, <3>1
  <2>3. CASE j # k
    <3>1. ceiling'[j] = ceiling[j]
      BY <1>1, <2>1, <2>3
    <3>2. ceiling[j] \in Numbers
      BY <1>1, <3>1
    <3> QED BY <3>1, <3>2, AttemptsAssumption DEF Numbers
  <2> QED BY <2>2, <2>3
<1>5. ASSUME NEW j \in Keys, NEW l \in Numbers \cup {None}, WasLimit(j, l)
      PROVE  ceiling'[j] # None => l # None /\ l <= ceiling'[j]
  <2> SUFFICES ASSUME ceiling'[j] # None PROVE l # None /\ l <= ceiling'[j]
    OBVIOUS
  <2>1. ceiling[j] # None /\ ceiling[j] <= ceiling'[j] /\ l # None /\ l <= ceiling[j]
    BY <1>4, <1>5 DEF WasLimit
  <2>2. ceiling[j] \in Numbers /\ ceiling'[j] \in Numbers /\ l \in Numbers
    BY <1>1, <1>3, <2>1 DEF TypeOK
  <2> QED BY <2>1, <2>2, AttemptsAssumption DEF Numbers
<1>6. RequestSound'
  <2> SUFFICES ASSUME NEW p \in Requests, Busy(p)' PROVE Sound(request[p])'
    BY DEF RequestSound
  <2>1. request'[p] = request[p] /\ request[p] \in InFlight /\ Sound(request[p])
    BY <1>1 DEF Busy, IndInv, TypeOK, RequestSound
  <2>2. request[p].key \in Keys /\ request[p].limit \in Numbers \cup {None}
    BY <2>1 DEF InFlight
  <2> QED BY <1>1, <1>5, <2>1, <2>2 DEF Sound, WasLimit, Exists
<1>7. CeilingIsLimit'
  <2> SUFFICES ASSUME NEW j \in Keys, ceiling'[j] # None
               PROVE  maxAttempts'[j] # None /\ maxAttempts'[j] <= ceiling'[j]
    BY DEF CeilingIsLimit, WasLimit
  <2>1. CASE j = k
    BY <1>1, <1>2, <2>1 DEF IndInv, TypeOK
  <2>2. CASE j # k
    BY <1>1, <1>5, <2>2 DEF IndInv, TypeOK, CeilingIsLimit
  <2> QED BY <2>1, <2>2
<1>8. AttemptsContiguous'
  BY <1>1 DEF IndInv, AttemptsContiguous, Exists
<1>9. WithinCeiling'
  <2> SUFFICES ASSUME NEW j \in Keys, NEW n \in Numbers, Exists(j, n), ceiling'[j] # None
               PROVE  n <= ceiling'[j]
    BY <1>1 DEF WithinCeiling, Exists
  <2>1. n <= ceiling[j] /\ ceiling[j] <= ceiling'[j]
    BY <1>4 DEF IndInv, WithinCeiling
  <2>2. ceiling[j] \in Numbers /\ ceiling'[j] \in Numbers
    BY <1>1, <1>3, <1>4 DEF TypeOK
  <2> QED BY <2>1, <2>2, AttemptsAssumption DEF Numbers
<1> QED BY <1>3, <1>6, <1>7, <1>8, <1>9 DEF IndInv

\* With the assignment go its attempts and the requests about it.
LEMMA RemoveStep ==
    ASSUME IndInv, NEW k \in Keys, RemoveAssignment(k)
    PROVE  IndInv'
<1>1. /\ attempt' = [attempt EXCEPT ![k] = [n \in Numbers |-> None]]
      /\ request' = [r \in Requests |->
                        IF Busy(r) /\ request[r].key = k THEN None ELSE request[r]]
      /\ removed' = removed \cup {k}
      /\ UNCHANGED <<maxAttempts, hasOpen, ceiling, generous, overlapped>>
  BY DEF RemoveAssignment, history
<1>2. /\ \A n \in Numbers : ~Exists(k, n)'
      /\ \A j \in Keys : \A n \in Numbers : j # k => attempt'[j][n] = attempt[j][n]
  BY <1>1 DEF Exists, IndInv, TypeOK
<1>3. TypeOK'
  BY <1>1 DEF IndInv, TypeOK
<1>4. RequestSound'
  <2> SUFFICES ASSUME NEW p \in Requests, Busy(p)' PROVE Sound(request[p])'
    BY DEF RequestSound
  <2>1. /\ request'[p] = request[p] /\ Busy(p) /\ request[p].key # k
        /\ request[p] \in InFlight
    BY <1>1 DEF Busy, IndInv, TypeOK
  <2>2. Sound(request[p]) /\ request[p].key \in Keys
    BY <2>1 DEF IndInv, RequestSound, InFlight
  <2>3. request[p].number > 0 => request[p].number \in Numbers
    BY <2>1, AttemptsAssumption DEF InFlight, Numbers
  <2> QED BY <1>1, <1>2, <2>1, <2>2, <2>3 DEF Sound, WasLimit, Exists
<1>5. CeilingIsLimit'
  BY <1>1 DEF IndInv, CeilingIsLimit, WasLimit
<1>6. AttemptsContiguous'
  <2> SUFFICES ASSUME NEW j \in Keys, NEW n \in Numbers, Exists(j, n)', NEW m \in 1 .. n
               PROVE  Exists(j, m)'
    BY DEF AttemptsContiguous
  <2>1. j # k /\ m \in Numbers
    BY <1>2, AttemptsAssumption DEF Numbers
  <2> QED BY <1>2, <2>1 DEF IndInv, AttemptsContiguous, Exists
<1>7. WithinCeiling'
  BY <1>1, <1>2 DEF IndInv, WithinCeiling, Exists
<1> QED BY <1>3, <1>4, <1>5, <1>6, <1>7 DEF IndInv

-----------------------------------------------------------------------------
(***************************************************************************)
(* The invariant and what follows from it.                                 *)
(***************************************************************************)

LEMMA NextIndInv == IndInv /\ [Next]_vars => IndInv'
<1> SUFFICES ASSUME IndInv, [Next]_vars PROVE IndInv'
  OBVIOUS
<1>1. ASSUME NEW r \in Requests, RequestStep(r) PROVE IndInv'
  <2>1. ASSUME NEW k \in Keys, CreateReadAssignment(r, k) PROVE IndInv'
    BY <2>1, CreatingSteps
  <2>2. ASSUME NEW k \in Keys, NEW n \in Numbers,
               \/ SubmitLoad(r, k, n)
               \/ \E x \in Scores : SaveLoad(r, k, n, x) \/ GradeRead(r, k, n, x)
        PROVE  IndInv'
    BY <2>2, LoadingSteps
  <2>3. CASE CreateFindDraft(r)
    BY <2>3, CreatingSteps
  <2>4. CASE CreateCount(r)
    BY <2>4, CreatingSteps
  <2>5. CASE CreateFindFinished(r)
    BY <2>5, CreatingSteps
  <2>6. CASE CreateInsert(r)
    BY <2>6, InsertStep
  <2>7. CASE SaveUpsert(r)
    BY <2>7, WritingSteps
  <2>8. CASE SubmitReadAnswers(r)
    BY <2>8, SubmitReadStep
  <2>12. CASE SubmitReadAssignment(r)
    BY <2>12, SubmitReadModeStep
  <2>9. CASE SubmitWrite(r)
    BY <2>9, WritingSteps
  <2>10. CASE GradeWrite(r)
    BY <2>10, WritingSteps
  <2>11. CASE RequestDies(r)
    BY <2>11, FinishStep DEF RequestDies
  <2> QED
    BY <1>1, <2>1, <2>2, <2>3, <2>4, <2>5, <2>6, <2>7, <2>8, <2>9, <2>10, <2>11,
       <2>12 DEF RequestStep
<1>2. ASSUME NEW k \in Keys, NEW limit \in Numbers \cup {None}, NEW open \in BOOLEAN,
             Update(k, limit, open)
      PROVE  IndInv'
  BY <1>2, UpdateStep
<1>4. ASSUME NEW k \in Keys, RemoveAssignment(k) PROVE IndInv'
  BY <1>4, RemoveStep
<1>3. CASE UNCHANGED vars
  BY <1>3 DEF IndInv, TypeOK, RequestSound, Busy, Sound, WasLimit, CeilingIsLimit,
              AttemptsContiguous, WithinCeiling, Exists, vars, tables, assignment, history
<1> QED BY <1>1, <1>2, <1>3, <1>4 DEF Next

\* In every reachable state the properties hold together with what a request
\* still knows of the attempts it counted and of the status it read.
THEOREM Invariance == Spec => []IndInv
BY InitIndInv, NextIndInv, PTL DEF Spec

\* Every state of the submissions service has the declared types.
THEOREM TypeCorrect == Spec => []TypeOK
BY Invariance, PTL DEF IndInv

\* submissions.service.ts:68-118: attempts are numbered without a gap although
\* the number is a count that may be out of date.
THEOREM NumberedWithoutGap == Spec => []AttemptsContiguous
BY Invariance, PTL DEF IndInv

\* submissions.service.ts:68-118, assignments.service.ts:110: no race of
\* requests, and no edit of the limit between two of their reads, gives an
\* attempt beyond the highest limit there was.
THEOREM NoAttemptTooMany == Spec => []WithinCeiling
BY Invariance, PTL DEF IndInv

\* What a step may write over an attempt.
LEMMA AttemptStep ==
    ASSUME IndInv, Next, NEW k \in Keys \ removed', NEW n \in Numbers, Exists(k, n)
    PROVE  /\ attempt'[k][n] # None
           /\ attempt[k][n].status # "IN_PROGRESS" => attempt'[k][n].status # "IN_PROGRESS"
<1>1. attempt \in [Keys -> [Numbers -> Submission \cup {None}]]
  BY DEF IndInv, TypeOK
<1>2. CASE UNCHANGED attempt
  BY <1>2 DEF Exists
<1>3. ASSUME NEW j \in Keys, NEW m \in Numbers, NEW row \in Submission,
             SetAttempt(j, m, row),
             \/ ~Exists(j, m)
             \/ row.status \in {attempt[j][m].status} \cup (Status \ {"IN_PROGRESS"})
      PROVE  /\ attempt'[k][n] # None
             /\ attempt[k][n].status # "IN_PROGRESS" => attempt'[k][n].status # "IN_PROGRESS"
  <2>1. CASE j = k /\ m = n
    <3>1. attempt'[k][n] = row
      BY <1>1, <1>3, <2>1 DEF SetAttempt
    <3> QED BY <1>3, <2>1, <3>1, NoneAssumption
  <2>2. CASE j # k \/ m # n
    <3>1. attempt'[k][n] = attempt[k][n]
      BY <1>1, <1>3, <2>2 DEF SetAttempt
    <3> QED BY <1>3, <3>1 DEF Exists
  <2> QED BY <2>1, <2>2
<1>4. ASSUME NEW r \in Requests, CreateInsert(r), ~UNCHANGED attempt
      PROVE  \E j \in Keys, m \in Numbers :
                SetAttempt(j, m, NewAttempt) /\ ~Exists(j, m)
  <2>1. request[r] \in InFlight
    BY <1>4 DEF CreateInsert, Resumes, Busy, IndInv, TypeOK
  <2> QED BY <1>4, <2>1 DEF CreateInsert, InFlight
<1>5. NewAttempt \in Submission
  BY AttemptsAssumption DEF NewAttempt, Submission, Status, Scores
<1>6. ASSUME NEW r \in Requests, SaveUpsert(r) \/ SubmitWrite(r) \/ GradeWrite(r)
      PROVE  \E j \in Keys, m \in Numbers, row \in Submission :
                /\ SetAttempt(j, m, row)
                /\ row.status \in {attempt[j][m].status} \cup (Status \ {"IN_PROGRESS"})
  <2> DEFINE j == request[r].key
             m == request[r].number
             x == request[r].score
             old == attempt[j][m]
  <2>1. Busy(r) /\ request[r].next \in Loaded
    BY <1>6 DEF SaveUpsert, SubmitWrite, GradeWrite, Resumes, Loaded
  <2>2. j \in Keys /\ m \in Numbers /\ x \in Scores /\ old \in Submission
    BY <2>1, LoadedRow DEF InFlight
  <2>3. CASE SaveUpsert(r)
    <3> DEFINE saved == [status |-> old.status, answers |-> x, scoreXp |-> old.scoreXp]
    <3>1. SetAttempt(j, m, saved)
      BY <2>3 DEF SaveUpsert
    <3>2. saved \in Submission /\ saved.status = old.status
      BY <2>2 DEF Submission
    <3> HIDE DEF saved
    <3> QED BY <2>2, <3>1, <3>2
  <2>4. ASSUME NEW status \in Status \ {"IN_PROGRESS"}, Settle(j, m, status, x)
        PROVE  \E row \in Submission :
                  SetAttempt(j, m, row) /\ row.status \in Status \ {"IN_PROGRESS"}
    <3> DEFINE row == [status |-> status, answers |-> old.answers, scoreXp |-> x]
    <3>1. SetAttempt(j, m, row)
      BY <2>4 DEF Settle
    <3>2. row \in Submission /\ row.status = status
      BY <2>2 DEF Submission
    <3> HIDE DEF row
    <3> QED BY <2>4, <3>1, <3>2
  <2>5. CASE SubmitWrite(r)
    <3>1. PICK status \in Status \ {"IN_PROGRESS"} :
             Settle(j, m, status, x)
      BY <2>5 DEF SubmitWrite, Status
    <3> QED BY <2>2, <2>4, <3>1
  <2>6. CASE GradeWrite(r)
    <3>1. Settle(j, m, "GRADED", x)
      BY <2>6 DEF GradeWrite
    <3> QED BY <2>2, <2>4, <3>1 DEF Status
  <2> QED BY <1>6, <2>3, <2>5, <2>6
<1>7. ASSUME NEW r \in Requests, RequestStep(r)
      PROVE  \/ UNCHANGED attempt
             \/ CreateInsert(r)
             \/ SaveUpsert(r) \/ SubmitWrite(r) \/ GradeWrite(r)
  BY <1>7 DEF RequestStep, CreateReadAssignment, SubmitLoad, SaveLoad, LoadDraft, GradeRead,
              Start, CreateFindDraft, CreateCount, CreateFindFinished, SubmitReadAssignment,
              SubmitReadAnswers, RequestDies, tables
<1>8. ASSUME NEW j \in Keys, RemoveAssignment(j) PROVE attempt'[k][n] = attempt[k][n]
  BY <1>1, <1>8 DEF RemoveAssignment
<1>9. ASSUME NEW j \in Keys, NEW l \in Numbers \cup {None}, NEW open \in BOOLEAN,
             Update(j, l, open)
      PROVE  UNCHANGED attempt
  BY <1>9 DEF Update
<1> QED BY <1>2, <1>3, <1>4, <1>5, <1>6, <1>7, <1>8, <1>9 DEF Next, Exists

\* submissions.service.ts:120-340, 439-540: a stale save, submit or grade may
\* overwrite an attempt, and may send a graded one back to review when the
\* response mode was edited, but never makes it a draft and never loses it.
THEOREM HandedInForGood == Spec => NeverDraftAgain
<1>1. ASSUME IndInv, Next
      PROVE  \A k \in Keys : \A n \in Numbers : Exists(k, n) /\ k \notin removed' =>
                /\ attempt'[k][n] # None
                /\ attempt[k][n].status # "IN_PROGRESS" => attempt'[k][n].status # "IN_PROGRESS"
  BY <1>1, AttemptStep
<1> QED
  BY <1>1, Invariance, PTL DEF Spec, NeverDraftAgain

\* Attempts are numbered without a gap, and within the limits there were.
THEOREM WellNumbered == Spec => []NumberedWithinLimits
BY NumberedWithoutGap, NoAttemptTooMany, PTL DEF NumberedWithinLimits

-----------------------------------------------------------------------------
(***************************************************************************)
(* Requests that are alone with their student and assignment.  What such a *)
(* request read is still true when it writes (Fresh); RetakesKnown says    *)
(* that a limit of two or more, once set or once read, is remembered.      *)
(***************************************************************************)

OnDraft == {"upsertAnswers", "readAssignment", "readAnswers", "submit"}

Fresh(q) ==
    /\ q.next \in Counted \cup {"count"} => Draft(q.key) = {}
    /\ q.next \in Counted => \A n \in Numbers : Exists(q.key, n) <=> n <= q.number
    /\ q.next = "create" /\ Finished(q.key) # {} => AllowsRetakes(q.limit)
    /\ q.next \in OnDraft => q.number \in Draft(q.key)
    /\ q.next = "submit" => q.score = attempt[q.key][q.number].answers
    /\ q.next = "grade" => q.number \in Finished(q.key)

Alone(r) == Busy(r) /\ request[r].key \notin overlapped

AloneIsFresh ==
    \A r \in Requests : Alone(r) =>
        /\ Fresh(request[r])
        /\ \A q \in Requests : Busy(q) /\ request[q].key = request[r].key => q = r

Remembered(q) == q.next \in Creating /\ AllowsRetakes(q.limit) => q.key \in generous

RetakesKnown ==
    /\ \A k \in Keys : AllowsRetakes(maxAttempts[k]) => k \in generous
    /\ \A r \in Requests : Busy(r) => Remembered(request[r])

KeySound(k) ==
    /\ \A d \in Draft(k) : \A n \in Numbers : Exists(k, n) => n <= d
    /\ k \notin generous => \A n \in Numbers : Exists(k, n) => n = 1
    /\ \A n \in Finished(k) : attempt[k][n].status = "AUTO_GRADED" =>
          attempt[k][n].scoreXp = attempt[k][n].answers

KeysSound == \A k \in Keys \ overlapped : KeySound(k)

AloneInv == AloneIsFresh /\ RetakesKnown /\ KeysSound

LEMMA InitAloneInv == Init => AloneInv
<1> SUFFICES ASSUME Init PROVE AloneInv
  OBVIOUS
<1>1. \A r \in Requests : ~Busy(r)
  BY DEF Init, Busy
<1>2. \A k \in Keys : \A n \in Numbers : ~Exists(k, n)
  BY DEF Init, Exists
<1>3. AloneIsFresh
  BY <1>1 DEF AloneIsFresh, Alone
<1>4. RetakesKnown
  BY <1>1 DEF RetakesKnown, Init
<1>5. KeysSound
  BY <1>2 DEF KeysSound, KeySound, Draft, Finished
<1> QED BY <1>3, <1>4, <1>5 DEF AloneInv

\* What is said of an assignment's attempts depends on their rows only.
LEMMA SameAttempts ==
    ASSUME NEW k, \A n \in Numbers : attempt'[k][n] = attempt[k][n]
    PROVE  /\ \A n \in Numbers : Exists(k, n)' <=> Exists(k, n)
           /\ Draft(k)' = Draft(k)
           /\ Finished(k)' = Finished(k)
<1>1. \A n \in Numbers : Exists(k, n)' <=> Exists(k, n)
  BY DEF Exists
<1>2. Draft(k)' = Draft(k)
  BY <1>1 DEF Draft
<1> QED BY <1>1, <1>2 DEF Finished

LEMMA SameFresh ==
    ASSUME NEW q \in InFlight, Fresh(q), q.next \in Loaded => q.number \in Numbers,
           \A n \in Numbers : attempt'[q.key][n] = attempt[q.key][n]
    PROVE  Fresh(q)'
<1>1. PICK k : k = q.key
  OBVIOUS
<1>2. /\ \A n \in Numbers : Exists(k, n)' <=> Exists(k, n)
      /\ Draft(k)' = Draft(k)
      /\ Finished(k)' = Finished(k)
  BY <1>1, SameAttempts
<1> QED BY <1>1, <1>2 DEF Fresh, Loaded

LEMMA SameKeySound ==
    ASSUME NEW k, KeySound(k), \A n \in Numbers : attempt'[k][n] = attempt[k][n],
           generous \subseteq generous'
    PROVE  KeySound(k)'
<1>1. /\ \A n \in Numbers : Exists(k, n)' <=> Exists(k, n)
      /\ Draft(k)' = Draft(k)
      /\ Finished(k)' = Finished(k)
  BY SameAttempts
<1>2. Finished(k) \subseteq Numbers
  BY DEF Finished
<1> QED BY <1>1, <1>2 DEF KeySound

\* A request moves; the tables stay.
LEMMA AloneRequest ==
    ASSUME IndInv, AloneInv, NEW r \in Requests, NEW q \in InFlight \cup {None},
           request' = [request EXCEPT ![r] = q],
           UNCHANGED <<tables, generous>>, overlapped \subseteq overlapped',
           q # None => Remembered(q),
           q # None /\ q.key \notin overlapped' =>
               /\ Fresh(q)
               /\ \A p \in Requests : Busy(p) /\ request[p].key = q.key => p = r
    PROVE  AloneInv'
<1>1. request'[r] = q /\ \A p \in Requests : p # r => request'[p] = request[p]
  BY DEF IndInv, TypeOK
<1>2. AloneIsFresh'
  <2> SUFFICES ASSUME NEW p \in Requests, Alone(p)'
               PROVE  /\ Fresh(request[p])'
                      /\ \A s \in Requests : Busy(s)' /\ request'[s].key = request'[p].key => s = p
    BY DEF AloneIsFresh
  <2>1. CASE p = r
    <3>1. q # None /\ q.key \notin overlapped'
      BY <1>1, <2>1 DEF Alone, Busy
    <3>2. Fresh(q)'
      BY <3>1 DEF Fresh, Draft, Finished, Exists, tables
    <3>3. Fresh(request[p])'
      BY <1>1, <2>1, <3>2 DEF Fresh, Draft, Finished, Exists
    <3> QED BY <1>1, <2>1, <3>1, <3>3 DEF Busy
  <2>2. CASE p # r
    <3>1. request'[p] = request[p] /\ Alone(p)
      BY <1>1, <2>2 DEF Alone, Busy
    <3>2. Fresh(request[p]) /\ \A s \in Requests : Busy(s) /\ request[s].key = request[p].key => s = p
      BY <3>1 DEF AloneInv, AloneIsFresh
    <3>3. Fresh(request[p])'
      BY <3>1, <3>2 DEF Fresh, Draft, Finished, Exists, tables
    <3>4. ~(Busy(r)' /\ request'[r].key = request[p].key)
      BY <1>1, <2>2, <3>1 DEF Busy, Alone
    <3> QED BY <1>1, <3>1, <3>2, <3>3, <3>4 DEF Busy
  <2> QED BY <2>1, <2>2
<1>3. RetakesKnown'
  BY <1>1 DEF AloneInv, RetakesKnown, Remembered, Busy, tables, assignment
<1>4. KeysSound'
  BY SameKeySound DEF AloneInv, KeysSound, tables
<1> QED BY <1>2, <1>3, <1>4 DEF AloneInv

LEMMA AloneFinish ==
    ASSUME IndInv, AloneInv, NEW r \in Requests, Finish(r), UNCHANGED <<tables, history>>
    PROVE  AloneInv'
BY AloneRequest DEF Finish, history

\* A request starts: if it is not alone, its key is marked.
LEMMA AloneStart ==
    ASSUME IndInv, AloneInv, NEW r \in Requests, NEW s \in Statement, NEW k \in Keys,
           NEW n \in 0 .. MaxNo, NEW x \in Scores, NEW limit \in Numbers \cup {None},
           Start(r, s, k, n, x, limit),
           Fresh([next |-> s, key |-> k, number |-> n, score |-> x, limit |-> limit, review |-> FALSE]),
           s \in Creating => limit = maxAttempts[k]
    PROVE  AloneInv'
<1>1. PICK q : q = [next |-> s, key |-> k, number |-> n, score |-> x, limit |-> limit, review |-> FALSE]
  OBVIOUS
<1>2. q \in InFlight /\ Fresh(q) /\ q.key = k
  BY <1>1 DEF InFlight
<1>3. /\ request' = [request EXCEPT ![r] = q]
      /\ UNCHANGED <<tables, generous>> /\ overlapped \subseteq overlapped'
      /\ k \notin overlapped' => \A p \in Requests : ~(Busy(p) /\ request[p].key = k)
  BY <1>1 DEF Start, Await
<1>4. Remembered(q)
  BY <1>1 DEF Remembered, AloneInv, RetakesKnown
<1> QED BY <1>2, <1>3, <1>4, AloneRequest

LEMMA AloneAwait ==
    ASSUME IndInv, AloneInv, NEW r \in Requests, Busy(r),
           NEW s \in Statement, NEW n \in 0 .. MaxNo, NEW x \in Scores,
           NEW b \in BOOLEAN,
           Await(r, s, request[r].key, n, x, request[r].limit, b), UNCHANGED <<tables, history>>,
           s \in Creating => request[r].next \in Creating,
           Alone(r) => Fresh([next |-> s, key |-> request[r].key, number |-> n, score |-> x,
                              limit |-> request[r].limit, review |-> b])
    PROVE  AloneInv'
<1>1. PICK q : q = [next |-> s, key |-> request[r].key, number |-> n, score |-> x,
                    limit |-> request[r].limit, review |-> b]
  OBVIOUS
<1>2. request[r] \in InFlight
  BY DEF IndInv, TypeOK, Busy
<1>3. q \in InFlight
  BY <1>1, <1>2 DEF InFlight
<1>4. /\ request' = [request EXCEPT ![r] = q]
      /\ UNCHANGED <<tables, generous, overlapped>>
  BY <1>1 DEF Await, history
<1>5. Remembered(q)
  BY <1>1 DEF Remembered, AloneInv, RetakesKnown
<1>6. q.key \notin overlapped' =>
          Fresh(q) /\ \A p \in Requests : Busy(p) /\ request[p].key = q.key => p = r
  BY <1>1, <1>4 DEF Alone, AloneInv, AloneIsFresh
<1> QED BY <1>3, <1>4, <1>5, <1>6, AloneRequest

LEMMA AloneGoes ==
    ASSUME IndInv, AloneInv, NEW r \in Requests, Busy(r),
           NEW s \in Statement, NEW n \in 0 .. MaxNo, NEW x \in Scores,
           Goes(r, s, n, x), UNCHANGED <<tables, history>>,
           s \in Creating => request[r].next \in Creating,
           Alone(r) => Fresh([next |-> s, key |-> request[r].key, number |-> n, score |-> x,
                              limit |-> request[r].limit, review |-> request[r].review])
    PROVE  AloneInv'
<1>1. request[r].review \in BOOLEAN
  BY DEF IndInv, TypeOK, Busy, InFlight
<1> QED BY <1>1, AloneAwait DEF Goes

LEMMA AloneCreating ==
    ASSUME IndInv, AloneInv, NEW r \in Requests,
           \/ \E k \in Keys : CreateReadAssignment(r, k)
           \/ CreateFindDraft(r)
           \/ CreateCount(r)
           \/ CreateFindFinished(r)
    PROVE  AloneInv'
<1>0. 0 \in 0 .. MaxNo /\ 0 \in Scores
  BY AttemptsAssumption DEF Scores
<1>1. ASSUME NEW k \in Keys, CreateReadAssignment(r, k) PROVE AloneInv'
  <2>1. maxAttempts[k] \in Numbers \cup {None}
    BY DEF IndInv, TypeOK
  <2>2. Fresh([next |-> "findDraft", key |-> k, number |-> 0, score |-> 0,
               limit |-> maxAttempts[k], review |-> FALSE])
    BY DEF Fresh, Counted, OnDraft
  <2> QED BY <1>0, <1>1, <2>1, <2>2, AloneStart DEF CreateReadAssignment, Statement
<1>2. ASSUME Busy(r) PROVE request[r] \in InFlight /\ (Alone(r) => Fresh(request[r]))
  BY <1>2 DEF IndInv, TypeOK, Busy, AloneInv, AloneIsFresh
<1>3. ASSUME CreateFindDraft(r) PROVE AloneInv'
  <2>1. Busy(r) /\ request[r].next = "findDraft"
    BY <1>3 DEF CreateFindDraft, Resumes
  <2>2. CASE Finish(r)
    BY <1>3, <2>2, AloneFinish DEF CreateFindDraft
  <2>3. CASE Draft(request[r].key) = {} /\ Goes(r, "count", 0, 0)
    <3>1. Fresh([next |-> "count", key |-> request[r].key, number |-> 0, score |-> 0,
                 limit |-> request[r].limit, review |-> request[r].review])
      BY <2>3 DEF Fresh, Counted, OnDraft
    <3> QED BY <1>0, <1>3, <2>1, <2>3, <3>1, AloneGoes DEF CreateFindDraft, Statement, Creating
  <2> QED BY <1>3, <2>2, <2>3 DEF CreateFindDraft
<1>4. ASSUME CreateCount(r) PROVE AloneInv'
  <2>0. PICK c : c = Count(request[r].key)
    OBVIOUS
  <2>1. /\ Busy(r) /\ request[r].next = "count"
        /\ request[r] \in InFlight /\ (Alone(r) => Fresh(request[r]))
    BY <1>2, <1>4 DEF CreateCount, Resumes
  <2>2. CASE Finish(r)
    BY <1>4, <2>2, AloneFinish DEF CreateCount
  <2>3. CASE Goes(r, "findFinished", c, 0)
    <3>1. c \in 0 .. MaxNo /\ \A n \in Numbers : Exists(request[r].key, n) <=> n <= c
      BY <2>0, <2>1, CountIsLatest DEF InFlight
    <3>2. Alone(r) => Fresh([next |-> "findFinished", key |-> request[r].key, number |-> c,
                             score |-> 0, limit |-> request[r].limit, review |-> request[r].review])
      BY <2>1, <3>1 DEF Fresh, Counted, OnDraft
    <3> QED BY <1>0, <1>4, <2>1, <2>3, <3>1, <3>2, AloneGoes DEF CreateCount, Statement, Creating
  <2> QED BY <1>4, <2>0, <2>2, <2>3 DEF CreateCount
<1>5. ASSUME CreateFindFinished(r) PROVE AloneInv'
  <2>1. /\ Busy(r) /\ request[r].next = "findFinished"
        /\ request[r] \in InFlight /\ (Alone(r) => Fresh(request[r]))
    BY <1>2, <1>5 DEF CreateFindFinished, Resumes
  <2>2. CASE Finish(r)
    BY <1>5, <2>2, AloneFinish DEF CreateFindFinished
  <2>3. CASE /\ Finished(request[r].key) # {} => AllowsRetakes(request[r].limit)
             /\ Goes(r, "create", request[r].number, 0)
    <3>1. Alone(r) => Fresh([next |-> "create", key |-> request[r].key,
                             number |-> request[r].number, score |-> 0,
                             limit |-> request[r].limit, review |-> request[r].review])
      BY <2>1, <2>3 DEF Fresh, Counted, OnDraft
    <3>2. request[r].number \in 0 .. MaxNo
      BY <2>1 DEF InFlight
    <3> QED BY <1>0, <1>5, <2>1, <2>3, <3>1, <3>2, AloneGoes
            DEF CreateFindFinished, Statement, Creating
  <2> QED BY <1>5, <2>2, <2>3 DEF CreateFindFinished
<1> QED BY <1>1, <1>3, <1>4, <1>5

LEMMA AloneLoading ==
    ASSUME IndInv, AloneInv, NEW r \in Requests, NEW k \in Keys, NEW n \in Numbers,
           \/ SubmitLoad(r, k, n)
           \/ \E x \in Scores : SaveLoad(r, k, n, x) \/ GradeRead(r, k, n, x)
    PROVE  AloneInv'
<1>0. n \in 0 .. MaxNo /\ 0 \in Scores
  BY AttemptsAssumption DEF Numbers, Scores
<1>1. ASSUME NEW s \in {"upsertAnswers", "readAssignment"}, NEW x \in Scores, LoadDraft(r, k, n, s, x)
      PROVE  AloneInv'
  <2>1. Fresh([next |-> s, key |-> k, number |-> n, score |-> x, limit |-> None, review |-> FALSE])
    BY <1>1 DEF LoadDraft, Fresh, Counted
  <2> QED BY <1>0, <1>1, <2>1, AloneStart DEF LoadDraft, Statement, Creating
<1>2. ASSUME NEW x \in Scores, GradeRead(r, k, n, x) PROVE AloneInv'
  <2>1. n \in Finished(k)
    BY <1>2 DEF GradeRead, Finished, Draft
  <2>2. Fresh([next |-> "grade", key |-> k, number |-> n, score |-> x, limit |-> None, review |-> FALSE])
    BY <2>1 DEF Fresh, Counted, OnDraft
  <2> QED BY <1>0, <1>2, <2>2, AloneStart DEF GradeRead, Statement, Creating
<1> QED BY <1>0, <1>1, <1>2 DEF SubmitLoad, SaveLoad

LEMMA AloneSubmitReadMode ==
    ASSUME IndInv, AloneInv, NEW r \in Requests, SubmitReadAssignment(r)
    PROVE  AloneInv'
<1>1. Busy(r) /\ request[r].next = "readAssignment"
  BY DEF SubmitReadAssignment, Resumes
<1>2. /\ request[r].number \in Numbers /\ request[r].number \in 0 .. MaxNo
      /\ request[r].key \in Keys /\ 0 \in Scores
  BY <1>1, LoadedRow, AttemptsAssumption DEF Loaded, InFlight, Scores
<1>3. PICK b \in BOOLEAN : b = hasOpen[request[r].key]
  BY <1>2 DEF IndInv, TypeOK
<1>4. Alone(r) => Fresh([next |-> "readAnswers", key |-> request[r].key,
                         number |-> request[r].number, score |-> 0,
                         limit |-> request[r].limit, review |-> b])
  BY <1>1 DEF AloneInv, AloneIsFresh, Fresh, Counted, OnDraft
<1> QED BY <1>1, <1>2, <1>3, <1>4, AloneAwait DEF SubmitReadAssignment, Statement, Creating

LEMMA AloneSubmitRead ==
    ASSUME IndInv, AloneInv, NEW r \in Requests, SubmitReadAnswers(r)
    PROVE  AloneInv'
<1>1. Busy(r) /\ request[r].next = "readAnswers"
  BY DEF SubmitReadAnswers, Resumes
<1>2. /\ request[r].number \in Numbers /\ request[r].number \in 0 .. MaxNo
      /\ attempt[request[r].key][request[r].number].answers \in Scores
  BY <1>1, LoadedRow DEF Loaded, InFlight, Submission
<1>3. Alone(r) => Fresh([next |-> "submit", key |-> request[r].key,
                         number |-> request[r].number,
                         score |-> attempt[request[r].key][request[r].number].answers,
                         limit |-> request[r].limit, review |-> request[r].review])
  BY <1>1 DEF AloneInv, AloneIsFresh, Fresh, Counted, OnDraft
<1> QED BY <1>1, <1>2, <1>3, AloneGoes DEF SubmitReadAnswers, Statement, Creating

-----------------------------------------------------------------------------
(***************************************************************************)
(* What they write.                                                        *)
(***************************************************************************)

Writes(r, k, n, row) ==
    /\ Busy(r) /\ request[r].key = k
    /\ SetAttempt(k, n, row) /\ Finish(r)
    /\ UNCHANGED <<assignment, history>>

LEMMA WrittenRows ==
    ASSUME IndInv, NEW r \in Requests, NEW k \in Keys, NEW n \in Numbers, NEW row \in Submission,
           Writes(r, k, n, row)
    PROVE  /\ attempt'[k][n] = row /\ row # None
           /\ \A m \in Numbers : m # n => attempt'[k][m] = attempt[k][m]
           /\ \A j \in Keys : j # k => \A m \in Numbers : attempt'[j][m] = attempt[j][m]
BY NoneAssumption DEF Writes, SetAttempt, IndInv, TypeOK

\* A request that is alone writes: the others work on other assignments.
LEMMA AloneWrite ==
    ASSUME IndInv, AloneInv, NEW r \in Requests, NEW k \in Keys, NEW n \in Numbers,
           NEW row \in Submission, Writes(r, k, n, row),
           k \notin overlapped => KeySound(k)'
    PROVE  AloneInv'
<1>1. \A j \in Keys : j # k => \A m \in Numbers : attempt'[j][m] = attempt[j][m]
  BY WrittenRows
<1>2. /\ UNCHANGED <<maxAttempts, generous, overlapped>>
      /\ \A p \in Requests : Busy(p)' => p # r /\ Busy(p) /\ request'[p] = request[p]
  BY DEF Writes, Finish, history, Busy, IndInv, TypeOK, assignment
<1>3. AloneIsFresh'
  <2> SUFFICES ASSUME NEW p \in Requests, Alone(p)'
               PROVE  /\ Fresh(request[p])'
                      /\ \A s \in Requests : Busy(s)' /\ request'[s].key = request'[p].key => s = p
    BY DEF AloneIsFresh
  <2>1. PICK q : q = request[p]
    OBVIOUS
  <2>2. request'[p] = q /\ Alone(p) /\ p # r
    BY <1>2, <2>1 DEF Alone
  <2>3. q \in InFlight /\ Sound(q) /\ Fresh(q) /\ q.key \in Keys
    BY <2>1, <2>2 DEF Alone, Busy, IndInv, TypeOK, RequestSound, AloneInv, AloneIsFresh, InFlight
  <2>4. q.key # k
    BY <2>1, <2>2 DEF Writes, Alone, AloneInv, AloneIsFresh
  <2>5. Fresh(q)'
    BY <1>1, <2>3, <2>4, SameFresh DEF Sound
  <2>6. Fresh(request[p])'
    BY <2>2, <2>5 DEF Fresh, Draft, Finished, Exists
  <2>7. \A s \in Requests : Busy(s) /\ request[s].key = request[p].key => s = p
    BY <2>2 DEF AloneInv, AloneIsFresh
  <2>8. \A s \in Requests : Busy(s)' /\ request'[s].key = request'[p].key => s = p
    BY <1>2, <2>1, <2>2, <2>7
  <2> QED BY <2>6, <2>8
<1>4. RetakesKnown'
  BY <1>2 DEF AloneInv, RetakesKnown, Remembered
<1>5. KeysSound'
  BY <1>1, <1>2, SameKeySound DEF AloneInv, KeysSound
<1> QED BY <1>3, <1>4, <1>5 DEF AloneInv

\* Without retakes there is no attempt yet when one is created; and the new
\* one, the only draft, is the latest.
LEMMA AloneInsert ==
    ASSUME IndInv, AloneInv, NEW r \in Requests, CreateInsert(r)
    PROVE  AloneInv'
<1>1. PICK k, c : k = request[r].key /\ c = request[r].number
  OBVIOUS
<1>2. /\ Busy(r) /\ request[r].next = "create" /\ request[r] \in InFlight
      /\ k \in Keys /\ c \in 0 .. MaxNo /\ c + 1 \in Numbers
  BY <1>1 DEF CreateInsert, Resumes, IndInv, TypeOK, Busy, InFlight
<1>3. CASE Exists(k, c + 1)
  <2>1. UNCHANGED <<tables, history>> /\ Finish(r)
    BY <1>1, <1>3 DEF CreateInsert, tables
  <2> QED BY <2>1, AloneFinish
<1>4. CASE ~Exists(k, c + 1)
  <2>1. Writes(r, k, c + 1, NewAttempt)
    BY <1>1, <1>2, <1>4 DEF CreateInsert, Writes
  <2>2. NewAttempt \in Submission /\ NewAttempt.status = "IN_PROGRESS"
    BY AttemptsAssumption DEF NewAttempt, Submission, Status, Scores
  <2>3. ASSUME k \notin overlapped PROVE KeySound(k)'
    <3>1. /\ Draft(k) = {}
          /\ \A n \in Numbers : Exists(k, n) <=> n <= c
          /\ Finished(k) # {} => k \in generous
      BY <1>1, <1>2, <2>3 DEF AloneInv, AloneIsFresh, RetakesKnown, Remembered, Alone, Fresh,
         Counted, Creating
    <3>2. /\ attempt'[k][c + 1] = NewAttempt /\ NewAttempt # None
          /\ \A m \in Numbers : m # c + 1 => attempt'[k][m] = attempt[k][m]
      BY <1>2, <2>1, <2>2, WrittenRows
    <3>3. /\ \A n \in Numbers : Exists(k, n)' <=> Exists(k, n) \/ n = c + 1
          /\ Draft(k)' = {c + 1}
          /\ Finished(k)' = Finished(k)
      <4>1. \A n \in Numbers : Exists(k, n)' <=> Exists(k, n) \/ n = c + 1
        BY <3>2 DEF Exists
      <4>2. Draft(k)' = {c + 1}
        BY <1>2, <2>2, <3>1, <3>2, <4>1 DEF Draft
      <4> QED BY <1>2, <1>4, <3>1, <4>1, <4>2 DEF Finished
    <3>4. \A n \in Finished(k) : n \in Numbers /\ n # c + 1
      BY <1>4 DEF Finished
    <3>5. \A d \in Draft(k)' : \A n \in Numbers : Exists(k, n)' => n <= d
      BY <1>2, <3>1, <3>3, AttemptsAssumption DEF Numbers
    <3>6. k \notin generous' => \A n \in Numbers : Exists(k, n)' => n = 1
      <4> SUFFICES ASSUME k \notin generous PROVE c = 0
        BY <1>2, <2>1, <3>1, <3>3, AttemptsAssumption DEF Writes, history, Numbers
      <4>1. \A n \in Numbers : ~Exists(k, n)
        BY <3>1 DEF Finished
      <4> QED BY <1>2, <3>1, <4>1, AttemptsAssumption DEF Numbers
    <3>7. \A n \in Finished(k)' : attempt'[k][n].status = "AUTO_GRADED" =>
              attempt'[k][n].scoreXp = attempt'[k][n].answers
      BY <2>3, <1>2, <3>2, <3>3, <3>4 DEF AloneInv, KeysSound, KeySound
    <3> QED BY <3>5, <3>6, <3>7 DEF KeySound
  <2> QED BY <1>2, <2>1, <2>2, <2>3, AloneWrite
<1> QED BY <1>3, <1>4

\* What is saved, submitted or graded; alone, only drafts are saved and
\* submitted, and a grade leaves the answers as they are.
OnlyAsRead(k, n, row) ==
    /\ \/ n \in Draft(k)
       \/ /\ n \in Finished(k)
          /\ row.status = "GRADED" /\ row.answers = attempt[k][n].answers
    /\ row.status = "IN_PROGRESS" => n \in Draft(k)
    /\ row.status = "AUTO_GRADED" => row.scoreXp = row.answers

LEMMA SheetWrites ==
    ASSUME IndInv, AloneInv, NEW r \in Requests, SaveUpsert(r) \/ SubmitWrite(r) \/ GradeWrite(r)
    PROVE  \E k \in Keys, n \in Numbers, row \in Submission :
              /\ Writes(r, k, n, row) /\ Exists(k, n)
              /\ k \notin overlapped => OnlyAsRead(k, n, row)
<1>1. PICK k, n, x, old : /\ k = request[r].key /\ n = request[r].number
                          /\ x = request[r].score /\ old = attempt[k][n]
  OBVIOUS
<1>2. Busy(r) /\ request[r].next \in Loaded
  BY DEF SaveUpsert, SubmitWrite, GradeWrite, Resumes, Loaded
<1>3. /\ k \in Keys /\ n \in Numbers /\ x \in Scores /\ Exists(k, n) /\ old \in Submission
  BY <1>1, <1>2, LoadedRow DEF InFlight
<1>4. k \notin overlapped => Fresh(request[r])
  BY <1>1, <1>2 DEF AloneInv, AloneIsFresh, Alone
<1>5. CASE SaveUpsert(r)
  <2>1. PICK row : row = [status |-> old.status, answers |-> x, scoreXp |-> old.scoreXp]
    OBVIOUS
  <2>2. Writes(r, k, n, row) /\ row \in Submission
    BY <1>1, <1>2, <1>3, <1>5, <2>1 DEF SaveUpsert, Writes, Submission
  <2>3. k \notin overlapped => n \in Draft(k) /\ row.status = "IN_PROGRESS"
    BY <1>1, <1>4, <1>5, <2>1 DEF SaveUpsert, Resumes, Fresh, OnDraft, Draft
  <2> QED BY <1>3, <2>2, <2>3 DEF OnlyAsRead
<1>6. CASE SubmitWrite(r)
  <2>1. PICK status \in {"PENDING_REVIEW", "AUTO_GRADED"} : Settle(k, n, status, x)
    BY <1>1, <1>6 DEF SubmitWrite
  <2>2. PICK row : row = [status |-> status, answers |-> old.answers, scoreXp |-> x]
    OBVIOUS
  <2>3. Writes(r, k, n, row) /\ row \in Submission
    BY <1>1, <1>2, <1>3, <1>6, <2>1, <2>2 DEF SubmitWrite, Settle, Writes, Submission, Status
  <2>4. k \notin overlapped => n \in Draft(k) /\ row.scoreXp = row.answers
    BY <1>1, <1>4, <1>6, <2>2 DEF SubmitWrite, Resumes, Fresh, OnDraft
  <2> QED BY <1>3, <2>2, <2>3, <2>4 DEF OnlyAsRead
<1>7. CASE GradeWrite(r)
  <2>1. PICK row : row = [status |-> "GRADED", answers |-> old.answers, scoreXp |-> x]
    OBVIOUS
  <2>2. Writes(r, k, n, row) /\ row \in Submission
    BY <1>1, <1>2, <1>3, <1>7, <2>1 DEF GradeWrite, Settle, Writes, Submission, Status
  <2>3. k \notin overlapped => n \in Finished(k)
    BY <1>1, <1>4, <1>7 DEF GradeWrite, Resumes, Fresh
  <2> QED BY <1>1, <1>3, <2>1, <2>2, <2>3 DEF OnlyAsRead
<1> QED BY <1>5, <1>6, <1>7

LEMMA AloneSheet ==
    ASSUME IndInv, AloneInv, NEW r \in Requests, SaveUpsert(r) \/ SubmitWrite(r) \/ GradeWrite(r)
    PROVE  AloneInv'
<1>1. PICK k \in Keys, n \in Numbers, row \in Submission :
        /\ Writes(r, k, n, row) /\ Exists(k, n)
        /\ k \notin overlapped => OnlyAsRead(k, n, row)
  BY SheetWrites
<1>2. ASSUME k \notin overlapped PROVE KeySound(k)'
  <2>1. KeySound(k) /\ OnlyAsRead(k, n, row)
    BY <1>1, <1>2 DEF AloneInv, KeysSound
  <2>2. /\ attempt'[k][n] = row /\ row # None
        /\ \A m \in Numbers : m # n => attempt'[k][m] = attempt[k][m]
        /\ UNCHANGED generous
    BY <1>1, WrittenRows DEF Writes, history
  <2>3. \A m \in Numbers : Exists(k, m)' <=> Exists(k, m)
    BY <1>1, <2>2 DEF Exists
  <2>4. Draft(k)' \subseteq Draft(k)
    BY <2>1, <2>2, <2>3 DEF Draft, OnlyAsRead
  <2>5. \A m \in Finished(k)' : m = n \/ (m \in Finished(k) /\ m \in Numbers)
    BY <2>2, <2>3 DEF Finished, Draft
  <2>6. \A m \in Finished(k)' : attempt'[k][m].status = "AUTO_GRADED" =>
            attempt'[k][m].scoreXp = attempt'[k][m].answers
    BY <2>1, <2>2, <2>5 DEF KeySound, OnlyAsRead
  <2> QED BY <2>1, <2>2, <2>3, <2>4, <2>6 DEF KeySound
<1> QED BY <1>1, <1>2, AloneWrite

LEMMA AloneUpdate ==
    ASSUME IndInv, AloneInv, NEW k \in Keys, NEW limit \in Numbers \cup {None},
           NEW open \in BOOLEAN, Update(k, limit, open)
    PROVE  AloneInv'
<1>1. /\ UNCHANGED <<attempt, request, overlapped>> /\ generous \subseteq generous'
      /\ maxAttempts' = [maxAttempts EXCEPT ![k] = limit]
      /\ AllowsRetakes(limit) => k \in generous'
  BY DEF Update
<1>2. AloneIsFresh'
  BY <1>1 DEF AloneInv, AloneIsFresh, Alone, Busy, Fresh, Draft, Finished, Exists
<1>3. RetakesKnown'
  BY <1>1 DEF AloneInv, RetakesKnown, Remembered, Busy, IndInv, TypeOK
<1>4. KeysSound'
  BY <1>1, SameKeySound DEF AloneInv, KeysSound
<1> QED BY <1>2, <1>3, <1>4 DEF AloneInv

LEMMA AloneRemove ==
    ASSUME IndInv, AloneInv, NEW k \in Keys, RemoveAssignment(k)
    PROVE  AloneInv'
<1>1. /\ attempt' = [attempt EXCEPT ![k] = [n \in Numbers |-> None]]
      /\ request' = [r \in Requests |->
                        IF Busy(r) /\ request[r].key = k THEN None ELSE request[r]]
      /\ UNCHANGED <<maxAttempts, generous, overlapped>>
  BY DEF RemoveAssignment, history
<1>2. /\ \A n \in Numbers : ~Exists(k, n)'
      /\ \A j \in Keys : \A n \in Numbers : j # k => attempt'[j][n] = attempt[j][n]
  BY <1>1 DEF Exists, IndInv, TypeOK
<1>3. ASSUME NEW r \in Requests, Busy(r)'
      PROVE  request'[r] = request[r] /\ Busy(r) /\ request[r].key # k
  BY <1>1, <1>3 DEF Busy
<1>4. AloneIsFresh'
  <2> SUFFICES ASSUME NEW r \in Requests, Alone(r)'
               PROVE  /\ Fresh(request[r])'
                      /\ \A q \in Requests : Busy(q)' /\ request'[q].key = request'[r].key => q = r
    BY DEF AloneIsFresh
  <2>1. request'[r] = request[r] /\ Alone(r) /\ request[r].key # k
    BY <1>1, <1>3 DEF Alone
  <2>2. /\ request[r] \in InFlight /\ Fresh(request[r]) /\ Sound(request[r])
        /\ \A q \in Requests : Busy(q) /\ request[q].key = request[r].key => q = r
    BY <2>1 DEF AloneInv, AloneIsFresh, Alone, Busy, IndInv, TypeOK, RequestSound
  <2>3. PICK p : p = request[r]
    OBVIOUS
  <2>4. p.next \in Loaded => p.number \in Numbers
    BY <2>2, <2>3 DEF Sound
  <2>5. Fresh(p)'
    BY <1>2, <2>1, <2>2, <2>3, <2>4, SameFresh DEF InFlight
  <2>6. request'[r] = p
    BY <2>1, <2>3
  <2>7. Fresh(request[r])'
    BY <2>5, <2>6 DEF Fresh, Draft, Finished, Exists
  <2>8. ASSUME NEW q \in Requests, Busy(q)', request'[q].key = request'[r].key PROVE q = r
    BY <1>3, <2>1, <2>2, <2>8
  <2> QED BY <2>7, <2>8
<1>5. RetakesKnown'
  BY <1>1, <1>3 DEF AloneInv, RetakesKnown, Remembered
<1>6. ASSUME NEW j \in Keys \ overlapped PROVE KeySound(j)'
  <2>1. CASE j = k
    BY <1>2, <2>1 DEF KeySound, Draft, Finished
  <2>2. CASE j # k
    BY <1>1, <1>2, <2>2, SameKeySound DEF AloneInv, KeysSound
  <2> QED BY <2>1, <2>2
<1>7. KeysSound'
  BY <1>1, <1>6 DEF KeysSound
<1> QED BY <1>4, <1>5, <1>7 DEF AloneInv

LEMMA NextAloneInv == IndInv /\ AloneInv /\ [Next]_vars => AloneInv'
<1> SUFFICES ASSUME IndInv, AloneInv, [Next]_vars PROVE AloneInv'
  OBVIOUS
<1>1. ASSUME NEW r \in Requests, RequestStep(r) PROVE AloneInv'
  BY <1>1, AloneCreating, AloneLoading, AloneInsert, AloneSheet, AloneSubmitReadMode,
         AloneSubmitRead, AloneFinish
     DEF RequestStep, RequestDies
<1>2. ASSUME NEW k \in Keys, NEW limit \in Numbers \cup {None}, NEW open \in BOOLEAN,
             Update(k, limit, open)
      PROVE  AloneInv'
  BY <1>2, AloneUpdate
<1>4. ASSUME NEW k \in Keys, RemoveAssignment(k) PROVE AloneInv'
  BY <1>4, AloneRemove
<1>3. CASE UNCHANGED vars
  <2>1. UNCHANGED <<tables, attempt, maxAttempts, request, generous, overlapped>>
    BY <1>3 DEF vars, tables, assignment, history
  <2>2. AloneIsFresh'
    BY <2>1 DEF AloneInv, AloneIsFresh, Alone, Busy, Fresh, Draft, Finished, Exists
  <2>3. RetakesKnown'
    BY <2>1 DEF AloneInv, RetakesKnown, Remembered, Busy
  <2>4. KeysSound'
    BY <2>1, SameKeySound DEF AloneInv, KeysSound
  <2> QED BY <2>2, <2>3, <2>4 DEF AloneInv
<1> QED BY <1>1, <1>2, <1>3, <1>4 DEF Next

LEMMA AloneInvariance == Spec => [](IndInv /\ AloneInv)
BY InitIndInv, NextIndInv, InitAloneInv, NextAloneInv, PTL DEF Spec

\* What the requests write of a row that was handed in.
LEMMA FinishedRows ==
    ASSUME IndInv, AloneInv, [Next]_vars,
           NEW k \in Keys \ (overlapped \cup removed'), NEW n \in Finished(k)
    PROVE  /\ attempt'[k][n].answers = attempt[k][n].answers
           /\ attempt[k][n].status = "GRADED" => attempt'[k][n].status = "GRADED"
<1>0. n \in Numbers /\ Exists(k, n) /\ n \notin Draft(k)
  BY DEF Finished
<1>1. ASSUME UNCHANGED attempt
      PROVE  /\ attempt'[k][n].answers = attempt[k][n].answers
             /\ attempt[k][n].status = "GRADED" => attempt'[k][n].status = "GRADED"
  BY <1>1
<1>2. ASSUME NEW r \in Requests, NEW j \in Keys, NEW m \in Numbers, NEW row \in Submission,
             Writes(r, j, m, row),
             ~Exists(j, m) \/ (j \notin overlapped => OnlyAsRead(j, m, row))
      PROVE  /\ attempt'[k][n].answers = attempt[k][n].answers
             /\ attempt[k][n].status = "GRADED" => attempt'[k][n].status = "GRADED"
  <2>1. CASE j = k /\ m = n
    BY <1>0, <1>2, <2>1, WrittenRows DEF OnlyAsRead
  <2>2. CASE ~(j = k /\ m = n)
    <3>1. attempt'[k][n] = attempt[k][n]
      BY <1>0, <1>2, <2>2, WrittenRows
    <3> QED BY <3>1
  <2> QED BY <2>1, <2>2
<1>3. ASSUME NEW r \in Requests, CreateInsert(r)
      PROVE  \/ UNCHANGED attempt
             \/ \E j \in Keys, m \in Numbers, row \in Submission :
                   Writes(r, j, m, row) /\ ~Exists(j, m)
  <2>1. PICK j, m : j = request[r].key /\ m = request[r].number + 1
    OBVIOUS
  <2>2. Busy(r) /\ j \in Keys /\ m \in Numbers
    BY <1>3, <2>1 DEF CreateInsert, Resumes, IndInv, TypeOK, Busy, InFlight
  <2>3. NewAttempt \in Submission
    BY AttemptsAssumption DEF NewAttempt, Submission, Status, Scores
  <2> QED BY <1>3, <2>1, <2>2, <2>3 DEF CreateInsert, Writes
<1>4. ASSUME NEW r \in Requests, RequestStep(r)
      PROVE  \/ UNCHANGED attempt
             \/ CreateInsert(r)
             \/ SaveUpsert(r) \/ SubmitWrite(r) \/ GradeWrite(r)
  BY <1>4 DEF RequestStep, CreateReadAssignment, SubmitLoad, SaveLoad, LoadDraft, GradeRead,
              Start, CreateFindDraft, CreateCount, CreateFindFinished, SubmitReadAssignment,
              SubmitReadAnswers, RequestDies, tables
<1>5. ASSUME NEW j \in Keys, NEW l \in Numbers \cup {None}, NEW open \in BOOLEAN,
             Update(j, l, open)
      PROVE  UNCHANGED attempt
  BY <1>5 DEF Update
<1>8. ASSUME NEW j \in Keys, RemoveAssignment(j)
      PROVE  /\ attempt'[k][n].answers = attempt[k][n].answers
             /\ attempt[k][n].status = "GRADED" => attempt'[k][n].status = "GRADED"
  <2>1. attempt'[k][n] = attempt[k][n]
    BY <1>8 DEF RemoveAssignment, IndInv, TypeOK
  <2> QED BY <2>1
<1>6. CASE UNCHANGED vars
  BY <1>1, <1>6 DEF vars, tables
<1>7. ASSUME NEW r \in Requests, RequestStep(r)
      PROVE  /\ attempt'[k][n].answers = attempt[k][n].answers
             /\ attempt[k][n].status = "GRADED" => attempt'[k][n].status = "GRADED"
  <2>1. CASE CreateInsert(r)
    BY <1>1, <1>2, <1>3, <2>1
  <2>2. CASE SaveUpsert(r) \/ SubmitWrite(r) \/ GradeWrite(r)
    BY <1>2, <2>2, SheetWrites
  <2> QED BY <1>1, <1>4, <1>7, <2>1, <2>2
<1> QED BY <1>1, <1>5, <1>6, <1>7, <1>8 DEF Next

\* As long as no two requests of a student meet on an assignment there is one
\* sheet at a time, the latest; what was handed in keeps its answers and its
\* grade, and an automatic score is the worth of exactly those answers.
THEOREM OneSheetStands == Spec => OneSheetThatStands
<1>1. IndInv /\ AloneInv => OneDraftWithoutOverlap
  BY DEF AloneInv, KeysSound, KeySound, OneDraftWithoutOverlap
<1>2. ASSUME IndInv /\ AloneInv, [Next]_vars
      PROVE  \A k \in Keys \ (overlapped \cup removed') : \A n \in Finished(k) :
                /\ attempt'[k][n].answers = attempt[k][n].answers
                /\ attempt[k][n].status = "GRADED" => attempt'[k][n].status = "GRADED"
                /\ attempt[k][n].status = "AUTO_GRADED" =>
                      attempt[k][n].scoreXp = attempt[k][n].answers
  BY <1>2, FinishedRows DEF AloneInv, KeysSound, KeySound
<1>3. Spec => HandedInStands
  BY <1>2, AloneInvariance, PTL DEF Spec, HandedInStands
<1>4. Spec => []OneDraftWithoutOverlap
  BY <1>1, AloneInvariance, PTL
<1> QED BY <1>3, <1>4 DEF OneSheetThatStands

=============================================================================
