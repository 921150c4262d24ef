--------------------------- MODULE JobQueueProofs ---------------------------
(***************************************************************************)
(* Safety of the job queue for any set of jobs, any pool of workers, any   *)
(* max_attempts and any number of preemptions.                             *)
(*                                                                         *)
(* The argument: a row's lock columns and its state move together          *)
(* (LockMatchesState), a worker that has the lock has the current row in   *)
(* its hands (SnapshotFresh), and while no sweep preempted a live worker   *)
(* every active worker has the lock (OneRunner).  Hence the writes by id   *)
(* alone hit a running row of their own, and the decision on attempts,     *)
(* though taken on a copy, is the one the row calls for (AttemptsLeft).    *)
(*                                                                         *)
(* After preemptions several workers may act on one row.  AttemptsBound    *)
(* follows from an account per row: what it counted, plus the workers on   *)
(* it, plus those of them whose copy still allows a retry, plus one if a   *)
(* further run is open, never exceeds max_attempts by more than two per    *)
(* preemption once the last attempt has begun (Paid).                      *)
(***************************************************************************)
EXTENDS JobQueue, FiniteSetTheorems, TLAPS

\* A worker that is not idle has a job in its hands.
HoldsJob == \A w \in Workers : phase[w] # "idle" => held[w] \in Jobs

\* The inductive invariant.
IInv ==
  /\ TypeOK
  /\ HoldsJob
  /\ LockMatchesState
  /\ SnapshotFresh
  /\ OneRunner
  /\ AttemptsLeft

-----------------------------------------------------------------------------
(* Type correctness, action by action.                                     *)

\* Clearing locked_at and locked_by keeps the columns well-formed.
LEMMA UnlockedType ==
  ASSUME TypeOK, NEW j \in Jobs, NEW s \in States, Unlocked(j, s)
  PROVE  /\ state' \in [Jobs -> States]
         /\ locked_by' \in [Jobs -> Workers \cup {NoWorker}]
         /\ stale' \in [Jobs -> BOOLEAN]
BY DEF TypeOK, Unlocked

\* A worker that leaves its job is back to a well-formed idle state.
LEMMA ReturnsType ==
  ASSUME TypeOK, NEW w \in Workers, Returns(w)
  PROVE  /\ phase' \in [Workers -> Phases]
         /\ held' \in [Workers -> Jobs \cup {NoJob}]
         /\ snap' \in [Workers -> Nat]
BY DEF TypeOK, Returns, Goes, Phases

\* The CASE of the reaper yields a state of the schema.
LEMMA ReapedStateType ==
  ASSUME NEW j \in Jobs
  PROVE  ReapedState(j) \in States
BY DEF ReapedState, States

\* Every step keeps the types.
LEMMA TypeStep ==
  ASSUME TypeOK, HoldsJob, [Next]_vars
  PROVE  TypeOK'
<1> USE ConstantAssumption
<1>1. CASE UNCHANGED vars
  BY <1>1 DEF TypeOK, vars, row, task
<1>2. ASSUME NEW j \in Jobs, Create(j) PROVE TypeOK'
  <2>1. "queued" \in States
    BY DEF States
  <2> QED BY <1>2, <2>1, UnlockedType DEF Create, BecomesDue, TypeOK, task
<1>3. ASSUME NEW j \in Jobs, BackoffElapses(j) PROVE TypeOK'
  BY <1>3 DEF BackoffElapses, BecomesDue, TypeOK, task
<1>4. ASSUME NEW j \in Jobs, LockExpires(j) PROVE TypeOK'
  BY <1>4 DEF LockExpires, TypeOK, task
<1>5. ASSUME NEW w \in Workers, NEW j \in Jobs, ClaimNextDue(w, j) PROVE TypeOK'
  BY <1>5 DEF ClaimNextDue, LockRow, Goes, TypeOK, States, Phases
<1>6. ASSUME NEW w \in Workers, NEW j \in Jobs, ClaimAnswerLost(w, j) PROVE TypeOK'
  BY <1>6 DEF ClaimAnswerLost, LockRow, TypeOK, States, task
<1>7. ASSUME NEW w \in Workers, NEW s \in {"live", "failed"}, StampClip(w, s) PROVE TypeOK'
  BY <1>7 DEF StampClip, Goes, TypeOK, Phases, row
<1>8. ASSUME NEW w \in Workers, MarkDone(w) PROVE TypeOK'
  <2>1. held[w] \in Jobs /\ "done" \in States
    BY <1>8 DEF MarkDone, HoldsJob, States
  <2> QED BY <1>8, <2>1, UnlockedType, ReturnsType DEF MarkDone, TypeOK
<1>9. ASSUME NEW w \in Workers, DeadLetter(w) PROVE TypeOK'
  <2>1. held[w] \in Jobs /\ "dead" \in States
    BY <1>9 DEF DeadLetter, HoldsJob, States
  <2> QED BY <1>9, <2>1, UnlockedType, ReturnsType DEF DeadLetter, TypeOK
<1>10. ASSUME NEW w \in Workers, DeliverRetry(w) PROVE TypeOK'
  <2>1. held[w] \in Jobs /\ "dead" \in States /\ "queued" \in States
    BY <1>10 DEF DeliverRetry, HoldsJob, States
  <2>2. attempts' \in [Jobs -> Nat] /\ due' \subseteq Jobs /\ ahead' \in [Jobs -> SUBSET Jobs]
    BY <1>10, <2>1 DEF DeliverRetry, TypeOK
  <2>3. /\ state' \in [Jobs -> States]
        /\ locked_by' \in [Jobs -> Workers \cup {NoWorker}]
        /\ stale' \in [Jobs -> BOOLEAN]
    BY <1>10, <2>1, UnlockedType DEF DeliverRetry
  <2> QED BY <1>10, <2>2, <2>3, ReturnsType DEF DeliverRetry, TypeOK
<1>11. ASSUME NEW w \in Workers, HandBack(w) PROVE TypeOK'
  <2>1. held[w] \in Jobs /\ "queued" \in States
    BY <1>11 DEF HandBack, HoldsJob, States
  <2> QED BY <1>11, <2>1, UnlockedType, ReturnsType DEF HandBack, TypeOK
<1>12. ASSUME NEW w \in Workers, SettleFails(w) PROVE TypeOK'
  BY <1>12, ReturnsType DEF SettleFails, TypeOK, row
<1>13. ASSUME NEW w \in Workers, TimerFires(w) PROVE TypeOK'
  BY <1>13 DEF TimerFires, Goes, TypeOK, Phases, row
<1>14. ASSUME NEW w \in Workers, BumpAfterFailure(w) PROVE TypeOK'
  <2>1. held[w] \in Jobs /\ "dead" \in States /\ "queued" \in States
    BY <1>14 DEF BumpAfterFailure, HoldsJob, States
  <2>2. attempts' \in [Jobs -> Nat]
    BY <1>14, <2>1 DEF BumpAfterFailure, TypeOK
  <2>3. /\ state' \in [Jobs -> States]
        /\ locked_by' \in [Jobs -> Workers \cup {NoWorker}]
        /\ stale' \in [Jobs -> BOOLEAN]
    BY <1>14, <2>1, UnlockedType DEF BumpAfterFailure, TypeOK
  <2>4. /\ phase' \in [Workers -> Phases]
        /\ held' \in [Workers -> Jobs \cup {NoJob}]
        /\ snap' \in [Workers -> Nat]
    BY <1>14, ReturnsType DEF BumpAfterFailure, Goes, Phases, TypeOK
  <2> QED BY <1>14, <2>2, <2>3, <2>4 DEF BumpAfterFailure, TypeOK
<1>15. ASSUME NEW w \in Workers, BumpFailsClip(w) PROVE TypeOK'
  <2>1. held[w] \in Jobs
    BY <1>15 DEF BumpFailsClip, HoldsJob
  <2> QED BY <1>15, <2>1, ReturnsType DEF BumpFailsClip, TypeOK, row
<1>16. CASE ReapStaleJobs
  BY <1>16, ReapedStateType DEF ReapStaleJobs, StaleJobs, TypeOK, task
<1>17. ASSUME NEW j \in Jobs, ReaperFailsClip(j) PROVE TypeOK'
  BY <1>17 DEF ReaperFailsClip, TypeOK, row, task
<1>18. CASE Crash
  BY <1>18 DEF Crash, TypeOK, Phases, row
<1> QED
  BY <1>1, <1>2, <1>3, <1>4, <1>5, <1>6, <1>7, <1>8, <1>9, <1>10, <1>11, <1>12,
     <1>13, <1>14, <1>15, <1>16, <1>17, <1>18 DEF Next, WorkerStep

-----------------------------------------------------------------------------
(* The rest of the invariant.  An action that rewrites one row leaves the  *)
(* owners of the other rows alone.                                         *)

\* The empty queue with idle workers satisfies the invariant.
LEMMA InitIInv == Init => IInv
BY ConstantAssumption
   DEF Init, IInv, TypeOK, HoldsJob, LockMatchesState, SnapshotFresh, OneRunner, AttemptsLeft,
       Owns, Active, States, Phases, Workers

\* A worker in a phase other than idle has a job, and only then.
LEMMA HoldsStep ==
  ASSUME IInv, [Next]_vars
  PROVE  HoldsJob'
<1> USE DEF IInv, TypeOK, HoldsJob
<1>1. CASE UNCHANGED vars
  BY <1>1 DEF vars, task
<1>2. ASSUME NEW j \in Jobs, Create(j) \/ BackoffElapses(j) \/ LockExpires(j) \/ ReaperFailsClip(j)
      PROVE  HoldsJob'
  BY <1>2 DEF Create, BackoffElapses, LockExpires, ReaperFailsClip, task
<1>3. ASSUME NEW w \in Workers, NEW j \in Jobs, ClaimNextDue(w, j) \/ ClaimAnswerLost(w, j)
      PROVE  HoldsJob'
  BY <1>3 DEF ClaimNextDue, ClaimAnswerLost, Goes, task
<1>4. ASSUME NEW w \in Workers, WorkerStep(w) PROVE HoldsJob'
  <2>1. CASE Returns(w)
    BY <2>1 DEF Returns, Goes
  <2>2. CASE \E p \in Phases : Goes(w, p) /\ phase[w] # "idle" /\ UNCHANGED held
    BY <2>2 DEF Goes
  <2>3. Returns(w) \/ \E p \in Phases : Goes(w, p) /\ phase[w] # "idle" /\ UNCHANGED held
    BY <1>4 DEF WorkerStep, StampClip, MarkDone, DeadLetter, DeliverRetry, HandBack,
                SettleFails, TimerFires, BumpAfterFailure, BumpFailsClip, Phases
  <2> QED BY <2>1, <2>2, <2>3
<1>5. CASE ReapStaleJobs
  BY <1>5 DEF ReapStaleJobs, task
<1>6. CASE Crash
  BY <1>6 DEF Crash
<1> QED BY <1>1, <1>2, <1>3, <1>4, <1>5, <1>6 DEF Next

\* Every statement writes the lock columns together with the state.
LEMMA LockStep ==
  ASSUME IInv, [Next]_vars
  PROVE  LockMatchesState'
<1> USE ConstantAssumption DEF IInv, TypeOK, LockMatchesState
<1>1. CASE UNCHANGED <<state, locked_by>>
  BY <1>1
<1>2. ASSUME NEW j \in Jobs, NEW s \in States \ {"running"}, Unlocked(j, s)
      PROVE  LockMatchesState'
  BY <1>2 DEF Unlocked
<1>3. ASSUME NEW w \in Workers, NEW j \in Jobs, LockRow(w, j) PROVE LockMatchesState'
  BY <1>3 DEF LockRow
<1>4. CASE ReapStaleJobs
  BY <1>4 DEF ReapStaleJobs, StaleJobs, ReapedState
<1>5. \/ UNCHANGED <<state, locked_by>>
      \/ \E j \in Jobs, s \in States \ {"running"} : Unlocked(j, s)
      \/ \E w \in Workers, j \in Jobs : LockRow(w, j)
      \/ ReapStaleJobs
  <2>1. ASSUME NEW w \in Workers, WorkerStep(w)
        PROVE  \/ UNCHANGED <<state, locked_by>>
               \/ \E j \in Jobs, s \in States \ {"running"} : Unlocked(j, s)
    <3>1. phase[w] # "idle" => held[w] \in Jobs
      BY DEF HoldsJob
    <3>2. CASE MarkDone(w) \/ DeadLetter(w) \/ HandBack(w)
      BY <3>1, <3>2 DEF MarkDone, DeadLetter, HandBack, States
    <3>3. CASE DeliverRetry(w)
      BY <3>1, <3>3 DEF DeliverRetry, States
    <3>4. CASE BumpAfterFailure(w)
      BY <3>1, <3>4 DEF BumpAfterFailure, States
    <3> QED BY <2>1, <3>2, <3>3, <3>4
            DEF WorkerStep, StampClip, SettleFails, TimerFires, BumpFailsClip, row
  <2>2. ASSUME NEW j \in Jobs, Create(j) PROVE \E s \in States \ {"running"} : Unlocked(j, s)
    BY <2>2 DEF Create, States
  <2>3. CASE UNCHANGED vars
    BY <2>3 DEF vars, row
  <2> QED BY <2>1, <2>2, <2>3
          DEF Next, BackoffElapses, LockExpires, ClaimNextDue, ClaimAnswerLost,
              ReaperFailsClip, Crash, row
<1> QED BY <1>1, <1>2, <1>3, <1>4, <1>5

\* A worker that rewrites one row and leaves its handler.
Leaves(w, j, s) ==
  /\ Active(w) /\ held[w] = j
  /\ Unlocked(j, s)
  /\ \A i \in Jobs \ {j} : attempts'[i] = attempts[i]
  /\ \A v \in Workers \ {w} : phase'[v] = phase[v] /\ held'[v] = held[v] /\ snap'[v] = snap[v]
  /\ phase'[w] \in {"idle", "failclip"}
  /\ UNCHANGED preemptions

\* When one worker leaves its job, the others keep theirs.
LEMMA LeavesKeepsOwners ==
  ASSUME IInv, NEW w \in Workers, NEW j \in Jobs, NEW s \in States \ {"running"}, Leaves(w, j, s)
  PROVE  SnapshotFresh' /\ OneRunner'
<1> USE ConstantAssumption DEF IInv, TypeOK, Leaves, Active, Unlocked
<1>1. SnapshotFresh'
  <2> SUFFICES ASSUME NEW v \in Workers, NEW i \in Jobs, Owns(v, i)'
               PROVE  snap'[v] = attempts'[i]
    BY DEF SnapshotFresh
  <2>1. i # j /\ v # w
    BY DEF Owns
  <2>2. Owns(v, i)
    BY <2>1 DEF Owns
  <2> QED BY <2>1, <2>2 DEF SnapshotFresh
<1>2. OneRunner'
  <2> SUFFICES ASSUME preemptions = 0, NEW v \in Workers, Active(v)'
               PROVE  state'[held'[v]] = "running" /\ locked_by'[held'[v]] = v
    BY DEF OneRunner
  <2>1. v # w
    OBVIOUS
  <2>2. locked_by[j] = w /\ locked_by[held[v]] = v /\ state[held[v]] = "running"
    BY <2>1 DEF OneRunner
  <2>3. held[v] # j /\ held[v] \in Jobs
    BY <2>1, <2>2 DEF HoldsJob
  <2> QED BY <2>1, <2>2, <2>3
<1> QED BY <1>1, <1>2

\* Every way a handler leaves its job rewrites that row only.
LEMMA SettlersLeave ==
  ASSUME IInv, NEW w \in Workers,
         \/ MarkDone(w) \/ DeadLetter(w) \/ DeliverRetry(w) \/ HandBack(w)
         \/ BumpAfterFailure(w) /\ BumpGuard(w)
  PROVE  held[w] \in Jobs /\ \E s \in States \ {"running"} : Leaves(w, held[w], s)
<1> USE DEF IInv, TypeOK, Leaves, Active
<1>1. held[w] \in Jobs
  BY DEF HoldsJob, MarkDone, DeadLetter, DeliverRetry, HandBack, BumpAfterFailure
<1>2. CASE MarkDone(w)
  <2>1. Leaves(w, held[w], "done")
    BY <1>1, <1>2 DEF MarkDone, Returns, Goes
  <2> QED BY <1>1, <2>1 DEF States
<1>3. CASE DeadLetter(w)
  <2>1. Leaves(w, held[w], "dead")
    BY <1>1, <1>3 DEF DeadLetter, Returns, Goes
  <2> QED BY <1>1, <2>1 DEF States
<1>4. CASE HandBack(w)
  <2>1. Leaves(w, held[w], "queued")
    BY <1>1, <1>4 DEF HandBack, Returns, Goes
  <2> QED BY <1>1, <2>1 DEF States
<1>5. CASE DeliverRetry(w)
  <2>1. Leaves(w, held[w], "dead") \/ Leaves(w, held[w], "queued")
    BY <1>1, <1>5 DEF DeliverRetry, Returns, Goes
  <2> QED BY <1>1, <2>1 DEF States
<1>6. CASE BumpAfterFailure(w) /\ BumpGuard(w)
  <2>1. Leaves(w, held[w], "dead") \/ Leaves(w, held[w], "queued")
    BY <1>1, <1>6 DEF BumpAfterFailure, Returns, Goes
  <2> QED BY <1>1, <2>1 DEF States
<1> QED BY <1>2, <1>3, <1>4, <1>5, <1>6

\* Claims, retries and reaps keep the owners of the rows apart.
LEMMA OwnersStep ==
  ASSUME IInv, [Next]_vars
  PROVE  SnapshotFresh' /\ OneRunner'
<1> USE ConstantAssumption DEF IInv, TypeOK
<1>1. CASE UNCHANGED vars
  BY <1>1 DEF vars, row, task, SnapshotFresh, OneRunner, Owns, Active
<1>2. ASSUME NEW j \in Jobs, Create(j) PROVE SnapshotFresh' /\ OneRunner'
  <2>1. SnapshotFresh'
    BY <1>2 DEF Create, Unlocked, task, SnapshotFresh, Owns, Active
  <2>2. OneRunner'
    <3> SUFFICES ASSUME preemptions = 0, NEW v \in Workers, Active(v)
                 PROVE  state'[held[v]] = "running" /\ locked_by'[held[v]] = v
      BY <1>2 DEF OneRunner, Create, task, Active
    <3>1. held[v] \in Jobs /\ held[v] # j
      BY <1>2 DEF OneRunner, HoldsJob, Active, Create
    <3> QED BY <1>2, <3>1 DEF OneRunner, Create, Unlocked
  <2> QED BY <2>1, <2>2
<1>3. ASSUME NEW j \in Jobs, BackoffElapses(j) \/ LockExpires(j) \/ ReaperFailsClip(j)
      PROVE  SnapshotFresh' /\ OneRunner'
  BY <1>3 DEF BackoffElapses, LockExpires, ReaperFailsClip, row, task,
              SnapshotFresh, OneRunner, Owns, Active
<1>4. ASSUME NEW w \in Workers, NEW j \in Jobs, ClaimNextDue(w, j) PROVE SnapshotFresh' /\ OneRunner'
  <2>1. SnapshotFresh'
    BY <1>4 DEF ClaimNextDue, LockRow, Goes, SnapshotFresh, Owns, Active
  <2>2. OneRunner'
    <3> SUFFICES ASSUME preemptions = 0, NEW v \in Workers, Active(v)', v # w
                 PROVE  state'[held[v]] = "running" /\ locked_by'[held[v]] = v
      BY <1>4 DEF OneRunner, ClaimNextDue, LockRow, Goes, Active
    <3>1. held[v] \in Jobs /\ state[held[v]] = "running" /\ locked_by[held[v]] = v
      BY <1>4 DEF OneRunner, HoldsJob, Active, ClaimNextDue, Goes
    <3>2. state[j] = "queued"
      BY <1>4 DEF ClaimNextDue, LockRow, NextDue
    <3> QED BY <1>4, <3>1, <3>2 DEF ClaimNextDue, LockRow
  <2> QED BY <2>1, <2>2
<1>5. ASSUME NEW w \in Workers, NEW j \in Jobs, ClaimAnswerLost(w, j) PROVE SnapshotFresh' /\ OneRunner'
  <2>1. state[j] = "queued"
    BY <1>5 DEF ClaimAnswerLost, LockRow, NextDue
  <2>2. SnapshotFresh'
    BY <1>5 DEF ClaimAnswerLost, LockRow, task, SnapshotFresh, Owns, Active
  <2>3. OneRunner'
    <3> SUFFICES ASSUME preemptions = 0, NEW v \in Workers, Active(v)
                 PROVE  state'[held[v]] = "running" /\ locked_by'[held[v]] = v
      BY <1>5 DEF OneRunner, ClaimAnswerLost, LockRow, task, Active
    <3>1. held[v] \in Jobs /\ state[held[v]] = "running" /\ locked_by[held[v]] = v
      BY DEF OneRunner, HoldsJob, Active
    <3> QED BY <1>5, <2>1, <3>1 DEF ClaimAnswerLost, LockRow
  <2> QED BY <2>2, <2>3
<1>6. ASSUME NEW w \in Workers, WorkerStep(w) PROVE SnapshotFresh' /\ OneRunner'
  <2>1. CASE \/ MarkDone(w) \/ DeadLetter(w) \/ DeliverRetry(w) \/ HandBack(w)
             \/ BumpAfterFailure(w) /\ BumpGuard(w)
    BY <2>1, SettlersLeave, LeavesKeepsOwners
  <2>2. CASE \/ SettleFails(w)
             \/ BumpFailsClip(w)
             \/ BumpAfterFailure(w) /\ ~BumpGuard(w)
    BY <2>2 DEF SettleFails, BumpFailsClip, BumpAfterFailure, Returns, Goes, row,
                SnapshotFresh, OneRunner, Owns, Active
  <2>3. CASE TimerFires(w) \/ \E s \in {"live", "failed"} : StampClip(w, s)
    BY <2>3 DEF TimerFires, StampClip, Goes, row, SnapshotFresh, OneRunner, Owns, Active
  <2>4. CASE BumpAfterFailure(w)
    BY <2>1, <2>2, <2>4
  <2> QED BY <1>6, <2>1, <2>2, <2>3, <2>4 DEF WorkerStep
<1>7. CASE ReapStaleJobs
  <2>1. SnapshotFresh'
    BY <1>7 DEF ReapStaleJobs, StaleJobs, ReapedState, task, SnapshotFresh, Owns, Active
  <2>2. OneRunner'
    <3> SUFFICES ASSUME preemptions' = 0, NEW v \in Workers, Active(v)
                 PROVE  state'[held[v]] = "running" /\ locked_by'[held[v]] = v
      BY <1>7 DEF OneRunner, ReapStaleJobs, task, Active
    <3>1. preemptions = 0 /\ ~Preempts
      BY <1>7 DEF ReapStaleJobs
    <3>2. held[v] \in Jobs /\ Owns(v, held[v])
      BY <3>1 DEF OneRunner, HoldsJob, Active, Owns
    <3>3. held[v] \notin StaleJobs
      BY <3>1, <3>2 DEF Preempts
    <3> QED BY <1>7, <3>2, <3>3 DEF ReapStaleJobs, Owns
  <2> QED BY <2>1, <2>2
<1>8. CASE Crash
  BY <1>8 DEF Crash, row, SnapshotFresh, OneRunner, Owns, Active
<1> QED BY <1>1, <1>2, <1>3, <1>4, <1>5, <1>6, <1>7, <1>8 DEF Next

\* attempts grows by one per failed run and stops at max_attempts.
LEMMA AttemptsStep ==
  ASSUME IInv, [Next]_vars
  PROVE  AttemptsLeft'
<1> SUFFICES ASSUME preemptions' = 0
             PROVE  \A i \in Jobs : /\ attempts'[i] <= MaxAttempts
                                    /\ state'[i] # "dead" => attempts'[i] < MaxAttempts
  BY DEF AttemptsLeft
<1> USE ConstantAssumption DEF IInv, TypeOK
<1>0. preemptions = 0
  BY DEF Next, vars, Create, BackoffElapses, LockExpires, ClaimNextDue, ClaimAnswerLost, LockRow,
         WorkerStep, StampClip, MarkDone, DeadLetter, DeliverRetry, HandBack, SettleFails,
         TimerFires, BumpAfterFailure, BumpFailsClip, ReapStaleJobs, ReaperFailsClip, Crash
<1> DEFINE Small == \A i \in Jobs : /\ attempts[i] <= MaxAttempts
                                    /\ state[i] # "dead" => attempts[i] < MaxAttempts
<1>S. Small
  BY <1>0 DEF AttemptsLeft
<1>1. CASE UNCHANGED <<state, attempts>>
  BY <1>1, <1>S
<1>2. ASSUME NEW j \in Jobs, Create(j) PROVE Small'
  BY <1>2, <1>S DEF Create, Unlocked
<1>3. ASSUME NEW w \in Workers, NEW j \in Jobs, LockRow(w, j) PROVE Small'
  BY <1>3, <1>S DEF LockRow, NextDue
<1>4. ASSUME NEW w \in Workers, WorkerStep(w) PROVE Small'
  <2>1. Active(w) => held[w] \in Jobs /\ state[held[w]] = "running" /\ snap[w] = attempts[held[w]]
    BY <1>0 DEF OneRunner, HoldsJob, Active, SnapshotFresh, Owns
  <2>2. CASE MarkDone(w) \/ DeadLetter(w) \/ HandBack(w)
    BY <2>1, <2>2, <1>S DEF MarkDone, DeadLetter, HandBack, Unlocked, Active
  <2>3. CASE DeliverRetry(w)
    <3>1. held[w] \in Jobs /\ snap[w] = attempts[held[w]] /\ attempts[held[w]] < MaxAttempts
      BY <2>1, <2>3, <1>S DEF DeliverRetry, Active
    <3> QED BY <3>1, <2>3, <1>S DEF DeliverRetry, RetriesExhausted, Unlocked
  <2>4. CASE BumpAfterFailure(w)
    <3>1. held[w] \in Jobs /\ attempts[held[w]] < MaxAttempts
      BY <2>1, <2>4, <1>S DEF BumpAfterFailure, Active
    <3> QED BY <3>1, <2>4, <1>S DEF BumpAfterFailure, Unlocked
  <2> QED BY <1>4, <2>2, <2>3, <2>4, <1>1
          DEF WorkerStep, StampClip, SettleFails, TimerFires, BumpFailsClip, row
<1>5. CASE ReapStaleJobs
  BY <1>5, <1>S DEF ReapStaleJobs, StaleJobs, ReapedState
<1> QED
  BY <1>1, <1>2, <1>3, <1>4, <1>5
  DEF Next, vars, row, BackoffElapses, LockExpires, ClaimNextDue, ClaimAnswerLost,
      ReaperFailsClip, Crash

\* The invariant is inductive.
LEMMA IInvStep == IInv /\ [Next]_vars => IInv'
<1> SUFFICES ASSUME IInv, [Next]_vars PROVE IInv'
  OBVIOUS
<1>1. TypeOK'
  BY TypeStep DEF IInv
<1> QED BY <1>1, HoldsStep, LockStep, OwnersStep, AttemptsStep DEF IInv

-----------------------------------------------------------------------------
(* The theorems.                                                           *)

\* IInv holds in every reachable state of the job queue.
THEOREM Invariance == Spec => []IInv
BY InitIInv, IInvStep, PTL DEF Spec

\* Every column and every local variable of the workers keeps its type.
THEOREM TypeCorrect == Spec => []TypeOK
<1>1. IInv => TypeOK
  BY DEF IInv
<1> QED BY <1>1, Invariance, PTL

\* The lock columns of a row and its state move together, whichever of the
\* eight statements of job.rs and worker.rs writes the row, in any order.
THEOREM LocksCorrect == Spec => []LockMatchesState
<1>1. IInv => LockMatchesState
  BY DEF IInv
<1> QED BY <1>1, Invariance, PTL

\* The copy of attempts on which schedule_deliver_retry decides is current
\* for as long as the worker has the lock.
THEOREM SnapshotCorrect == Spec => []SnapshotFresh
<1>1. IInv => SnapshotFresh
  BY DEF IInv
<1> QED BY <1>1, Invariance, PTL

\* No job has two runners before the reaper first preempts a live worker.
THEOREM OneRunnerCorrect == Spec => []OneRunner
<1>1. IInv => OneRunner
  BY DEF IInv
<1> QED BY <1>1, Invariance, PTL

\* Until then attempts never pass max_attempts and only dead jobs reach it.
THEOREM AttemptsCorrect == Spec => []AttemptsLeft
<1>1. IInv => AttemptsLeft
  BY DEF IInv
<1> QED BY <1>1, Invariance, PTL

\* bump_job_after_failure never counts an attempt twice, also after
\* preemptions: the guard on the lock is enough.
THEOREM BumpCorrect == Spec => BumpOwnsAttempt
<1> DEFINE A == \A w \in Workers : phase[w] = "overrun" /\ phase'[w] # "overrun" /\ attempts' # attempts
                   => attempts'[held[w]] = snap[w] + 1
<1>1. IInv /\ [Next]_vars => [A]_vars
  <2> SUFFICES ASSUME IInv, Next, NEW w \in Workers,
                      phase[w] = "overrun", phase'[w] # "overrun", attempts' # attempts
               PROVE  attempts'[held[w]] = snap[w] + 1
    OBVIOUS
  <2> USE DEF IInv, TypeOK
  <2>1. held[w] \in Jobs
    BY DEF HoldsJob
  <2>2. BumpAfterFailure(w)
    <3>1. ASSUME NEW v \in Workers, WorkerStep(v) PROVE v = w
      BY <3>1 DEF WorkerStep, StampClip, MarkDone, DeadLetter, DeliverRetry, HandBack, SettleFails,
                  TimerFires, BumpAfterFailure, BumpFailsClip, Returns, Goes
    <3>2. ASSUME NEW v \in Workers, NEW j \in Jobs, ClaimNextDue(v, j) \/ ClaimAnswerLost(v, j)
          PROVE  FALSE
      BY <3>2 DEF ClaimNextDue, ClaimAnswerLost, LockRow
    <3>3. WorkerStep(w)
      BY <3>1, <3>2 DEF Next, Create, BackoffElapses, LockExpires, ReapStaleJobs,
                        ReaperFailsClip, Crash, task, row
    <3> QED BY <3>3 DEF WorkerStep, StampClip, MarkDone, DeadLetter, DeliverRetry, HandBack,
                        SettleFails, TimerFires, BumpFailsClip, row
  <2>3. BumpGuard(w)
    BY <2>2 DEF BumpAfterFailure
  <2>4. snap[w] = attempts[held[w]]
    BY <2>1, <2>3 DEF BumpGuard, SnapshotFresh, Owns, Active
  <2> QED BY <2>1, <2>2, <2>3, <2>4 DEF BumpAfterFailure
<1> QED BY <1>1, Invariance, PTL DEF Spec, BumpOwnsAttempt

\* Done and dead are final before the first preemption, although every
\* statement of job.rs settles, requeues or fails a row by its id alone.
THEOREM SettledCorrect == Spec => SettledIsFinal
<1> DEFINE A == preemptions = 0 =>
                  \A j \in Jobs : state[j] \in {"done", "dead"} => state'[j] = state[j]
<1>1. IInv /\ [Next]_vars => [A]_vars
  <2> SUFFICES ASSUME IInv, Next, preemptions = 0, NEW j \in Jobs, state[j] \in {"done", "dead"}
               PROVE  state'[j] = state[j]
    OBVIOUS
  <2> USE DEF IInv, TypeOK
  <2>1. ASSUME NEW w \in Workers, WorkerStep(w) PROVE state'[j] = state[j]
    <3>1. Active(w) => held[w] \in Jobs /\ held[w] # j
      BY DEF OneRunner, HoldsJob, Active
    <3> QED BY <2>1, <3>1 DEF WorkerStep, StampClip, MarkDone, DeadLetter, DeliverRetry, HandBack,
                SettleFails, TimerFires, BumpAfterFailure, BumpFailsClip, Unlocked, Active, row
  <2>2. ASSUME NEW w \in Workers, NEW i \in Jobs, LockRow(w, i) PROVE state'[j] = state[j]
    BY <2>2 DEF LockRow, NextDue
  <2>3. ASSUME NEW i \in Jobs, Create(i) PROVE state'[j] = state[j]
    BY <2>3 DEF Create, Unlocked
  <2>4. CASE ReapStaleJobs
    BY <2>4 DEF ReapStaleJobs, StaleJobs
  <2> QED BY <2>1, <2>2, <2>3, <2>4 DEF Next, BackoffElapses, LockExpires, ClaimNextDue,
             ClaimAnswerLost, ReaperFailsClip, Crash, row
<1> QED BY <1>1, Invariance, PTL DEF Spec, SettledIsFinal

-----------------------------------------------------------------------------
(* The cost of preemptions.  Once a sweep took a job from a live worker,   *)
(* several workers may act on one row.  Each of them settles it once at    *)
(* most, and only those whose copy of the row is old retry it.             *)

\* The workers that act on job j, and those of them that would retry it.
Holders(j) == {w \in Workers : Active(w) /\ held[w] = j}
Retriers(j) == {w \in Holders(j) : snap[w] + 1 < MaxAttempts}

\* No worker runs the row, and a claim or a sweep may still take it up.
Open(j) ==
  \/ state[j] \in {"absent", "queued"}
  \/ state[j] = "running" /\ \A w \in Workers : ~Owns(w, j)
Opening(j) == IF Open(j) THEN 1 ELSE 0

\* A further worker on a row costs a preemption.
HoldersBound(j) == Cardinality(Holders(j)) + Opening(j) <= 1 + preemptions

\* What the row counted, and what the workers on it and the next run can add.
AttemptsPaid(j) ==
  attempts[j] + 1 >= MaxAttempts =>
    attempts[j] + Cardinality(Holders(j)) + Cardinality(Retriers(j)) + Opening(j)
      <= MaxAttempts + 2 * preemptions

Paid == \A j \in Jobs : HoldersBound(j) /\ AttemptsPaid(j)

\* The workers on a row are finitely many, and the retriers are among them.
LEMMA HoldersFinite ==
  ASSUME NEW j \in Jobs
  PROVE  /\ IsFiniteSet(Holders(j)) /\ Cardinality(Holders(j)) \in Nat
         /\ IsFiniteSet(Retriers(j)) /\ Cardinality(Retriers(j)) \in Nat
         /\ Cardinality(Retriers(j)) <= Cardinality(Holders(j))
<1>1. IsFiniteSet(Workers)
  BY ConstantAssumption, FS_AddElement DEF Workers
<1>2. Holders(j) \in SUBSET Workers /\ Retriers(j) \in SUBSET Holders(j)
  BY DEF Holders, Retriers
<1>3. IsFiniteSet(Holders(j)) /\ Cardinality(Holders(j)) \in Nat
  BY <1>1, <1>2, FS_Subset, FS_CardinalityType
<1>4. IsFiniteSet(Retriers(j)) /\ Cardinality(Retriers(j)) <= Cardinality(Holders(j))
  BY <1>2, <1>3, FS_Subset
<1> QED BY <1>3, <1>4, FS_CardinalityType

\* The same in the next state.
LEMMA HoldersFiniteNext ==
  ASSUME NEW j \in Jobs
  PROVE  /\ IsFiniteSet(Holders(j)') /\ Cardinality(Holders(j)') \in Nat
         /\ IsFiniteSet(Retriers(j)') /\ Cardinality(Retriers(j)') \in Nat
         /\ Cardinality(Retriers(j)') <= Cardinality(Holders(j)')
<1>1. IsFiniteSet(Workers)
  BY ConstantAssumption, FS_AddElement DEF Workers
<1>2. Holders(j)' \in SUBSET Workers /\ Retriers(j)' \in SUBSET Holders(j)'
  BY DEF Holders, Retriers
<1>3. IsFiniteSet(Holders(j)') /\ Cardinality(Holders(j)') \in Nat
  BY <1>1, <1>2, FS_Subset, FS_CardinalityType
<1>4. IsFiniteSet(Retriers(j)') /\ Cardinality(Retriers(j)') <= Cardinality(Holders(j)')
  BY <1>2, <1>3, FS_Subset
<1> QED BY <1>3, <1>4, FS_CardinalityType

\* A finite set without one of its elements is smaller.
LEMMA SmallerSet ==
  ASSUME NEW S, IsFiniteSet(S), NEW x \in S, NEW T \in SUBSET (S \ {x})
  PROVE  Cardinality(T) <= Cardinality(S) - 1
<1>1. IsFiniteSet(S \ {x}) /\ Cardinality(S \ {x}) = Cardinality(S) - 1
  BY FS_RemoveElement
<1> QED BY <1>1, FS_Subset

\* One more element adds one at most.
LEMMA LargerSet ==
  ASSUME NEW S, IsFiniteSet(S), NEW x, NEW T \in SUBSET (S \cup {x})
  PROVE  Cardinality(T) <= Cardinality(S) + 1
<1>0. Cardinality(S) \in Nat
  BY FS_CardinalityType
<1>1. IsFiniteSet(S \cup {x}) /\ Cardinality(S \cup {x}) <= Cardinality(S) + 1
  BY <1>0, FS_AddElement
<1>2. Cardinality(T) <= Cardinality(S \cup {x})
  BY <1>1, FS_Subset
<1>3. Cardinality(T) \in Nat
  BY <1>1, FS_Subset, FS_CardinalityType
<1>4. Cardinality(S \cup {x}) \in Nat
  BY <1>1, FS_CardinalityType
<1> QED BY <1>0, <1>1, <1>2, <1>3, <1>4

\* What a step may do to a row j and the workers on it.
Keeps(j) ==
  /\ Holders(j)' \subseteq Holders(j) /\ Retriers(j)' \subseteq Retriers(j)
  /\ attempts'[j] = attempts[j] /\ (Open(j)' => Open(j))
  /\ preemptions' >= preemptions
LeftBy(w, j) ==
  /\ w \in Holders(j)
  /\ Holders(j)' \subseteq Holders(j) \ {w} /\ Retriers(j)' \subseteq Retriers(j) \ {w}
  /\ preemptions' = preemptions
Settles(w, j) == LeftBy(w, j) /\ attempts'[j] = attempts[j]
Retries(w, j) == LeftBy(w, j) /\ w \in Retriers(j) /\ attempts'[j] = attempts[j] + 1
Bumps(w, j) ==
  /\ LeftBy(w, j) /\ attempts'[j] = attempts[j] + 1
  /\ ~Open(j) /\ (Open(j)' => attempts'[j] < MaxAttempts)
Claims(w, j) ==
  /\ Holders(j)' \subseteq Holders(j) \cup {w}
  /\ Retriers(j)' \subseteq Retriers(j) \cup {w}
  /\ w \in Retriers(j)' => attempts[j] + 1 < MaxAttempts
  /\ Open(j) /\ ~Open(j)'
  /\ attempts'[j] = attempts[j] /\ preemptions' = preemptions
Reaps(j) ==
  /\ Holders(j)' = Holders(j) /\ Retriers(j)' = Retriers(j)
  /\ attempts'[j] = attempts[j] + 1
  /\ IF Open(j) THEN preemptions' >= preemptions ELSE preemptions' = preemptions + 1
  /\ Open(j)' => attempts'[j] < MaxAttempts
Stops(j) ==
  /\ Holders(j)' = {} /\ Retriers(j)' = {}
  /\ attempts'[j] = attempts[j] /\ preemptions' = preemptions
  /\ Open(j)' => Open(j) \/ Holders(j) # {}

\* Each of these leaves enough preemptions to pay for the attempts.
LEMMA PaidFor ==
  ASSUME TypeOK, preemptions' \in Nat, NEW j \in Jobs, HoldersBound(j), AttemptsPaid(j),
         \/ Keeps(j) \/ Reaps(j) \/ Stops(j)
         \/ \E w \in Workers : Settles(w, j) \/ Retries(w, j) \/ Bumps(w, j) \/ Claims(w, j)
  PROVE  HoldersBound(j)' /\ AttemptsPaid(j)'
<1> DEFINE h == Cardinality(Holders(j))
           r == Cardinality(Retriers(j))
           hh == Cardinality(Holders(j)')
           rr == Cardinality(Retriers(j)')
           f == Opening(j)
           ff == Opening(j)'
           a == attempts[j]
           aa == attempts'[j]
           p == preemptions
           q == preemptions'
<1>1. /\ h \in Nat /\ r \in Nat /\ r <= h /\ IsFiniteSet(Holders(j)) /\ IsFiniteSet(Retriers(j))
      /\ hh \in Nat /\ rr \in Nat /\ rr <= hh /\ IsFiniteSet(Holders(j)') /\ IsFiniteSet(Retriers(j)')
  BY HoldersFinite, HoldersFiniteNext
<1>2. a \in Nat /\ p \in Nat /\ q \in Nat /\ MaxAttempts \in Nat
  BY ConstantAssumption DEF TypeOK
<1>3. /\ f \in {0, 1} /\ (f = 1 <=> Open(j))
      /\ ff \in {0, 1} /\ (ff = 1 <=> Open(j)')
  BY DEF Opening
<1>4. h + f <= 1 + p
  BY DEF HoldersBound
<1>5. a + 1 >= MaxAttempts => a + h + r + f <= MaxAttempts + 2 * p
  BY DEF AttemptsPaid
<1> SUFFICES /\ hh + ff <= 1 + q
             /\ aa + 1 >= MaxAttempts => aa + hh + rr + ff <= MaxAttempts + 2 * q
  BY DEF HoldersBound, AttemptsPaid
<1>6. CASE Keeps(j)
  <2>1. hh <= h /\ rr <= r
    BY <1>1, <1>6, FS_Subset DEF Keeps
  <2>2. aa = a /\ ff <= f /\ q >= p
    BY <1>3, <1>6 DEF Keeps
  <2> HIDE DEF h, r, hh, rr, f, ff, a, aa, p, q
  <2> QED BY <2>1, <2>2, <1>1, <1>2, <1>3, <1>4, <1>5
<1>7. CASE Reaps(j)
  <2>1. hh = h /\ rr = r /\ aa = a + 1
    BY <1>7 DEF Reaps
  <2>2. (f = 1 /\ q >= p) \/ (f = 0 /\ q = p + 1)
    BY <1>3, <1>7 DEF Reaps
  <2>3. ff = 1 => aa < MaxAttempts
    BY <1>3, <1>7 DEF Reaps
  <2> HIDE DEF h, r, hh, rr, f, ff, a, aa, p, q
  <2> QED BY <2>1, <2>2, <2>3, <1>1, <1>2, <1>3, <1>4, <1>5
<1>8. CASE Stops(j)
  <2>1. hh = 0 /\ rr = 0 /\ aa = a /\ q = p
    BY <1>8, FS_EmptySet DEF Stops
  <2>2. ff = 1 => f = 1 \/ h >= 1
    BY <1>8, <1>1, <1>3, FS_EmptySet DEF Stops
  <2> HIDE DEF h, r, hh, rr, f, ff, a, aa, p, q
  <2> QED BY <2>1, <2>2, <1>1, <1>2, <1>3, <1>4, <1>5
<1>9. ASSUME NEW w \in Workers, LeftBy(w, j) PROVE hh <= h - 1 /\ rr <= r /\ q = p
  <2>1. hh <= h - 1
    BY <1>9, <1>1, SmallerSet DEF LeftBy
  <2>2. Retriers(j)' \in SUBSET Retriers(j)
    BY <1>9 DEF LeftBy
  <2> QED BY <1>9, <1>1, <2>1, <2>2, FS_Subset DEF LeftBy
<1>10. ASSUME NEW w \in Workers, Settles(w, j)
       PROVE  /\ hh + ff <= 1 + q
              /\ aa + 1 >= MaxAttempts => aa + hh + rr + ff <= MaxAttempts + 2 * q
  <2>1. hh <= h - 1 /\ rr <= r /\ q = p /\ aa = a
    BY <1>9, <1>10 DEF Settles
  <2> HIDE DEF h, r, hh, rr, f, ff, a, aa, p, q
  <2> QED BY <2>1, <1>1, <1>2, <1>3, <1>4, <1>5
<1>11. ASSUME NEW w \in Workers, Retries(w, j)
       PROVE  /\ hh + ff <= 1 + q
              /\ aa + 1 >= MaxAttempts => aa + hh + rr + ff <= MaxAttempts + 2 * q
  <2>1. hh <= h - 1 /\ q = p /\ aa = a + 1
    BY <1>9, <1>11 DEF Retries
  <2>2. rr <= r - 1
    BY <1>1, <1>11, SmallerSet DEF Retries, LeftBy
  <2> HIDE DEF h, r, hh, rr, f, ff, a, aa, p, q
  <2> QED BY <2>1, <2>2, <1>1, <1>2, <1>3, <1>4, <1>5
<1>12. ASSUME NEW w \in Workers, Bumps(w, j)
       PROVE  /\ hh + ff <= 1 + q
              /\ aa + 1 >= MaxAttempts => aa + hh + rr + ff <= MaxAttempts + 2 * q
  <2>1. hh <= h - 1 /\ rr <= r /\ q = p /\ aa = a + 1
    BY <1>9, <1>12 DEF Bumps
  <2>2. f = 0 /\ (ff = 1 => aa < MaxAttempts)
    BY <1>3, <1>12 DEF Bumps
  <2> HIDE DEF h, r, hh, rr, f, ff, a, aa, p, q
  <2> QED BY <2>1, <2>2, <1>1, <1>2, <1>3, <1>4, <1>5
<1>13. ASSUME NEW w \in Workers, Claims(w, j)
       PROVE  /\ hh + ff <= 1 + q
              /\ aa + 1 >= MaxAttempts => aa + hh + rr + ff <= MaxAttempts + 2 * q
  <2>1. hh <= h + 1 /\ q = p /\ aa = a
    BY <1>1, <1>13, LargerSet DEF Claims
  <2>2. f = 1 /\ ff = 0
    BY <1>3, <1>13 DEF Claims
  <2>3. a + 1 >= MaxAttempts => rr <= r
    <3> HAVE a + 1 >= MaxAttempts
    <3>1. w \notin Retriers(j)'
      BY <1>2, <1>13 DEF Claims
    <3>2. Retriers(j)' \in SUBSET Retriers(j)
      BY <3>1, <1>13 DEF Claims
    <3> QED BY <3>2, <1>1, FS_Subset
  <2> HIDE DEF h, r, hh, rr, f, ff, a, aa, p, q
  <2> QED BY <2>1, <2>2, <2>3, <1>1, <1>2, <1>3, <1>4, <1>5
<1> QED BY <1>6, <1>7, <1>8, <1>10, <1>11, <1>12, <1>13

\* A step that does not write row j, and in which no worker begins or ends
\* its work on j, keeps it.
LEMMA RowKept ==
  ASSUME NEW j \in Jobs,
         state'[j] = state[j], locked_by'[j] = locked_by[j], attempts'[j] = attempts[j],
         preemptions' = preemptions, preemptions \in Nat,
         \A v \in Workers : /\ (Active(v) /\ held[v] = j) <=> (Active(v)' /\ held'[v] = j)
                            /\ Active(v) /\ held[v] = j => snap'[v] = snap[v]
  PROVE  Keeps(j)
<1>1. Holders(j)' = Holders(j)
  BY DEF Holders
<1>2. Retriers(j)' \subseteq Retriers(j)
  BY DEF Retriers, Holders
<1>3. Open(j)' => Open(j)
  BY DEF Open, Owns
<1> QED BY <1>1, <1>2, <1>3 DEF Keeps

\* Every way of leaving a job takes the worker off its row.
LEMMA LeavesIsLeftBy ==
  ASSUME TypeOK, NEW w \in Workers, NEW j \in Jobs, NEW s \in States, Leaves(w, j, s)
  PROVE  LeftBy(w, j)
<1> USE DEF Leaves
<1>1. w \in Holders(j)
  BY DEF Holders
<1>2. Holders(j)' \subseteq Holders(j) \ {w}
  BY DEF Holders, Active
<1>3. Retriers(j)' \subseteq Retriers(j) \ {w}
  BY DEF Retriers, Holders, Active
<1> QED BY <1>1, <1>2, <1>3 DEF LeftBy

\* What the steps of the workers do to a row.
LEMMA WorkerEffect ==
  ASSUME IInv, NEW w \in Workers, WorkerStep(w), NEW j \in Jobs
  PROVE  \/ Keeps(j) \/ \E v \in Workers : Settles(v, j) \/ Retries(v, j) \/ Bumps(v, j)
<1> USE DEF IInv, TypeOK
<1>0. Active(w) => held[w] \in Jobs
  BY DEF HoldsJob, Active
<1>1. CASE TimerFires(w) \/ \E s \in {"live", "failed"} : StampClip(w, s)
  <2>1. /\ state' = state /\ locked_by' = locked_by /\ attempts' = attempts
        /\ preemptions' = preemptions /\ held' = held /\ snap' = snap
    BY <1>1 DEF TimerFires, StampClip, row
  <2>2. \A v \in Workers : Active(v) <=> Active(v)'
    BY <1>1 DEF TimerFires, StampClip, Goes, Active
  <2>3. Keeps(j)
    BY <2>1, <2>2, RowKept
  <2> QED BY <2>3
<1>2. CASE BumpFailsClip(w)
  <2>1. /\ state' = state /\ locked_by' = locked_by /\ attempts' = attempts
        /\ preemptions' = preemptions
    BY <1>2 DEF BumpFailsClip, row
  <2>2. \A v \in Workers \ {w} : Active(v)' = Active(v) /\ held'[v] = held[v] /\ snap'[v] = snap[v]
    BY <1>2 DEF BumpFailsClip, Returns, Goes, Active
  <2>3. ~Active(w) /\ ~Active(w)'
    BY <1>2 DEF BumpFailsClip, Returns, Goes, Active
  <2>4. Keeps(j)
    BY <2>1, <2>2, <2>3, RowKept
  <2> QED BY <2>4
<1>3. CASE SettleFails(w) \/ (BumpAfterFailure(w) /\ ~BumpGuard(w))
  <2>1. /\ state' = state /\ locked_by' = locked_by /\ attempts' = attempts
        /\ preemptions' = preemptions /\ Active(w)
    BY <1>3 DEF SettleFails, BumpAfterFailure, row, Active
  <2>2. \A v \in Workers \ {w} : Active(v)' = Active(v) /\ held'[v] = held[v] /\ snap'[v] = snap[v]
    BY <1>3 DEF SettleFails, BumpAfterFailure, Returns, Goes, Active
  <2>3. ~Active(w)'
    BY <1>3 DEF SettleFails, BumpAfterFailure, Returns, Goes, Active
  <2>4. CASE held[w] # j
    <3>1. Keeps(j)
      BY <2>1, <2>2, <2>3, <2>4, RowKept
    <3> QED BY <3>1
  <2>5. CASE held[w] = j
    <3>1. w \in Holders(j) /\ Holders(j)' \subseteq Holders(j) \ {w}
      BY <2>1, <2>2, <2>3, <2>5 DEF Holders
    <3>2. Retriers(j)' \subseteq Retriers(j) \ {w}
      BY <2>1, <2>2, <2>3, <2>5 DEF Retriers, Holders
    <3>3. Settles(w, j)
      BY <2>1, <3>1, <3>2 DEF Settles, LeftBy
    <3> QED BY <3>3
  <2> QED BY <2>4, <2>5
<1>4. CASE \/ MarkDone(w) \/ DeadLetter(w) \/ DeliverRetry(w) \/ HandBack(w)
           \/ BumpAfterFailure(w) /\ BumpGuard(w)
  <2>1. PICK s \in States \ {"running"} : Leaves(w, held[w], s)
    BY <1>4, SettlersLeave
  <2>2. held[w] \in Jobs
    BY <1>4, SettlersLeave
  <2>3. CASE held[w] # j
    <3>1. /\ state'[j] = state[j] /\ locked_by'[j] = locked_by[j] /\ attempts'[j] = attempts[j]
          /\ preemptions' = preemptions
      BY <2>1, <2>2, <2>3 DEF Leaves, Unlocked
    <3>2. \A v \in Workers : /\ (Active(v) /\ held[v] = j) <=> (Active(v)' /\ held'[v] = j)
                             /\ Active(v) /\ held[v] = j => snap'[v] = snap[v]
      BY <2>1, <2>3 DEF Leaves, Active
    <3>3. Keeps(j)
      BY <3>1, <3>2, RowKept
    <3> QED BY <3>3
  <2>4. CASE held[w] = j
    <3>1. LeftBy(w, j)
      BY <2>1, <2>4, LeavesIsLeftBy
    <3>2. CASE MarkDone(w) \/ DeadLetter(w) \/ HandBack(w)
      <4>1. Settles(w, j)
        BY <3>1, <3>2 DEF MarkDone, DeadLetter, HandBack, Settles
      <4> QED BY <4>1
    <3>3. CASE DeliverRetry(w)
      <4>1. CASE RetriesExhausted(w)
        <5>1. Settles(w, j)
          BY <3>1, <3>3, <4>1 DEF DeliverRetry, Settles
        <5> QED BY <5>1
      <4>2. CASE ~RetriesExhausted(w)
        <5>1. w \in Retriers(j)
          BY <3>1, <4>2, ConstantAssumption DEF LeftBy, Retriers, RetriesExhausted
        <5>2. attempts'[j] = attempts[j] + 1
          BY <2>4, <3>3, <4>2 DEF DeliverRetry
        <5>3. Retries(w, j)
          BY <3>1, <5>1, <5>2 DEF Retries
        <5> QED BY <5>3
      <4> QED BY <4>1, <4>2
    <3>4. CASE BumpAfterFailure(w) /\ BumpGuard(w)
      <4>1. attempts'[j] = attempts[j] + 1
        BY <2>4, <3>4 DEF BumpAfterFailure
      <4>2. Owns(w, j)
        BY <2>4, <3>1, <3>4 DEF BumpGuard, Owns, LeftBy, Holders
      <4>3. ~Open(j)
        BY <4>2 DEF Open, Owns
      <4>4. state'[j] = IF attempts[j] + 1 >= MaxAttempts THEN "dead" ELSE "queued"
        BY <2>4, <3>4 DEF BumpAfterFailure, Unlocked
      <4>5. Open(j)' => attempts'[j] < MaxAttempts
        BY <4>1, <4>4, ConstantAssumption DEF Open
      <4>6. Bumps(w, j)
        BY <3>1, <4>1, <4>3, <4>5 DEF Bumps
      <4> QED BY <4>6
    <3> QED BY <1>4, <3>2, <3>3, <3>4
  <2> QED BY <2>3, <2>4
<1> QED BY <1>1, <1>2, <1>3, <1>4 DEF WorkerStep

\* What every step does to a row.
LEMMA RowEffect ==
  ASSUME IInv, [Next]_vars, NEW j \in Jobs
  PROVE  \/ Keeps(j) \/ Reaps(j) \/ Stops(j)
         \/ \E w \in Workers : Settles(w, j) \/ Retries(w, j) \/ Bumps(w, j) \/ Claims(w, j)
<1> USE DEF IInv, TypeOK
<1>0. ASSUME UNCHANGED <<task, preemptions>>,
             state'[j] = state[j] /\ locked_by'[j] = locked_by[j] /\ attempts'[j] = attempts[j]
      PROVE  Keeps(j)
  BY <1>0, RowKept DEF task, Active
<1>1. CASE UNCHANGED vars
  <2>1. Keeps(j)
    BY <1>0, <1>1 DEF vars, row
  <2> QED BY <2>1
<1>2. ASSUME NEW i \in Jobs, BackoffElapses(i) \/ LockExpires(i) \/ ReaperFailsClip(i) PROVE Keeps(j)
  BY <1>0, <1>2 DEF BackoffElapses, LockExpires, ReaperFailsClip, row
<1>3. ASSUME NEW i \in Jobs, Create(i) PROVE Keeps(j)
  <2>1. CASE i # j
    BY <1>0, <1>3, <2>1 DEF Create, Unlocked
  <2>2. CASE i = j
    <3>1. Holders(j)' = Holders(j) /\ Retriers(j)' = Retriers(j)
      BY <1>3 DEF Create, task, Holders, Retriers, Active
    <3>2. Open(j) /\ attempts' = attempts /\ preemptions' = preemptions
      BY <1>3, <2>2 DEF Create, Open
    <3> QED BY <3>1, <3>2 DEF Keeps
  <2> QED BY <2>1, <2>2
<1>4. ASSUME NEW w \in Workers, NEW i \in Jobs, ClaimAnswerLost(w, i) PROVE Keeps(j)
  <2>1. CASE i # j
    BY <1>0, <1>4, <2>1 DEF ClaimAnswerLost, LockRow
  <2>2. CASE i = j
    <3>1. Holders(j)' = Holders(j) /\ Retriers(j)' = Retriers(j)
      BY <1>4 DEF ClaimAnswerLost, task, Holders, Retriers, Active
    <3>2. Open(j) /\ attempts' = attempts /\ preemptions' = preemptions
      BY <1>4, <2>2 DEF ClaimAnswerLost, LockRow, NextDue, Open
    <3> QED BY <3>1, <3>2 DEF Keeps
  <2> QED BY <2>1, <2>2
<1>5. ASSUME NEW w \in Workers, NEW i \in Jobs, ClaimNextDue(w, i) PROVE Keeps(j) \/ Claims(w, j)
  <2>1. ~Active(w) /\ Active(w)' /\ held'[w] = i /\ snap'[w] = attempts[i]
    BY <1>5 DEF ClaimNextDue, Goes, Active
  <2>2. \A v \in Workers \ {w} : Active(v)' = Active(v) /\ held'[v] = held[v] /\ snap'[v] = snap[v]
    BY <1>5 DEF ClaimNextDue, Goes, Active
  <2>3. attempts' = attempts /\ preemptions' = preemptions
    BY <1>5 DEF ClaimNextDue, LockRow
  <2>4. CASE i # j
    <3>1. state'[j] = state[j] /\ locked_by'[j] = locked_by[j]
      BY <1>5, <2>4 DEF ClaimNextDue, LockRow
    <3> QED BY <2>1, <2>2, <2>3, <2>4, <3>1, RowKept
  <2>5. CASE i = j
    <3>1. Holders(j)' \subseteq Holders(j) \cup {w}
      BY <2>2 DEF Holders
    <3>2. Retriers(j)' \subseteq Retriers(j) \cup {w}
      BY <2>2 DEF Retriers, Holders
    <3>3. w \in Retriers(j)' => attempts[j] + 1 < MaxAttempts
      BY <2>1, <2>5 DEF Retriers
    <3>4. Open(j)
      BY <1>5, <2>5 DEF ClaimNextDue, LockRow, NextDue, Open
    <3>5. Owns(w, j)'
      BY <1>5, <2>1, <2>5 DEF ClaimNextDue, LockRow, Owns
    <3>6. ~Open(j)'
      BY <3>5 DEF Open, Owns
    <3> QED BY <2>3, <3>1, <3>2, <3>3, <3>4, <3>6 DEF Claims
  <2> QED BY <2>4, <2>5
<1>6. CASE ReapStaleJobs
  <2>1. \A v \in Workers : Active(v)' = Active(v) /\ held'[v] = held[v] /\ snap'[v] = snap[v]
    BY <1>6 DEF ReapStaleJobs, task, Active
  <2>2. Holders(j)' = Holders(j) /\ Retriers(j)' = Retriers(j)
    BY <2>1 DEF Holders, Retriers
  <2>3. preemptions' = IF Preempts THEN preemptions + 1 ELSE preemptions
    BY <1>6 DEF ReapStaleJobs
  <2>4. CASE j \in StaleJobs
    <3>1. attempts'[j] = attempts[j] + 1
      BY <1>6, <2>4 DEF ReapStaleJobs
    <3>2. ~Open(j) => Preempts
      BY <2>4 DEF Preempts, Open, StaleJobs
    <3>3. state'[j] = IF attempts[j] + 1 >= MaxAttempts THEN "dead" ELSE "queued"
      BY <1>6, <2>4 DEF ReapStaleJobs, ReapedState
    <3>4. Open(j)' => attempts'[j] < MaxAttempts
      BY <3>1, <3>3, ConstantAssumption DEF Open
    <3>5. Reaps(j)
      BY <2>2, <2>3, <3>1, <3>2, <3>4 DEF Reaps
    <3> QED BY <3>5
  <2>5. CASE j \notin StaleJobs
    <3>1. state'[j] = state[j] /\ locked_by'[j] = locked_by[j] /\ attempts'[j] = attempts[j]
      BY <1>6, <2>5 DEF ReapStaleJobs
    <3>2. Open(j)' => Open(j)
      BY <2>1, <3>1 DEF Open, Owns
    <3>3. preemptions' >= preemptions
      BY <2>3
    <3>4. Keeps(j)
      BY <2>2, <3>1, <3>2, <3>3 DEF Keeps
    <3> QED BY <3>4
  <2> QED BY <2>4, <2>5
<1>7. CASE Crash
  <2>1. Holders(j)' = {} /\ Retriers(j)' = {}
    BY <1>7 DEF Crash, Holders, Retriers, Active
  <2>2. UNCHANGED <<state, locked_by, attempts, preemptions>>
    BY <1>7 DEF Crash, row
  <2>3. Open(j)' => Open(j) \/ Holders(j) # {}
    BY <2>2 DEF Open, Owns, Holders
  <2>4. Stops(j)
    BY <2>1, <2>2, <2>3 DEF Stops
  <2> QED BY <2>4
<1>8. ASSUME NEW w \in Workers, WorkerStep(w)
      PROVE  Keeps(j) \/ \E v \in Workers : Settles(v, j) \/ Retries(v, j) \/ Bumps(v, j)
  BY <1>8, WorkerEffect
<1> QED BY <1>1, <1>2, <1>3, <1>4, <1>5, <1>6, <1>7, <1>8 DEF Next

\* At the start nobody is on any row.
LEMMA InitPaid == Init => Paid
<1> SUFFICES ASSUME Init, NEW j \in Jobs PROVE HoldersBound(j) /\ AttemptsPaid(j)
  BY DEF Paid
<1>1. Holders(j) = {} /\ Retriers(j) = {}
  BY DEF Init, Holders, Retriers, Active
<1>2. Cardinality(Holders(j)) = 0 /\ Cardinality(Retriers(j)) = 0
  BY <1>1, FS_EmptySet
<1>3. Opening(j) \in {0, 1} /\ attempts[j] = 0 /\ preemptions = 0
  BY DEF Opening, Init
<1> QED BY <1>2, <1>3, ConstantAssumption DEF HoldersBound, AttemptsPaid

\* The bounds on the workers and the attempts of a row are inductive.
LEMMA PaidStep == IInv /\ Paid /\ [Next]_vars => Paid'
<1> SUFFICES ASSUME IInv, Paid, [Next]_vars, NEW j \in Jobs PROVE (HoldersBound(j) /\ AttemptsPaid(j))'
  BY DEF Paid
<1>1. preemptions' \in Nat
  BY IInvStep DEF IInv, TypeOK
<1>2. HoldersBound(j) /\ AttemptsPaid(j) /\ TypeOK
  BY DEF Paid, IInv
<1> QED BY <1>1, <1>2, RowEffect, PaidFor

\* AttemptsBound: reap_stale_jobs, schedule_deliver_retry and
\* bump_job_after_failure, which count in three places, together exceed
\* max_attempts by two per sweep that preempted a live worker, at most.
THEOREM AttemptsBounded == Spec => []AttemptsBound
<1>1. IInv /\ Paid => AttemptsBound
  <2> SUFFICES ASSUME IInv, Paid, NEW j \in Jobs PROVE attempts[j] <= MaxAttempts + 2 * preemptions
    BY DEF AttemptsBound
  <2>1. Cardinality(Holders(j)) \in Nat /\ Cardinality(Retriers(j)) \in Nat
    BY HoldersFinite
  <2>2. Opening(j) \in Nat /\ attempts[j] \in Nat /\ preemptions \in Nat /\ MaxAttempts \in Nat
    BY ConstantAssumption DEF Opening, IInv, TypeOK
  <2>3. AttemptsPaid(j)
    BY DEF Paid
  <2> QED BY <2>1, <2>2, <2>3 DEF AttemptsPaid
<1> QED BY <1>1, InitIInv, IInvStep, InitPaid, PaidStep, PTL DEF Spec

=============================================================================
