------------------------------ MODULE JobQueue ------------------------------
(***************************************************************************)
(* The Postgres job queue (crates/db/src/job.rs) and everything in         *)
(* crates/server/src/worker.rs that moves a row of it: the worker pool,    *)
(* the delivery worker, the job timeout, the delivery retry and the        *)
(* stale-lock reaper.  All of them are tasks of ONE server process, so a   *)
(* crash stops them together and loses their local state.                  *)
(*                                                                         *)
(* Every SQL statement is one atomic step; every await between two         *)
(* statements is a point where other tasks may run.  Wall-clock time is    *)
(* abstracted to the two comparisons the code makes with it: run_after <=  *)
(* now (the set due) and locked_at < now - job_timeout (the flag stale).   *)
(***************************************************************************)
EXTENDS Integers, FiniteSets

CONSTANTS
  Jobs,             \* ids of the rows the model may insert
  Kind,             \* Kind[j]: the kind of job j, see Kinds
  PoolWorkers,      \* the names "worker-0", "worker-1", ...
  DeliveryWorker,   \* the name "delivery"
  NoWorker,         \* NULL in locked_by
  NoJob,            \* a worker that holds no job
  MaxAttempts,      \* the column default max_attempts (5 in the schema)
  MaxPreemptions    \* bound: sweeps that may take a job from a live worker

\* Three families of kinds carry a clip_id or not, and start with "deliver"
\* or not: probe/transcode/finalize ("media"), deliver/deliver_follow
\* ("deliver"), deliver_create ("fanout"), backfill_actor ("backfill").
Kinds == {"media", "deliver", "fanout", "backfill"}

Workers == PoolWorkers \cup {DeliveryWorker}

ASSUME ConstantAssumption ==
  /\ Kind \in [Jobs -> Kinds]
  /\ MaxAttempts \in Nat /\ MaxAttempts >= 1
  /\ MaxPreemptions \in Nat
  /\ IsFiniteSet(PoolWorkers) /\ DeliveryWorker \notin PoolWorkers
  /\ NoWorker \notin Workers
  /\ NoJob \notin Jobs

VARIABLES
  \* The jobs table, one function per column.
  state,        \* "absent" before the INSERT
  attempts,
  locked_by,
  stale,        \* locked_at < now() - job_timeout
  due,          \* the jobs with run_after <= now()
  ahead,        \* ahead[j]: the due jobs whose run_after precedes that of j
  \* clips.status of the clip in the payload: failed or anything else.
  clip,
  \* Local state of the worker tasks.
  phase, held, snap,
  \* Local state of the maintenance task: dead rows whose clip it has to fail.
  toFail,
  \* History: sweeps of the reaper that took a job from a live worker.
  preemptions

row == <<state, attempts, locked_by, stale, due, ahead>>
task == <<phase, held, snap>>
vars == <<row, clip, task, toFail, preemptions>>

States == {"absent", "queued", "running", "done", "dead"}

\* "busy": inside handle_job; "stamped": it has written the clip and not yet
\* the job; "overrun": the timeout cancelled it; "failclip": the job is
\* bumped, Clip::mark_failed is still to come.
Phases == {"idle", "busy", "stamped", "overrun", "failclip"}

\* The phases in which a worker acts on a job it believes it has claimed.
Active(w) == phase[w] \in {"busy", "stamped", "overrun"}

IsDeliver(j) == Kind[j] \in {"deliver", "fanout"}
HasClip(j) == Kind[j] \in {"media", "fanout"}

\* The worker whose name is on the row also runs it.
Owns(w, j) == Active(w) /\ held[w] = j /\ state[j] = "running" /\ locked_by[j] = w

Init ==
  /\ state = [j \in Jobs |-> "absent"]
  /\ attempts = [j \in Jobs |-> 0]
  /\ locked_by = [j \in Jobs |-> NoWorker]
  /\ stale = [j \in Jobs |-> FALSE]
  /\ due = {}
  /\ ahead = [j \in Jobs |-> {}]
  /\ clip = [j \in Jobs |-> "live"]
  /\ phase = [w \in Workers |-> "idle"]
  /\ held = [w \in Workers |-> NoJob]
  /\ snap = [w \in Workers |-> 0]
  /\ toFail = {}
  /\ preemptions = 0

-----------------------------------------------------------------------------
(* Statements on one row.                                                  *)

\* Mutant: the lock columns outlive the lock.
UnlockedKeepsName(j, s) ==
  /\ state' = [state EXCEPT ![j] = s]
  /\ stale' = [stale EXCEPT ![j] = FALSE]
  /\ UNCHANGED locked_by

\* Every writer of a row but the claim clears the lock columns.
Unlocked(j, s) ==
  /\ state' = [state EXCEPT ![j] = s]
  /\ locked_by' = [locked_by EXCEPT ![j] = NoWorker]
  /\ stale' = [stale EXCEPT ![j] = FALSE]

\* run_after = now(): behind every job that is due already.
BecomesDue(j) ==
  /\ due' = due \cup {j}
  /\ ahead' = [ahead EXCEPT ![j] = due \ {j}]

\* Mutants: the claim takes rows that are running, or dead.
NextDueRunning(j) == j \in due /\ state[j] \in {"queued", "running"}
NextDueDead(j) == j \in due /\ state[j] \in {"queued", "dead"}

\* ORDER BY run_after LIMIT 1 over the queued rows that are due.
NextDue(j) ==
  /\ j \in due
  /\ state[j] = "queued"
  /\ \A i \in ahead[j] : state[i] # "queued"

Goes(w, p) == phase' = [phase EXCEPT ![w] = p]

\* The handler returns and its loop polls again.
Returns(w) ==
  /\ Goes(w, "idle")
  /\ held' = [held EXCEPT ![w] = NoJob]
  /\ snap' = [snap EXCEPT ![w] = 0]

-----------------------------------------------------------------------------
(* Producers, and the clock.                                               *)

\* Job::create: attempts and state take the column defaults.
Create(j) ==
  /\ state[j] = "absent"
  /\ Unlocked(j, "queued")
  /\ BecomesDue(j)
  /\ UNCHANGED <<attempts, clip, task, toFail, preemptions>>

\* The backoff of a retried delivery has passed.
BackoffElapses(j) ==
  /\ state[j] # "absent" /\ j \notin due
  /\ BecomesDue(j)
  /\ UNCHANGED <<state, attempts, locked_by, stale, clip, task, toFail, preemptions>>

\* job_timeout has passed since the claim.  A pool worker that claimed the
\* job earlier and lost it has been cancelled by its own timer before that;
\* the delivery worker has no timer and may still be at it.
LockExpires(j) ==
  /\ state[j] = "running" /\ ~stale[j]
  /\ \A w \in PoolWorkers :
       phase[w] \in {"busy", "stamped"} /\ held[w] = j => locked_by[j] = w
  /\ stale' = [stale EXCEPT ![j] = TRUE]
  /\ UNCHANGED <<state, attempts, locked_by, due, ahead, clip, task, toFail, preemptions>>

-----------------------------------------------------------------------------
(* The worker loops.                                                       *)

\* CLAIM_NEXT_DUE_SQL: pick, lock and flip in one statement.
LockRow(w, j) ==
  /\ NextDue(j)
  /\ state' = [state EXCEPT ![j] = "running"]
  /\ locked_by' = [locked_by EXCEPT ![j] = w]
  /\ stale' = [stale EXCEPT ![j] = FALSE]
  /\ UNCHANGED <<attempts, due, ahead, clip, toFail, preemptions>>

\* claim_next_due returns the row; the worker keeps this copy of it, and
\* with it the attempts of this moment, until its handler returns.
ClaimNextDue(w, j) ==
  /\ phase[w] = "idle"
  /\ LockRow(w, j)
  /\ Goes(w, "busy")
  /\ held' = [held EXCEPT ![w] = j]
  /\ snap' = [snap EXCEPT ![w] = attempts[j]]

\* The statement commits but the worker gets Err(e) and backs off.
ClaimAnswerLost(w, j) ==
  /\ phase[w] = "idle"
  /\ LockRow(w, j)
  /\ UNCHANGED task

\* handle_job of this job may run in this loop: the delivery loop runs the
\* deliver kinds only.
Handles(w, j) == w \in PoolWorkers \/ IsDeliver(j)

\* A media handler writes the clip before it settles its job: processing or
\* ready when it accepts, failed when it rejects.
StampClip(w, s) ==
  /\ phase[w] = "busy" /\ Kind[held[w]] = "media" /\ Handles(w, held[w])
  /\ clip' = [clip EXCEPT ![held[w]] = s]
  /\ Goes(w, "stamped")
  /\ UNCHANGED <<row, held, snap, toFail, preemptions>>

\* Job::mark_done: by id alone, whoever holds the row now.
MarkDone(w) ==
  /\ phase[w] \in {"busy", "stamped"} /\ Handles(w, held[w])
  /\ Unlocked(held[w], "done")
  /\ Returns(w)
  /\ UNCHANGED <<attempts, due, ahead, clip, toFail, preemptions>>

\* Job::dead_letter from a handler (malformed payload, unknown kind, failed
\* stamp, failed backfill): by id alone.  A plain delivery only reaches it
\* through DeliverRetry.
DeadLetter(w) ==
  /\ phase[w] \in {"busy", "stamped"} /\ Handles(w, held[w])
  /\ Kind[held[w]] # "deliver"
  /\ Unlocked(held[w], "dead")
  /\ Returns(w)
  /\ UNCHANGED <<attempts, due, ahead, clip, toFail, preemptions>>

\* Mutant: one retry too many.
RetriesExhaustedLate(w) == snap[w] >= MaxAttempts

\* job.attempts + 1 >= job.max_attempts, on the worker's copy of the row.
RetriesExhausted(w) == snap[w] + 1 >= MaxAttempts

\* schedule_deliver_retry: the decision is taken on the worker's copy of
\* attempts, the increment on the row's.
DeliverRetry(w) ==
  LET j == held[w] IN
  /\ phase[w] = "busy" /\ IsDeliver(j)
  /\ IF RetriesExhausted(w)
     THEN /\ Unlocked(j, "dead")
          /\ UNCHANGED <<attempts, due, ahead>>
     ELSE /\ Unlocked(j, "queued")
          /\ attempts' = [attempts EXCEPT ![j] = attempts[j] + 1]
          /\ due' = due \ {j}
          /\ ahead' = [i \in Jobs |-> IF i = j THEN {} ELSE ahead[i] \ {j}]
  /\ Returns(w)
  /\ UNCHANGED <<clip, toFail, preemptions>>

\* The delivery loop claimed a job it does not run: back to the queue by id
\* alone, run_after untouched.
HandBack(w) ==
  /\ phase[w] = "busy" /\ ~Handles(w, held[w])
  /\ Unlocked(held[w], "queued")
  /\ Returns(w)
  /\ UNCHANGED <<attempts, due, ahead, clip, toFail, preemptions>>

\* The statement that would settle, hand back or bump the job fails; the
\* error is logged and the row stays as it is.
SettleFails(w) ==
  /\ Active(w)
  /\ Returns(w)
  /\ UNCHANGED <<row, clip, toFail, preemptions>>

\* tokio::time::timeout drops the handler.  The timer starts after locked_at
\* was taken, so the lock, if it is still this worker's, is stale by then.
\* The delivery loop sets no timer.
TimerFires(w) ==
  /\ w \in PoolWorkers
  /\ phase[w] \in {"busy", "stamped"}
  /\ locked_by[held[w]] = w => stale[held[w]]
  /\ Goes(w, "overrun")
  /\ UNCHANGED <<row, clip, held, snap, toFail, preemptions>>

\* Mutant: the guard forgets whose lock it is.
BumpGuardAnyWorker(w) == state[held[w]] = "running"

\* WHERE id = $1 AND locked_by = $2 AND state = 'running'
BumpGuard(w) == state[held[w]] = "running" /\ locked_by[held[w]] = w

\* bump_job_after_failure.
BumpAfterFailure(w) ==
  LET j == held[w] IN
  /\ phase[w] = "overrun"
  /\ IF BumpGuard(w)
     THEN /\ attempts' = [attempts EXCEPT ![j] = attempts[j] + 1]
          /\ Unlocked(j, IF attempts[j] + 1 >= MaxAttempts THEN "dead" ELSE "queued")
          /\ IF HasClip(j)
             THEN Goes(w, "failclip") /\ UNCHANGED <<held, snap>>
             ELSE Returns(w)
     ELSE Returns(w) /\ UNCHANGED <<state, attempts, locked_by, stale>>
  /\ UNCHANGED <<due, ahead, clip, toFail, preemptions>>

\* The Clip::mark_failed that follows the bump; an error is only logged.
BumpFailsClip(w) ==
  /\ phase[w] = "failclip"
  /\ \E s \in {"failed", clip[held[w]]} : clip' = [clip EXCEPT ![held[w]] = s]
  /\ Returns(w)
  /\ UNCHANGED <<row, toFail, preemptions>>

-----------------------------------------------------------------------------
(* The maintenance loop, and the crash of the process.                     *)

\* Mutant: the sweep passes over jobs on their last attempt.
StaleJobsWithAttemptsLeft ==
  {j \in Jobs : state[j] = "running" /\ stale[j] /\ attempts[j] + 1 < MaxAttempts}

\* WHERE state = 'running' AND locked_at < now() - job_timeout
StaleJobs == {j \in Jobs : state[j] = "running" /\ stale[j]}

\* Mutants: a state the schema does not know; one attempt too many.
ReapedStateFailed(j) == IF attempts[j] + 1 >= MaxAttempts THEN "failed" ELSE "queued"
ReapedStateLate(j) == IF attempts[j] >= MaxAttempts THEN "dead" ELSE "queued"

\* The state a swept row goes to.
ReapedState(j) == IF attempts[j] + 1 >= MaxAttempts THEN "dead" ELSE "queued"

\* The sweep takes a job from a worker that still runs it.
Preempts == \E w \in Workers, j \in StaleJobs : Owns(w, j)

\* The UPDATE of reap_stale_jobs: one statement over every stale row.
ReapStaleJobs ==
  /\ toFail = {} /\ StaleJobs # {}
  /\ Preempts => preemptions < MaxPreemptions
  /\ state' = [j \in Jobs |-> IF j \in StaleJobs THEN ReapedState(j) ELSE state[j]]
  /\ attempts' = [j \in Jobs |-> IF j \in StaleJobs THEN attempts[j] + 1 ELSE attempts[j]]
  /\ locked_by' = [j \in Jobs |-> IF j \in StaleJobs THEN NoWorker ELSE locked_by[j]]
  /\ stale' = [j \in Jobs |-> FALSE]
  /\ toFail' = {j \in StaleJobs : ReapedState(j) = "dead" /\ HasClip(j)}
  /\ preemptions' = IF Preempts THEN preemptions + 1 ELSE preemptions
  /\ UNCHANGED <<due, ahead, clip, task>>

\* Then Clip::mark_failed for each dead row; an error is only logged.
ReaperFailsClip(j) ==
  /\ j \in toFail
  /\ \E s \in {"failed", clip[j]} : clip' = [clip EXCEPT ![j] = s]
  /\ toFail' = toFail \ {j}
  /\ UNCHANGED <<row, task, preemptions>>

\* The server stops and starts again: the tables survive, the tasks do not,
\* and the new workers take the same names.
Crash ==
  /\ phase' = [w \in Workers |-> "idle"]
  /\ held' = [w \in Workers |-> NoJob]
  /\ snap' = [w \in Workers |-> 0]
  /\ toFail' = {}
  /\ UNCHANGED <<row, clip, preemptions>>

-----------------------------------------------------------------------------

\* The steps of handle_job and of what follows it.
WorkerStep(w) ==
  \/ \E s \in {"live", "failed"} : StampClip(w, s)
  \/ MarkDone(w)
  \/ DeadLetter(w)
  \/ DeliverRetry(w)
  \/ HandBack(w)
  \/ SettleFails(w)
  \/ TimerFires(w)
  \/ BumpAfterFailure(w)
  \/ BumpFailsClip(w)

Next ==
  \/ \E j \in Jobs : Create(j) \/ BackoffElapses(j) \/ LockExpires(j)
  \/ \E w \in Workers, j \in Jobs : ClaimNextDue(w, j) \/ ClaimAnswerLost(w, j)
  \/ \E w \in Workers : WorkerStep(w)
  \/ ReapStaleJobs
  \/ \E j \in Jobs : ReaperFailsClip(j)
  \/ Crash

Spec == Init /\ [][Next]_vars

\* A handler ends (ffmpeg, ffprobe and HTTP calls are all bounded), time
\* passes, the 30 s tick comes.  The pool's claim is only enabled now and
\* then while the delivery loop takes a job and hands it back, so it gets
\* strong fairness: two independent pollers do not alternate for ever.
Fairness ==
  /\ \A w \in Workers : WF_vars(WorkerStep(w))
  /\ \A j \in Jobs : WF_vars(BackoffElapses(j)) /\ WF_vars(LockExpires(j))
  /\ SF_vars(\E w \in PoolWorkers, j \in Jobs : ClaimNextDue(w, j))
  /\ WF_vars(ReapStaleJobs)
  /\ WF_vars(\E j \in Jobs : ReaperFailsClip(j))

FairSpec == Spec /\ Fairness

-----------------------------------------------------------------------------
(* Properties.                                                             *)

\* TYPES: the columns of jobs and the local state of the tasks stay
\* well-formed (JobState, attempts, locked_by).
TypeOK ==
  /\ state \in [Jobs -> States]
  /\ attempts \in [Jobs -> Nat]
  /\ locked_by \in [Jobs -> Workers \cup {NoWorker}]
  /\ stale \in [Jobs -> BOOLEAN]
  /\ due \subseteq Jobs
  /\ ahead \in [Jobs -> SUBSET Jobs]
  /\ clip \in [Jobs -> {"live", "failed"}]
  /\ phase \in [Workers -> Phases]
  /\ held \in [Workers -> Jobs \cup {NoJob}]
  /\ snap \in [Workers -> Nat]
  /\ toFail \subseteq Jobs
  /\ preemptions \in Nat

\* LOCKS: a row carries a worker's name exactly while it is running.  Every
\* writer of worker.rs and job.rs must clear or set the two together: the
\* reaper only sees running rows, the claim only queued ones.
LockMatchesState == \A j \in Jobs : state[j] = "running" <=> locked_by[j] # NoWorker

\* SNAPSHOT: the copy of the row a handler decides its retry on is current as
\* long as the row is locked by that worker, across reaps, late writers,
\* crashes and new workers with the same name.
SnapshotFresh == \A w \in Workers, j \in Jobs : Owns(w, j) => snap[w] = attempts[j]

\* BUMP (doc comment of bump_job_after_failure): a timed-out worker changes a
\* job only if nobody bumped the job since this worker claimed it, so that no
\* failed attempt is counted twice.
BumpOwnsAttempt ==
  [][\A w \in Workers : phase[w] = "overrun" /\ phase'[w] # "overrun" /\ attempts' # attempts
        => attempts'[held[w]] = snap[w] + 1]_vars

\* ONE RUNNER: while no sweep has taken a job from a live worker, every
\* worker inside a handler has the lock of its job, hence no two run one job.
OneRunner ==
  preemptions = 0 =>
    \A w \in Workers : Active(w) => state[held[w]] = "running" /\ locked_by[held[w]] = w

\* ATTEMPTS (reap_stale_jobs, schedule_deliver_retry, bump_job_after_failure
\* count attempts in three places): while no sweep preempted a live worker,
\* a job that is not dead has attempts left, and no job counts more than
\* max_attempts.
AttemptsLeft ==
  preemptions = 0 =>
    \A j \in Jobs : /\ attempts[j] <= MaxAttempts
                    /\ state[j] # "dead" => attempts[j] < MaxAttempts

\* Each sweep that preempts a live worker can cost two attempts over the
\* maximum: one by the late writer, one by the run it causes.
AttemptsBound == \A j \in Jobs : attempts[j] <= MaxAttempts + 2 * preemptions

\* FINAL: while no sweep preempted a live worker, a settled job stays so, in
\* spite of every UPDATE of job.rs being by id alone.
SettledIsFinal ==
  [][preemptions = 0 => \A j \in Jobs : state[j] \in {"done", "dead"} => state'[j] = state[j]]_vars

\* PROGRESS: every queued job is settled in the end, through crashes, lost
\* answers, failed writes, hand-backs and retries.
EveryJobSettles ==
  \A j \in Jobs : state[j] = "queued" ~> state[j] \in {"done", "dead"}

\* Comment of process_finalize (worker.rs:797): federation is best-effort "instead of
\* failing an already-playable clip".
FanoutSparesClip == \A j \in Jobs : Kind[j] = "fanout" => clip[j] = "live"

=============================================================================
