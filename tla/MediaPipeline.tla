---------------------------- MODULE MediaPipeline ----------------------------
(***************************************************************************)
(* The life of an uploaded clip: the upload request (server/src/upload.rs),*)
(* the probe, transcode and finalize jobs (server/src/worker.rs), their    *)
(* timeouts and re-runs, the media garbage collector, and the deletion of  *)
(* the account (server/src/accounts.rs), over the tables clips and         *)
(* media_assets and the files of the store.                                *)
(*                                                                         *)
(* Each SQL statement and each file operation is one step.  JobQueue is    *)
(* the detailed model of the queue; here a job is claimed, settled,        *)
(* interrupted and run again.                                              *)
(***************************************************************************)
EXTENDS Integers, FiniteSets

CONSTANTS
  Uploads,      \* upload requests of one account; also the ids of their clips
  Hash,         \* Hash[u]: sha256 of the uploaded bytes
  Renditions,   \* what transcode produces: the rungs and the poster
  Workers,      \* the worker pool
  NoJob,
  NoAsset,
  MaxAttempts,  \* jobs.max_attempts
  MaxTimeouts,  \* bound: runs cut short by job_timeout
  MaxErrors,    \* bound: statements or file operations that fail
  MaxCrashes,   \* bound: restarts of the server
  MaxDeletions, \* bound: requests to delete the account
  Mixed,        \* bound: FALSE keeps a deletion apart from timeouts and restarts
  Collecting    \* bound: FALSE leaves out the collector

ASSUME ConstantAssumption ==
  /\ NoAsset \notin Uploads \X (Renditions \cup {"orig"})
  /\ "orig" \notin Renditions
  /\ NoJob \notin Uploads \X {"probe", "transcode", "finalize"} \X (0 .. MaxAttempts)
  /\ IsFiniteSet(Workers)
  /\ MaxAttempts \in Nat /\ MaxAttempts >= 1
  /\ MaxTimeouts \in Nat /\ MaxErrors \in Nat /\ MaxCrashes \in Nat /\ MaxDeletions \in Nat /\ Collecting \in BOOLEAN /\ Mixed \in BOOLEAN
  /\ Hash \in [Uploads -> Nat]

VARIABLES
  status, gone,         \* clips: status, and the rows with deleted_at
  rows, ready,          \* media_assets: rows by (clip, rendition); with ready_at
  files, old,           \* the store; files older than the grace window
  announced,            \* Create(Note) fan-outs enqueued per clip
  queued, abandoned,    \* jobs: queued; running without a worker
  up,                   \* the upload requests
  run, pc, todo, cur,   \* the workers
  acct, doomed,         \* the deletion of the account
  gc, gcRef, gcRows, gcGone, gcRow, \* the garbage collector
  newFiles,             \* in flight at its first snapshot, or written since
  newRows,              \* inserted since its second snapshot
  harmed,               \* history: clips with an interrupted run, a lost row or
                        \* files the deletion of the account removed
  losses,               \* history: runs whose end the queue does not know of
  unmarked,             \* history: clips whose mark_failed failed
  timeouts, errors, crashes, deletions

clips == <<status, gone>>
assets == <<rows, ready, newRows>>
store == <<files, old, newFiles>>
jobs == <<queued, abandoned>>
worker == <<run, pc, todo, cur>>
account == <<acct, doomed>>
sweep == <<gc, gcRef, gcRows, gcGone, gcRow>>
history == <<harmed, losses, unmarked>>
faults == <<timeouts, errors, crashes, deletions>>
vars == <<clips, assets, store, announced, jobs, up, worker, account, sweep, history, faults>>

Assets == Renditions \cup {"orig"}
Files == Uploads \X Assets
Stages == {"probe", "transcode", "finalize"}
Jobs == Uploads \X Stages \X (0 .. MaxAttempts)

\* Mutant: the original is stored under its hash.
OriginalByHash(u) == <<CHOOSE v \in Uploads : Hash[v] = Hash[u], "orig">>

\* The key is a fresh UUID per request.
Original(u) == <<u, "orig">>

Statuses == {"none", "pending", "processing", "ready", "failed", "deleted"}
UploadPhases == {"idle", "checked", "saved", "inserted", "enqueued", "undo", "undone", "done"}
WorkerPhases == {"idle", "start", "reject", "discard", "store", "register", "orig", "enqueue",
                 "drop", "unlink", "fail", "publish", "announce", "announcing", "settle", "bumped"}

Init ==
  /\ status = [u \in Uploads |-> "none"] /\ gone = {}
  /\ rows = {} /\ ready = {} /\ files = {} /\ old = {}
  /\ announced = [u \in Uploads |-> 0]
  /\ queued = [j \in Jobs |-> 0] /\ abandoned = [j \in Jobs |-> 0]
  /\ up = [u \in Uploads |-> "idle"]
  /\ run = [w \in Workers |-> NoJob] /\ pc = [w \in Workers |-> "idle"]
  /\ todo = [w \in Workers |-> {}] /\ cur = [w \in Workers |-> NoAsset]
  /\ acct = "live" /\ doomed = {}
  /\ gc = "idle" /\ gcRef = {} /\ gcRows = {} /\ gcGone = {} /\ gcRow = NoAsset
  /\ newFiles = {} /\ newRows = {}
  /\ harmed = {} /\ losses = [u \in Uploads |-> 0] /\ unmarked = {}
  /\ timeouts = 0 /\ errors = 0 /\ crashes = 0 /\ deletions = 0

-----------------------------------------------------------------------------
(* Statements.                                                             *)

SetStatus(u, s) == status' = [status EXCEPT ![u] = s] /\ UNCHANGED gone

\* clips_sha256_active_uniq covers the rows neither failed nor deleted; Admits
\* is the condition under which it lets clip u (back) in.
InIndex(u) == status[u] \notin {"none", "failed"} /\ u \notin gone
Admits(u) == u \in gone \/ \A v \in Uploads \ {u} : Hash[v] = Hash[u] => ~InIndex(v)

\* Clip::mark_failed: by id alone.
MarkFailed(u) == SetStatus(u, "failed")

\* Store::save_bytes writes or overwrites; Store::delete accepts a missing file.
SaveFile(f) ==
  /\ files' = files \cup {f} /\ old' = old \ {f}
  /\ newFiles' = IF gc = "idle" THEN {} ELSE newFiles \cup {f}
DeleteFile(f) == files' = files \ {f} /\ old' = old \ {f} /\ UNCHANGED newFiles

\* MediaAsset::create and ::upsert: one row per clip and rendition, whose
\* ready_at they never touch.
PutRow(f) ==
  /\ rows' = rows \cup {f}
  /\ newRows' = IF f \in rows \/ gc # "sweep" THEN newRows ELSE newRows \cup {f}
  /\ UNCHANGED ready

\* Mutant: the stamp outlives its row.
DropRowsKeepsStamp(fs) == rows' = rows \ fs /\ UNCHANGED <<ready, newRows>>

DropRows(fs) == rows' = rows \ fs /\ ready' = ready \ fs /\ UNCHANGED newRows

\* Job::create.
Enqueue(u, stage) == queued' = [queued EXCEPT ![<<u, stage, 0>>] = @ + 1] /\ UNCHANGED abandoned

Errs == errors < MaxErrors /\ errors' = errors + 1 /\ UNCHANGED <<timeouts, crashes, deletions>>
Harm(us) == harmed' = harmed \cup us

\* Every caller of mark_failed goes on when it fails.
LeavesUnmarked(u) == Errs /\ unmarked' = unmarked \cup {u} /\ UNCHANGED <<clips, harmed, losses>>

-----------------------------------------------------------------------------
(* The upload request.                                                     *)

Answers(u, p) ==
  /\ up' = [up EXCEPT ![u] = p]
  /\ UNCHANGED <<announced, worker, account, sweep>>

\* The dedup SELECT finds nothing; the quota is taken to allow the upload.
UploadCheck(u) ==
  /\ up[u] = "idle" /\ acct # "erased"
  /\ \A v \in Uploads : Hash[v] = Hash[u] => ~InIndex(v)
  /\ Answers(u, "checked")
  /\ UNCHANGED <<clips, assets, store, jobs, history, faults>>

\* It finds a clip with the same bytes: 409.
UploadDuplicate(u) ==
  /\ up[u] = "idle" /\ acct # "erased"
  /\ \E v \in Uploads : Hash[v] = Hash[u] /\ InIndex(v)
  /\ Answers(u, "done")
  /\ UNCHANGED <<clips, assets, store, jobs, history, faults>>

UploadStore(u) ==
  /\ up[u] = "checked"
  /\ SaveFile(Original(u))
  /\ Answers(u, "saved")
  /\ UNCHANGED <<clips, assets, jobs, history, faults>>

\* create_pending_upload, which the unique index may refuse.
UploadInsert(u) ==
  /\ up[u] = "saved"
  /\ IF Admits(u)
     THEN SetStatus(u, "pending") /\ Answers(u, "inserted")
     ELSE UNCHANGED clips /\ Answers(u, "undo")
  /\ UNCHANGED <<assets, store, jobs, history, faults>>

\* The sound, the hashtags, then the job.
UploadEnqueue(u) ==
  /\ up[u] = "inserted"
  /\ Enqueue(u, "probe")
  /\ Answers(u, "enqueued")
  /\ UNCHANGED <<clips, assets, store, history, faults>>

\* A statement between the INSERT and the job, both included, fails.
UploadErrs(u) ==
  /\ up[u] \in {"saved", "inserted"} /\ Errs
  /\ Answers(u, "undo")
  /\ UNCHANGED <<clips, assets, store, jobs, history>>

\* The file is deleted, then the clip, if there is one, failed.
UploadUndo(u) ==
  /\ up[u] = "undo"
  /\ DeleteFile(Original(u))
  /\ Answers(u, IF status[u] = "none" THEN "done" ELSE "undone")
  /\ UNCHANGED <<clips, assets, jobs, history, faults>>

UploadFailClip(u) ==
  /\ up[u] = "undone"
  /\ MarkFailed(u)
  /\ Answers(u, "done")
  /\ UNCHANGED <<assets, store, jobs, history, faults>>

\* The failure of either is dropped.
UploadUndoErrs(u) ==
  /\ up[u] = "undo" /\ Errs
  /\ Answers(u, IF status[u] = "none" THEN "done" ELSE "undone")
  /\ UNCHANGED <<clips, assets, store, jobs, history>>

UploadFailErrs(u) ==
  /\ up[u] = "undone" /\ LeavesUnmarked(u)
  /\ Answers(u, "done")
  /\ UNCHANGED <<assets, store, jobs>>

\* The early orig row, after the job is visible to the workers.
UploadRegister(u) ==
  /\ up[u] = "enqueued"
  /\ PutRow(Original(u))
  /\ Answers(u, "done")
  /\ UNCHANGED <<clips, store, jobs, history, faults>>

\* Its failure is only logged.
UploadRegisterErrs(u) ==
  /\ up[u] = "enqueued" /\ Errs
  /\ Harm({u})
  /\ Answers(u, "done")
  /\ UNCHANGED <<clips, assets, store, jobs, losses, unmarked>>

UploadStep(u) ==
  \/ UploadCheck(u) \/ UploadDuplicate(u) \/ UploadStore(u) \/ UploadInsert(u)
  \/ UploadEnqueue(u) \/ UploadUndo(u) \/ UploadFailClip(u) \/ UploadRegister(u)

-----------------------------------------------------------------------------
(* The workers.                                                            *)

Clip(w) == run[w][1]
At(w, stage, p) == pc[w] = p /\ run[w][2] = stage
Running(w) == pc[w] \notin {"idle", "bumped"}

Elsewhere == UNCHANGED <<up, account, sweep>>
Goes(w, p) == pc' = [pc EXCEPT ![w] = p] /\ UNCHANGED <<run, todo, cur>> /\ Elsewhere

Idles(w) ==
  /\ pc' = [pc EXCEPT ![w] = "idle"] /\ run' = [run EXCEPT ![w] = NoJob]
  /\ todo' = [todo EXCEPT ![w] = {}] /\ cur' = [cur EXCEPT ![w] = NoAsset]
  /\ Elsewhere

\* Mutant: the claim does not take the row off the queue.
ClaimKeepsRow(w, j) ==
  /\ pc[w] = "idle" /\ queued[j] > 0
  /\ run' = [run EXCEPT ![w] = j] /\ pc' = [pc EXCEPT ![w] = "start"]
  /\ Elsewhere
  /\ UNCHANGED <<clips, assets, store, announced, jobs, todo, cur, history, faults>>

\* The order of the queue is left open.
Claim(w, j) ==
  /\ pc[w] = "idle" /\ queued[j] > 0
  /\ queued' = [queued EXCEPT ![j] = @ - 1]
  /\ run' = [run EXCEPT ![w] = j] /\ pc' = [pc EXCEPT ![w] = "start"]
  /\ Elsewhere
  /\ UNCHANGED <<clips, assets, store, announced, abandoned, todo, cur, history, faults>>

\* update_probe_info; the unique index refuses a clip that failed, was
\* uploaded again and is probed by a retry: dead_letter_probe.
ProbeAccept(w) ==
  /\ At(w, "probe", "start") /\ Original(Clip(w)) \in files
  /\ IF Admits(Clip(w))
     THEN SetStatus(Clip(w), "processing") /\ Goes(w, "enqueue")
     ELSE UNCHANGED clips /\ Idles(w)
  /\ UNCHANGED <<assets, store, announced, jobs, history, faults>>

\* Undecodable, too long, or the file is not there.
ProbeReject(w) ==
  /\ At(w, "probe", "start")
  /\ Goes(w, "reject")
  /\ UNCHANGED <<clips, assets, store, announced, jobs, history, faults>>

\* Job::create of the next stage.
EnqueueNext(w) ==
  /\ pc[w] = "enqueue"
  /\ Enqueue(Clip(w), IF run[w][2] = "probe" THEN "transcode" ELSE "finalize")
  /\ Goes(w, "settle")
  /\ UNCHANGED <<clips, assets, store, announced, history, faults>>

ProbeErrs(w) ==
  /\ At(w, "probe", "enqueue") /\ Errs
  /\ Goes(w, "reject")
  /\ UNCHANGED <<clips, assets, store, announced, jobs, history>>

\* Mutant: the rejected clip is not failed.
RejectKeepsClip(w) ==
  /\ pc[w] = "reject"
  /\ Goes(w, "discard")
  /\ UNCHANGED <<clips, assets, store, announced, jobs, history, faults>>

\* reject_clip: the clip, the file, the job.
RejectFails(w) ==
  /\ pc[w] = "reject"
  /\ MarkFailed(Clip(w))
  /\ Goes(w, "discard")
  /\ UNCHANGED <<assets, store, announced, jobs, history, faults>>

RejectDiscards(w) ==
  /\ pc[w] = "discard"
  /\ DeleteFile(Original(Clip(w)))
  /\ Goes(w, "settle")
  /\ UNCHANGED <<clips, assets, announced, jobs, history, faults>>

DiscardErrs(w) ==
  /\ pc[w] = "discard" /\ Errs
  /\ Goes(w, "settle")
  /\ UNCHANGED <<clips, assets, store, announced, jobs, history>>

\* ffmpeg reads the original and writes into a scratch directory.
Transcode(w) ==
  /\ At(w, "transcode", "start") /\ Original(Clip(w)) \in files
  /\ pc' = [pc EXCEPT ![w] = "store"] /\ todo' = [todo EXCEPT ![w] = Renditions]
  /\ Elsewhere
  /\ UNCHANGED <<clips, assets, store, announced, jobs, run, cur, history, faults>>

TranscodeFails(w) ==
  /\ At(w, "transcode", "start")
  /\ Goes(w, "drop")
  /\ UNCHANGED <<clips, assets, store, announced, jobs, history, faults>>

TranscodeErrs(w) ==
  /\ run[w] # NoJob /\ run[w][2] = "transcode"
  /\ pc[w] \in {"store", "register", "orig", "enqueue"} /\ Errs
  /\ Goes(w, "drop")
  /\ UNCHANGED <<clips, assets, store, announced, jobs, history>>

\* persist_asset: the file, then its row; the order of the rungs is left open.
PersistFile(w) ==
  /\ pc[w] = "store"
  /\ \E r \in todo[w] :
       /\ SaveFile(<<Clip(w), r>>)
       /\ cur' = [cur EXCEPT ![w] = <<Clip(w), r>>]
       /\ todo' = [todo EXCEPT ![w] = @ \ {r}]
  /\ pc' = [pc EXCEPT ![w] = "register"]
  /\ Elsewhere
  /\ UNCHANGED <<clips, assets, announced, jobs, run, history, faults>>

PersistRow(w) ==
  /\ pc[w] = "register"
  /\ PutRow(cur[w])
  /\ pc' = [pc EXCEPT ![w] = IF todo[w] = {} THEN "orig" ELSE "store"]
  /\ cur' = [cur EXCEPT ![w] = NoAsset]
  /\ Elsewhere
  /\ UNCHANGED <<clips, store, announced, jobs, run, todo, history, faults>>

\* MediaAsset::upsert of the orig row; the file is not looked at.
UpsertOriginal(w) ==
  /\ pc[w] = "orig"
  /\ PutRow(Original(Clip(w)))
  /\ Goes(w, "enqueue")
  /\ UNCHANGED <<clips, store, announced, jobs, history, faults>>

\* Mutant: DELETE FROM media_assets without its WHERE.
FailDropsAllRows(w) ==
  /\ pc[w] = "drop"
  /\ DropRows(rows)
  /\ pc' = [pc EXCEPT ![w] = "unlink"] /\ todo' = [todo EXCEPT ![w] = Assets]
  /\ cur' = [cur EXCEPT ![w] = NoAsset]
  /\ Elsewhere
  /\ UNCHANGED <<clips, store, announced, jobs, run, history, faults>>

\* fail_transcode: the rows, the files, the clip, the job.
FailDropsRows(w) ==
  /\ pc[w] = "drop"
  /\ DropRows({f \in rows : f[1] = Clip(w)})
  /\ pc' = [pc EXCEPT ![w] = "unlink"] /\ todo' = [todo EXCEPT ![w] = Assets]
  /\ cur' = [cur EXCEPT ![w] = NoAsset]
  /\ Elsewhere
  /\ UNCHANGED <<clips, store, announced, jobs, run, history, faults>>

FailUnlinks(w) ==
  /\ pc[w] = "unlink"
  /\ \E r \in todo[w] :
       /\ DeleteFile(<<Clip(w), r>>)
       /\ todo' = [todo EXCEPT ![w] = @ \ {r}]
       /\ pc' = [pc EXCEPT ![w] = IF todo[w] = {r} THEN "fail" ELSE "unlink"]
  /\ Elsewhere
  /\ UNCHANGED <<clips, assets, announced, jobs, run, cur, history, faults>>

FailsClip(w) ==
  /\ pc[w] = "fail"
  /\ MarkFailed(Clip(w))
  /\ Goes(w, "settle")
  /\ UNCHANGED <<assets, store, announced, jobs, history, faults>>

\* Each of them may fail; the next one runs all the same.
DropErrs(w) ==
  /\ pc[w] = "drop" /\ Errs
  /\ pc' = [pc EXCEPT ![w] = "unlink"] /\ todo' = [todo EXCEPT ![w] = Assets]
  /\ cur' = [cur EXCEPT ![w] = NoAsset]
  /\ Elsewhere
  /\ UNCHANGED <<clips, assets, store, announced, jobs, run, history>>

UnlinkErrs(w) ==
  /\ pc[w] = "unlink" /\ Errs
  /\ \E r \in todo[w] :
       /\ todo' = [todo EXCEPT ![w] = @ \ {r}]
       /\ pc' = [pc EXCEPT ![w] = IF todo[w] = {r} THEN "fail" ELSE "unlink"]
  /\ Elsewhere
  /\ UNCHANGED <<clips, assets, store, announced, jobs, run, cur, history>>

\* mark_failed, of reject_clip, of fail_transcode and process_finalize, of
\* bump_job_after_failure.
MarkErrs(w) ==
  /\ pc[w] \in {"reject", "fail", "bumped"} /\ LeavesUnmarked(Clip(w))
  /\ IF pc[w] = "bumped" THEN Idles(w) ELSE Goes(w, IF pc[w] = "reject" THEN "discard" ELSE "settle")
  /\ UNCHANGED <<assets, store, announced, jobs>>

\* mark_ready_for_clip: the rows there are.
FinalizeStamps(w) ==
  /\ At(w, "finalize", "start")
  /\ ready' = ready \cup {f \in rows : f[1] = Clip(w)}
  /\ Goes(w, "publish")
  /\ UNCHANGED <<clips, rows, newRows, store, announced, jobs, history, faults>>

\* Clip::mark_ready, by id alone, unless the unique index refuses.
FinalizePublishes(w) ==
  /\ pc[w] = "publish"
  /\ IF Admits(Clip(w))
     THEN SetStatus(Clip(w), "ready") /\ Goes(w, "announce")
     ELSE UNCHANGED clips /\ Goes(w, "fail")
  /\ UNCHANGED <<assets, store, announced, jobs, history, faults>>

FinalizeErrs(w) ==
  /\ At(w, "finalize", "start") \/ pc[w] \in {"publish", "announce", "announcing"}
  /\ Errs
  /\ Goes(w, IF pc[w] \in {"start", "publish"} THEN "fail" ELSE "settle")
  /\ UNCHANGED <<clips, assets, store, announced, jobs, history>>

\* enqueue_clip_create: deleted clips are not announced ...
AnnounceCheck(w) ==
  /\ pc[w] = "announce"
  /\ Goes(w, IF Clip(w) \in gone THEN "settle" ELSE "announcing")
  /\ UNCHANGED <<clips, assets, store, announced, jobs, history, faults>>

\* ... the others get the canonical ap_id, the activity and the fan-out job.
Announce(w) ==
  /\ pc[w] = "announcing"
  /\ announced' = [announced EXCEPT ![Clip(w)] = @ + 1]
  /\ Goes(w, "settle")
  /\ UNCHANGED <<clips, assets, store, jobs, history, faults>>

\* Job::mark_done.
Settle(w) ==
  /\ pc[w] = "settle"
  /\ Idles(w)
  /\ UNCHANGED <<clips, assets, store, announced, jobs, history, faults>>

-----------------------------------------------------------------------------
(* Interrupted runs.                                                       *)

\* attempts + 1: queued again, or dead.
Dead(j) == j[3] + 1 >= MaxAttempts
Retried(bag, j) == IF Dead(j) THEN bag ELSE [bag EXCEPT ![<<j[1], j[2], j[3] + 1>>] = @ + 1]

\* mark_done fails: the row stays running.
SettleErrs(w) ==
  /\ pc[w] = "settle" /\ Errs
  /\ abandoned' = [abandoned EXCEPT ![run[w]] = @ + 1]
  /\ Harm({Clip(w)}) /\ losses' = [losses EXCEPT ![Clip(w)] = @ + 1]
  /\ Idles(w)
  /\ UNCHANGED <<clips, assets, store, announced, queued, unmarked>>

\* job_timeout drops the handler wherever it is; bump_job_after_failure
\* queues the job again or buries it, and then, in both cases, fails the clip.
TimesOut(w) ==
  /\ Running(w) /\ timeouts < MaxTimeouts /\ (Mixed \/ deletions = 0)
  /\ timeouts' = timeouts + 1
  /\ queued' = Retried(queued, run[w])
  /\ Harm({Clip(w)}) /\ losses' = [losses EXCEPT ![Clip(w)] = @ + 1]
  /\ pc' = [pc EXCEPT ![w] = "bumped"] /\ todo' = [todo EXCEPT ![w] = {}] /\ cur' = [cur EXCEPT ![w] = NoAsset]
  /\ Elsewhere
  /\ UNCHANGED <<clips, assets, store, announced, abandoned, run, unmarked, errors, crashes, deletions>>

BumpFailsClip(w) ==
  /\ pc[w] = "bumped"
  /\ MarkFailed(Clip(w))
  /\ Idles(w)
  /\ UNCHANGED <<assets, store, announced, jobs, history, faults>>

\* reap_stale_jobs, for a row without a worker.
Reap(j) ==
  /\ abandoned[j] > 0
  /\ abandoned' = [abandoned EXCEPT ![j] = @ - 1]
  /\ queued' = Retried(queued, j)
  /\ IF Dead(j)
     THEN (MarkFailed(j[1]) /\ UNCHANGED <<history, faults>>) \/ LeavesUnmarked(j[1])
     ELSE UNCHANGED <<clips, history, faults>>
  /\ UNCHANGED <<assets, store, announced, up, worker, account, sweep>>

\* The server stops and starts again.
Crash ==
  /\ crashes < MaxCrashes /\ crashes' = crashes + 1 /\ (Mixed \/ deletions = 0)
  /\ abandoned' = [j \in Jobs |-> abandoned[j] + Cardinality({w \in Workers : Running(w) /\ run[w] = j})]
  /\ harmed' = harmed \cup {Clip(w) : w \in {v \in Workers : pc[v] # "idle"}}
                     \cup {u \in Uploads : up[u] \notin {"idle", "done"}}
  /\ losses' = [u \in Uploads |-> losses[u] + Cardinality({w \in Workers : Running(w) /\ Clip(w) = u})]
  /\ up' = [u \in Uploads |-> IF up[u] = "idle" THEN "idle" ELSE "done"]
  /\ run' = [w \in Workers |-> NoJob] /\ pc' = [w \in Workers |-> "idle"]
  /\ todo' = [w \in Workers |-> {}] /\ cur' = [w \in Workers |-> NoAsset]
  /\ acct' = (IF acct = "erased" THEN "erased" ELSE "live") /\ doomed' = {}
  /\ gc' = "idle" /\ gcRef' = {} /\ gcRows' = {} /\ gcGone' = {} /\ gcRow' = NoAsset
  /\ newFiles' = {} /\ newRows' = {}
  /\ UNCHANGED <<clips, rows, ready, files, old, announced, queued, unmarked, timeouts, errors, deletions>>

-----------------------------------------------------------------------------
(* Deletion of the account.                                                *)

AccountFrame == UNCHANGED <<announced, jobs, up, worker, sweep, losses, unmarked, timeouts, errors, crashes>>

\* UPDATE clips ... WHERE deleted_at IS NULL.
AccountDelete ==
  /\ acct = "live" /\ acct' = "selecting"
  /\ deletions < MaxDeletions /\ deletions' = deletions + 1 /\ (Mixed \/ timeouts + crashes = 0)
  /\ status' = [u \in Uploads |-> IF status[u] # "none" /\ u \notin gone THEN "deleted" ELSE status[u]]
  /\ gone' = gone \cup {u \in Uploads : status[u] # "none"}
  /\ UNCHANGED <<assets, store, doomed, harmed>> /\ AccountFrame

AccountSelect ==
  /\ acct = "selecting" /\ acct' = "unlinking"
  /\ doomed' = rows
  /\ UNCHANGED <<clips, assets, store, harmed, deletions>> /\ AccountFrame

AccountUnlink(f) ==
  /\ acct = "unlinking" /\ f \in doomed
  /\ DeleteFile(f)
  /\ doomed' = doomed \ {f}
  /\ Harm({f[1]})
  /\ UNCHANGED <<clips, assets, acct, deletions>> /\ AccountFrame

\* The tombstone, the erasure of the user, the end of the sessions.
AccountErase ==
  /\ acct = "unlinking" /\ doomed = {} /\ acct' = "erased"
  /\ UNCHANGED <<clips, assets, store, doomed, harmed, deletions>> /\ AccountFrame

AccountStep == AccountSelect \/ (\E f \in Files : AccountUnlink(f)) \/ AccountErase

-----------------------------------------------------------------------------
(* media_gc.                                                               *)

\* Written by a request or a run that has not had the time to register it.
InFlight(f) == up[f[1]] # "done" \/ \E w \in Workers : cur[w] = f

SweepFrame == UNCHANGED <<clips, announced, jobs, up, worker, account, history, faults>>

\* Mutant: only stamped assets count as referenced.
GcReferencedStamped ==
  /\ Collecting /\ gc = "idle" /\ gc' = "referenced"
  /\ gcRef' = ready
  /\ newFiles' = {f \in files : InFlight(f)}
  /\ UNCHANGED <<assets, files, old, gcRows, gcGone, gcRow>> /\ SweepFrame

GcReferenced ==
  /\ Collecting /\ gc = "idle" /\ gc' = "referenced"
  /\ gcRef' = rows
  /\ newFiles' = {f \in files : InFlight(f)}
  /\ UNCHANGED <<assets, files, old, gcRows, gcGone, gcRow>> /\ SweepFrame

GcSelect ==
  /\ gc = "referenced" /\ gc' = "sweep"
  /\ gcRows' = rows /\ gcGone' = gone
  /\ UNCHANGED <<assets, store, gcRef, gcRow>> /\ SweepFrame

\* Mutant: rows are swept for deleted clips only.
GcLookDeletedOnly(f) ==
  /\ gc = "sweep" /\ gcRow = NoAsset /\ f \in gcRows
  /\ gcRows' = gcRows \ {f}
  /\ IF f[1] \notin gcGone THEN UNCHANGED <<store, gcRow>> ELSE gcRow' = f /\ DeleteFile(f)
  /\ UNCHANGED <<assets, gc, gcRef, gcGone>> /\ SweepFrame

\* A row: kept when its file is there and its clip was not deleted; else the
\* file is removed, if there is one, and the row is next.
GcLook(f) ==
  /\ gc = "sweep" /\ gcRow = NoAsset /\ f \in gcRows
  /\ gcRows' = gcRows \ {f}
  /\ IF f \in files /\ f[1] \notin gcGone
     THEN UNCHANGED <<store, gcRow>>
     ELSE gcRow' = f /\ DeleteFile(f)
  /\ UNCHANGED <<assets, gc, gcRef, gcGone>> /\ SweepFrame

\* DELETE by id: a row inserted after the SELECT has another id.
GcDropRow ==
  /\ gcRow # NoAsset /\ gcRow' = NoAsset
  /\ DropRows({gcRow} \ newRows)
  /\ UNCHANGED <<store, gc, gcRef, gcRows, gcGone>> /\ SweepFrame

GcWalk ==
  /\ gc = "sweep" /\ gcRow = NoAsset /\ gcRows = {} /\ gc' = "walk"
  /\ gcGone' = {} /\ newRows' = {}
  /\ UNCHANGED <<rows, ready, store, gcRef, gcRows, gcRow>> /\ SweepFrame

\* Mutant: the grace window is forgotten.
SweepableAnyAge(f) == f \in files /\ f \notin gcRef

\* Not referenced when the sweep began, and older than GC_GRACE_SECS now.
Sweepable(f) == f \in files /\ f \notin gcRef /\ f \in old

GcUnlink(f) ==
  /\ gc = "walk" /\ Sweepable(f)
  /\ DeleteFile(f)
  /\ UNCHANGED <<assets, sweep>> /\ SweepFrame

GcEnd ==
  /\ gc = "walk" /\ (\A f \in files : ~Sweepable(f)) /\ gc' = "idle"
  /\ gcRef' = {} /\ newFiles' = {}
  /\ UNCHANGED <<assets, files, old, gcRows, gcGone, gcRow>> /\ SweepFrame

GcStep ==
  \/ GcReferenced \/ GcSelect \/ GcDropRow \/ GcWalk \/ GcEnd
  \/ \E f \in Files : GcLook(f) \/ GcUnlink(f)

\* An hour passes since f was written.  A request or a run (job_timeout), and
\* the sweep that begins meanwhile, together are shorter than that.
Ages(f) ==
  /\ Collecting
  /\ f \in files \ old /\ f \notin newFiles /\ ~InFlight(f)
  /\ old' = old \cup {f}
  /\ UNCHANGED <<clips, assets, files, newFiles, announced, jobs, up, worker, account, sweep, history, faults>>

-----------------------------------------------------------------------------

\* What a worker does by itself once it has a job.
WorkerStep(w) ==
  \/ ProbeAccept(w) \/ ProbeReject(w) \/ EnqueueNext(w) \/ RejectFails(w) \/ RejectDiscards(w)
  \/ Transcode(w) \/ TranscodeFails(w) \/ PersistFile(w) \/ PersistRow(w) \/ UpsertOriginal(w)
  \/ FailDropsRows(w) \/ FailUnlinks(w) \/ FailsClip(w)
  \/ FinalizeStamps(w) \/ FinalizePublishes(w) \/ AnnounceCheck(w) \/ Announce(w)
  \/ Settle(w) \/ BumpFailsClip(w)

Next ==
  \/ \E u \in Uploads : UploadStep(u) \/ UploadErrs(u) \/ UploadRegisterErrs(u)
                         \/ UploadUndoErrs(u) \/ UploadFailErrs(u)
  \/ \E w \in Workers : \/ \E j \in Jobs : Claim(w, j)
                        \/ WorkerStep(w)
                        \/ ProbeErrs(w) \/ TranscodeErrs(w) \/ FinalizeErrs(w) \/ SettleErrs(w)
                        \/ DiscardErrs(w) \/ DropErrs(w) \/ UnlinkErrs(w) \/ MarkErrs(w)
                        \/ TimesOut(w)
  \/ \E j \in Jobs : Reap(j)
  \/ AccountDelete \/ AccountStep
  \/ GcStep
  \/ \E f \in Files : Ages(f)
  \/ Crash

Spec == Init /\ [][Next]_vars

\* A request that began goes on; the pool polls, the maintenance loop ticks
\* and time passes.  Nobody has to upload, or to delete the account.
Fairness ==
  /\ \A u \in Uploads : WF_vars(up[u] # "idle" /\ UploadStep(u))
  /\ \A w \in Workers : WF_vars(WorkerStep(w)) /\ WF_vars(\E j \in Jobs : Claim(w, j))
  /\ WF_vars(\E j \in Jobs : Reap(j))
  /\ WF_vars(AccountStep)
  /\ WF_vars(GcStep)
  /\ \A f \in Files : WF_vars(Ages(f))

FairSpec == Spec /\ Fairness

-----------------------------------------------------------------------------
(* Properties.                                                             *)

\* TYPES: the tables, the store and the local state stay well-formed.
TypeOK ==
  /\ status \in [Uploads -> Statuses] /\ gone \subseteq Uploads
  /\ rows \subseteq Files /\ ready \subseteq rows /\ newRows \subseteq Files
  /\ files \subseteq Files /\ old \subseteq files /\ newFiles \subseteq Files
  /\ announced \in [Uploads -> Nat]
  /\ queued \in [Jobs -> Nat] /\ abandoned \in [Jobs -> Nat]
  /\ up \in [Uploads -> UploadPhases]
  /\ run \in [Workers -> Jobs \cup {NoJob}] /\ pc \in [Workers -> WorkerPhases]
  /\ todo \in [Workers -> SUBSET Assets] /\ cur \in [Workers -> Files \cup {NoAsset}]
  /\ acct \in {"live", "selecting", "unlinking", "erased"} /\ doomed \subseteq Files
  /\ gc \in {"idle", "referenced", "sweep", "walk"}
  /\ gcRef \subseteq Files /\ gcRows \subseteq Files /\ gcGone \subseteq Uploads
  /\ gcRow \in Files \cup {NoAsset}
  /\ harmed \subseteq Uploads /\ losses \in [Uploads -> Nat] /\ unmarked \subseteq Uploads
  /\ timeouts \in Nat /\ errors \in Nat /\ crashes \in Nat /\ deletions \in Nat

\* READY MEANS PLAYABLE (process_finalize): a clip none of whose runs was
\* interrupted is shown only with its original and every rendition on disk,
\* each with a stamped row, whatever the collector and the other clips do.
ReadyHasMedia ==
  \A u \in Uploads \ (harmed \cup gone) :
    status[u] = "ready" => \A r \in Assets : <<u, r>> \in files \cap ready

\* IN-FLIGHT UPLOADS (media_gc): while an undisturbed clip makes its way
\* through the pipeline and no run is giving it up, its original is on disk.
\* A clip that was given up leaves the pipeline, unless its mark_failed failed:
\* that one, which reject_clip and the others only log, stays as it is for ever.
OriginalSpared ==
  \A u \in Uploads \ (harmed \cup gone \cup unmarked) :
    /\ status[u] \in {"pending", "processing"}
    /\ up[u] \notin {"undo", "undone"}
    /\ \A w \in Workers : run[w] # NoJob /\ Clip(w) = u => pc[w] \notin {"unlink", "fail", "discard"}
    => Original(u) \in files

\* NO SPONTANEOUS REPEATS (enqueue_clip_create): a clip is announced to its
\* followers once, and once more at most for each run that was interrupted.
AnnounceBound == \A u \in Uploads : announced[u] <= 1 + losses[u]

\* PROGRESS: every accepted upload comes to an end, ready, failed or deleted,
\* also when runs time out; a crash or an error may leave it pending.
EveryUploadSettles ==
  \A u \in Uploads :
    status[u] \in {"pending", "processing"} ~>
      status[u] \in {"ready", "failed", "deleted"} \/ crashes + errors > 0

\* CONVERGENCE (media_gc): in the end every file has a row and every row a
\* file, and nothing is left of deleted clips, wherever runs were cut short.
StoreConverges ==
  <>[](rows = files /\ \A f \in files : f[1] \notin gone)

\* Doc comment of Clip::mark_ready: "ladder done, assets stamped, clip is playable".
\* Once no run of the clip is under way, that is so.
PlayableWhenReady ==
  \A u \in Uploads \ gone :
    /\ status[u] = "ready"
    /\ \A w \in Workers : run[w] # NoJob => Clip(w) # u
    => \A r \in Renditions : <<u, r>> \in files \cap rows

\* ARCHITECTURE.md on media_gc: "sweeps orphans, failed-upload remnants".
FailedRemnantsSwept ==
  <>[](\A f \in files : status[f[1]] # "failed")

=============================================================================
