# TLA+ models of toot-tok

toot-tok is a federated short-video server: an axum/sqlx process over Postgres and a
directory of media files, with a job queue in the database and ActivityPub federation.
This directory models its stateful parts in TLA+, checks them with TLC on small instances
and proves every safety property the passing runs check with TLAPS for all instances; liveness
is left to TLC. Paths below are relative to `src/`.

## Inventory

| part | state | operations | what is hard | what makes it correct |
|---|---|---|---|---|
| job queue (`crates/db/src/job.rs`, `crates/server/src/worker.rs`) | table `jobs`: state, attempts, run_after, locked_by, locked_at | create, claim, mark_done, dead_letter, hand back, retry with backoff, bump after a timeout, reap | every statement writes by id; pool workers, the delivery loop and the reaper race; restarts reuse worker names | lock columns agree with the state, an attempt is counted once, settled is final, every job is settled |
| inbound federation (`crates/federation/src/activity.rs`) | `activities`, `tombstones`, `clips` | one handler per activity type, each a sequence of autocommitted statements | redelivery, reordering, concurrent handlers, a network fetch in the middle of Create, early returns on errors | handled once, deletes win, only the actor that owns the row writes |
| upload and media pipeline (`crates/server/src/upload.rs`, `worker.rs`) | `clips`, `media_assets`, files | upload, probe, transcode, finalize, their error paths | crashes and timeouts between two of many writes, re-runs, dedup by a partial unique index | ready clips can be played, uploads come to an end |
| media collector (`worker.rs`) | files against `media_assets` | two snapshots, row loop, directory walk, grace window | stale snapshots against uploads in flight | needed files are spared, the store converges |
| account deletion (`crates/server/src/accounts.rs`) | users, clips, files, sessions | one long request of autocommitted statements | uploads, jobs, logins and resets in flight | nothing of a deleted clip stays, nobody gets in |
| follows (`crates/server/src/federation.rs`, `activity.rs`) | `follows` | follow, unfollow, Follow, Accept, Reject, Undo | lookup by activity id, write by pair; the sender of an answer or an Undo is not compared with anybody; reordering | a follow relation that only the follower begins, and that changes and ends only by what names it, or by a race the code has |
| outbound delivery (`crates/federation/src/deliver.rs`) | jobs, `instances` | fan-out, signed POST, retry | re-run of a fan-out, dead instances | every follower is tried |
| engagement (`social.rs`) | likes, announces, comments, bookmarks, counters, notifications | like/unlike, boost, comment, mark read | counters written in another statement than rows | the counter is accounted for, one notification per row |
| feeds (`feed.rs`, `sound.rs`, `bookmark.rs`, `social.rs`) | read only | keyset pages | a cursor in seconds against a column in microseconds; changes between two pages | no row repeated, what is missed is known, a walk ends |
| accounts and moderation (`auth.rs`, `session.rs`, `email_token.rs`, `admin.rs`, `settings.rs`) | actors, users, sessions, email tokens, settings, audit log | register, verify, login, logout, reset, delete, approve, suspend, settings | two links or a login in flight across a revocation, half-done requests | single use, revocation, no access when barred, an audit entry for approvals, suspensions and the registration mode |
| rate limiting (`ratelimit.rs`) | in-memory windows | check | none: one critical section | bound per window |
| profiles, domain blocks, reports, egress guard, note parsing, endpoints, asset serving, ffmpeg wrappers, mail, configuration, web client | | | mostly single statements, parsing or I/O | |

The parts meet in the database. The upload request and the workers share `clips` and
`media_assets`; the workers talk to each other through `jobs` only; inbox handlers and the
backfill job share `clips`; the collector and the account deletion see the others only
through tables and files; follows, engagement and accounts are requests over tables of
their own that share the deletion of a clip or of an actor. `PROJECT.json` lists the parts that are not modelled, with the
reason, and under `hazards` what is hard to test, each at its line.

## Modules

* `JobQueue` - the queue and the tasks that move it. `JobQueueProofs` has its theorems,
  `MCJobQueue` its TLC instances.
* `Inbox` - the handlers of activities about clips, and the backfill. `InboxProofs`,
  `MCInbox` likewise.
* `MediaPipeline` - upload, pipeline, collector and account deletion. `MediaPipelineProofs` has
  the types and the bound on announcements, `MediaReadyProofs` what is known of the media of a
  clip; `MCMediaPipeline`.
* `FollowRelation` - what a follow is, without requests or messages; `Follows` - the follow
  API and the inbox handlers of the Follow family, which implement it. `FollowsProofs`,
  `MCFollows`.
* `Engagement` - likes, boosts, comments, bookmarks and notifications of one clip.
  `EngagementProofs`, `MCEngagement`.
* `FeedPaging` - the listings with a cursor, and a client that walks one.
  `FeedPagingProofs`, `MCFeedPaging`.
* `Accounts` - registration, sessions, email tokens, deletion and moderation.
  `AccountsProofs`, `MCAccounts`.

In all of them one SQL statement or one file operation is one atomic step (the code has
no transaction on these paths), and between two of them anything else may happen. Mutated
forms of a definition stand directly before it and are named after it; they are used
only to show that a property notices the mistake.

### JobQueue

The columns of `jobs` are functions of the job. Two comparisons with the clock are all
the code makes, so time is the set `due` (run_after <= now), its order `ahead` and the
flag `stale` (locked_at older than job_timeout). A worker is in phase `idle`, `busy`,
`stamped` (the clip is written, the job not yet), `overrun` (cancelled by
`tokio::time::timeout`) or `failclip`; `held` and `snap` are the copy of the row it
claimed. Kinds of jobs are reduced to what the code tells apart: whether the kind starts
with `deliver` and whether the payload has a `clip_id`.

| action | code |
|---|---|
| `Create` | `Job::create` |
| `ClaimNextDue`, `ClaimAnswerLost` | `CLAIM_NEXT_DUE_SQL`, with its answer or an error after the commit |
| `StampClip`, `MarkDone`, `DeadLetter` | the handlers, reduced to their writes on clip and job |
| `DeliverRetry` | `schedule_deliver_retry`: decides on the copy, increments the row |
| `HandBack` | the delivery loop's UPDATE for kinds it does not run |
| `SettleFails` | any of these UPDATEs fails and is only logged |
| `TimerFires`, `BumpAfterFailure`, `BumpFailsClip` | the timeout and `bump_job_after_failure`, two statements |
| `LockExpires`, `ReapStaleJobs`, `ReaperFailsClip` | the clock and `reap_stale_jobs`, one UPDATE and a loop |
| `Crash` | restart: tables survive, worker names are reused |

The delivery loop has no timer, so the reaper can take a job from it while it is at work,
and the pool's timer and the reaper fire at almost the same time. `preemptions` counts the
sweeps that took a job from a live worker. Three properties hold whatever happens
(`LockMatchesState`, `SnapshotFresh`, `BumpOwnsAttempt`); `OneRunner`, `AttemptsLeft` and
`SettledIsFinal` hold until the first preemption and not after it, because the settling
statements are by id alone; `AttemptsBound` says how far attempts can exceed the maximum.

### Inbox

`received` and `processed` are the rows of `activities` and those with `processed_at`;
a clip is `none`, `live` or `deleted`, and `text` is the activity its caption comes from.
A handler's `pc` is the await it stands at. A duplicate delivery changes nothing, so
`InboundBegin` is the first delivery only. `late` records that the note had a tombstone
when the handler began. What the code compares is all there is of identity. A Create is
accepted when the `attributedTo` of the note it carries is the signed sender
(`ByAttributed`); nothing ties the id of a note to an actor, so any remote actor may be the
first to create it and then owns the row (`owner`, `clips.actor_id`). Update and Delete are
compared with that owner (`ByOwner`), and a Delete of an unknown id with nobody.
`OnlyOwnerSpeaks` is therefore about the owner and not about whoever made the note: the row
belongs to an actor that claimed the note, and text and deletion come from that actor. The signature
check is the library's and is taken to be right. Move, Undo of something other than a
Follow, and unknown types are `LogOnly`. The backfill downloads and inserts with no
tombstone check, as in `fetch_and_ingest_one`.

### MediaPipeline

Clips are identified with upload requests. A file and its row share the name
(clip, rendition); `Renditions` are the rungs and the poster, `"orig"` the original.
A job is (clip, stage, attempts), and the queue a bag of them: claims are in any order,
which includes the order of `JobQueue`. `harmed`, `losses` and `unmarked` are history: clips with an
interrupted run, a lost early row or files removed by the account deletion; how many
runs ended without the queue knowing; and clips whose `mark_failed` failed. A statement or file
operation that fails takes the code's error path (`UploadErrs`, `ProbeErrs`, `TranscodeErrs`,
`FinalizeErrs`, `SettleErrs`), and where the code only logs or drops the failure the next
statement runs: of the upload's cleanup (`UploadUndoErrs`, `UploadFailErrs`), of `reject_clip`
(`DiscardErrs`), of `fail_transcode` (`DropErrs`, `UnlinkErrs`), of every `mark_failed` of a worker
(`MarkErrs`) and of the reaper (in `Reap`). After a failed `mark_failed` the original is deleted
all the same and the clip stays pending or processing for ever, where the dedup index refuses its bytes
again: `OriginalSpared` excludes these clips and no others. The collector has its two snapshots (`gcRef`,
`gcRows` with `gcGone`), looks at a row and removes its file in one step, deletes the row
in another, and then walks. `old` is the set of files older than the grace window; `Ages`
is not enabled while a file's request or run is under way or has ended within the current
sweep: job_timeout (900 s by default) and a sweep are shorter than the window (3600 s).
The partial unique index is `InIndex`/`Admits`, applied wherever a statement moves a clip
into it: the INSERT, `update_probe_info` and `mark_ready`.

### FollowRelation and Follows

`FollowRelation` says how a pair of actors is related and by which follow, who asked for each
follow, and which follows were answered or ended. A pair becomes related only by a follow its follower
asked for, an answer takes effect only on a pair that is related and never brings a relation
back, and a relation ends by the end of its follow. Two steps are beyond that promise,
and the code has them: an answer to one follow of a pair settles another one that took
its place (`SettleAnother`), or the end of one drops another (`DropAnother`). They leave the follow
they hit in `mistaken` or `raced`, so that a change of the wrong row is a step of its own and
never passes for an ordinary one. Who sent an answer or an end is not part of the relation.

`Follows` has the table (`state`, `act`, one row per pair), the inbox log (`received`,
`processed`), tombstones of local actors, the delivery and backfill jobs, and up to
`Requests` API requests or inbox handlers at once, each at one of its statements. Ids of
Follow activities are drawn in order; `pair` is who follows whom in each of them.

| action | code |
|---|---|
| `FollowLocally`, `FollowRemotely` | `api_follow`: upsert, then the job |
| `UnfollowReads`, `UnfollowDeletes`, `ApiEnqueues` | `api_unfollow`: read the activity id, delete by pair (an error is ignored), enqueue |
| `InboundBegin`, `InboundFinish` | `inbound_begin`, `inbound_finish` around every handler |
| `FollowChecks`, `FollowRecords`, `FollowAccepts`, `FollowAnswers` | `Follow::receive_inbound` |
| `AnswerLooksUp`, `AcceptSettles`, `AcceptBackfills`, `RejectSettles` | `Accept`, `Reject` |
| `UndoLooksUp`, `UndoRemoves` | `Undo` of a Follow |
| `DeleteActor` | the tombstone of `delete_me` |

Remote servers send the Follows of their actors, and Accepts, Rejects and Undos of any follow
there is, inbound, outbound or local, in any order: the handlers look the follow up by id and never
compare the sender with its follower or its target, so the model has no sender. The gate is by
activity id. The id of a Follow is the id of the follow, so a Follow passes once; an answer or an
Undo has an id of its own, so a second one about the same follow passes the gate again. That an
activity id names one Follow is an assumption about the servers that make them (`activity_id` of this
one draws UUIDs). The mapping to `FollowRelation` reads `asked` off `pair`, `answers` off
the Accepts and Rejects that were received, and `ended` off the unfollows and the Undos received.
`overtaken`, `raced` and `mistaken` are history: Undos handled before their Follow, rows
deleted by a request that had read an earlier one, and rows settled by an answer to an earlier one.
Hence what the properties do not say: that the target decides, or that only the follower or the target
ends a follow. They say that a row changes only by what names its follow, or by one of the races,
which the history makes visible.

### Engagement

`rows` are the likes and boosts by actor and the live comments by id, `count` the three
columns of `clips`. A handler is `adding` or `removing` (the row), then `counting` or
`discounting` (the counter), then `notifying`; each is a statement of its own, and the
counters of likes and boosts are not written once the clip is deleted. `floored` counts the
decrements that `GREATEST(count - 1, 0)` swallowed and `overlapped` the kinds of which two
requests ran at once. An unlike can overtake the increment of the like it removes, find the
counter at 0 and leave it one too high for good; `CounterAccounts` says that this is the only
way a counter drifts without a fault.

### FeedPaging

A listing is the set of rows its WHERE clause lets through (`DiscoverRows`, `SoundRows`, ...);
its order is `Key`, and `CursorOf` is what `render_feed` and `parse_cursor` make of the last
row: the second of `clip_created_at` and the id. Between two requests of the client a clip may
become ready, be deleted, its author be suspended or unfollowed. `steady` are the rows that
were in the listing all the time: the only ones the client may expect to see. Two things the
code does are stated in the properties: a row of the same second as the end of a page
may be skipped, and a bookmark is compared by when it was saved with a cursor made of when the
clip was made. Comments are oldest first, so their truncated cursor repeats rows instead; a
walk through them need not end, and `WalkEnds` and `PagesDescend` leave them out. This is listed as a
hazard (`social.rs:181`) and not as a finding: the only line about it, "Cursor pagination" in
`ARCHITECTURE.md:241`, does not say that a walk of the comments ends.

### Accounts

An account is an actor row and a user row under one name. A request carries the account it
is about (`name`), the one signed in (`who`), the session, token or email it holds (`key`) and
what it has read (`seen`: a password hash, a status). A password is named by where it was set:
`"registered"`, or the token of the reset. `Barred` accounts are pending, suspended, erased or
deleted ones; `late` marks a request that came in when its account already was. `raced` marks a
session or reset link inserted after what it was checked against had changed. `cut` records a request
that failed or was dropped (a client that goes away drops the handler at an await) with the
handler, the statement it still owed (`Owed`) and the account, and each property excuses only the cuts
that concern it: `CredentialsRevoked` those of a reset, suspension or deletion at a revoking
statement, `OrphanNeedsFault` those of a registration between its inserts, `Audited` those at the
audit statement, and a suspension that is dropped before it. A suspension whose session revocation fails goes on to its audit entry
(`Unrevoked`), as in `suspend_user`, and `Audited` does not excuse it. `applied` marks an account
that registered as pending, so that one that is active now was approved.
The handlers are `Register` to `IssueToken` (`register`, `issue_email_token`), `Login` to
`CreateSession`, `SignedIn` with `AuthReadsUser` and `AuthReadsActor` (the extractor
`AuthUser`), `RequestReset`, `Consume` to `RevokeSessions` (`reset`, `verify_email`), `DeleteMe` to
`DeleteTokens`, and the moderation handlers with their audit entries.

## Runs

| run | instance | shows |
|---|---|---|
| `job_queue` | a media and a fan-out job, one pool worker and the delivery worker, 2 attempts, 2 preemptions, crashes unbounded | all properties of `JobQueue`, safety and progress |
| `job_queue_fanout` | a fan-out and a backfill job | violated: a fan-out overrun fails the published clip |
| `inbox` | Create, Update, Delete of one note id by each of two remote actors, a Create attributed to another, one by a local actor and a Move, three of them in a behaviour; the second actor's feed lists the note; 2 handlers, one fault | all properties of `Inbox` |
| `inbox_race` | Create and Delete at once | violated: tombstone and live clip side by side |
| `media_pipeline` | two uploads of the same bytes, two workers, two failing operations | ready clips have their media, the original is spared, announcements are bounded |
| `media_pipeline_crash` | one upload, one worker, a timeout, a restart, the collector, a deletion of the account | the same against the collector; uploads end; files and rows converge, nothing of a deleted clip stays |
| `media_pipeline_rerun` | one upload, two workers, a restart | violated: ready and announced without media |
| `media_pipeline_remnants` | one upload, one attempt, a timeout | violated: files of failed clips are never swept |
| `follows` | two local actors (one locked) and a remote one, four pairs of which one follows in a behaviour, two Follow ids, two requests, three received activities and faults together | the table implements `FollowRelation`; undone and dropped follows stay so; every Follow is answered |
| `engagement` | two users, one comment, two requests at a time, four in all, one fault, the clip deleted at any time | counters are accounted for, the author is notified once |
| `feed_paging` | three rows, four times that make two seconds, pages of one and two, one change, all nine listings | pages never go back, what is missed lies behind the cursor, walks end |
| `accounts` | the admin and two more accounts, one email, two sessions, three tokens, two requests at a time, five in all, one fault or expiry | revocation, no late access, single use of tokens, compensation, audit of suspensions, approvals and the mode |

The four violations are described, with the line of the repository they contradict, under
`findings` in `PROJECT.json`. Three more findings are visible in what a passing property has to
allow: a received activity that failed is never processed (`ProcessedUnlessFault`), bookmarks
are skipped (`MissedBehindCursor`), and a login in flight survives a reset
(`CredentialsRevoked`).

Bounds. Two jobs and two workers (one of each sort) are enough for every race over one row
and for the order of two rows; two attempts give a first, a retried and a last run, and two
preemptions show that the effect of a late writer adds up. In `Inbox` the handlers of
different notes share nothing, so one note with two concurrent handlers has every race of
two statements; three activities in a behaviour are a claim of the note by each actor and an edit or
a deletion that races them. In `MediaPipeline` clips meet only in
the unique index, which two uploads of the same bytes exercise; `MaxErrors` = 2 lets an operation
fail and, with it, one statement of the cleanup that follows, `mark_failed` included. A timeout and
a restart are in the run of the collector, without failing statements. The reaper's own failing
`mark_failed` needs three failures and is covered by the theorems only. In `Follows` rows of different pairs share nothing but
the requests, so one pair per behaviour, of each sort in turn, with two ids gives a follow, an
unfollow and a second follow racing each other; three events (`MaxEvents`) are a Follow, and an answer
and an Undo, or two Undos of the same follow under two activity ids. In `Engagement` kinds share only the clip;
two requests at a time race over every pair of statements and the other two set up rows before
them. In `FeedPaging` three rows with every assignment of times put two, or all three, into the
second of a page's end. In `Accounts` five requests are enough for a registration, a reset link,
a login and a reset, with a fifth that races them. Deadlock is not checked where the
environment may stop sending (all but `JobQueue`).

Fairness. Handlers end: ffprobe (30 s), ffmpeg (120 s per rung) and HTTP (10 s) calls are
bounded and database calls return, so the steps of a worker, of a request and of a handler
are weakly fair; so are the clock and the maintenance loop. In `JobQueue` the pool's claim
is strongly fair, as the delivery loop may take the job and hand it back between two polls;
nothing in the code synchronises the two loops to do so for ever. In `Follows` a request that
has begun goes on (`HandlerStep`); in `FeedPaging` the client goes on asking for the next page,
which is the premise of a walk. Faults, uploads, deletions and the answers of remote servers are
never assumed to happen.

## Proofs

`JobQueueProofs` (for any set of jobs, kinds, workers, and any max_attempts >= 1). The
inductive invariant is the type invariant, `HoldsJob` (a worker outside `idle` has a job)
and the safety properties together. They need each other: `SnapshotFresh` survives a claim
because the copy is taken in the same statement, and survives the other workers' steps
because every change of attempts unlocks the row or is the owner's, which is
`LockMatchesState`; `AttemptsLeft` rests on `OneRunner` (before a preemption the only one
that counts is the owner) and on `SnapshotFresh` (the copy it decides on is the row).
From the invariant follow the two action properties `BumpOwnsAttempt` and `SettledIsFinal`.
`AttemptsBounded` is about what happens after preemptions, when several workers may act on one
row, and needs an account per row (`Paid`): each worker on the row beyond the first, and each
run still open, was paid for by a preemption (`HoldersBound`); and once the last attempt has
begun, the attempts counted, the workers on the row, those among them whose stale copy still
allows a retry, and the open run together stay within `MaxAttempts + 2 * preemptions`
(`AttemptsPaid`). Seven shapes of a step on a row (`Keeps`, `Settles`, `Retries`, `Bumps`,
`Reaps`, `Claims`, `Stops`) cover every action, and each keeps the account.

`InboxProofs` (for any activities, notes, actors and handlers). The invariant adds
`HasRow` (a busy handler has inserted its activity, which makes the gate exclusive),
`LateIsTombed` (tombstones are never removed, so the check still sees what was there at
the beginning) and `WritersAuthorised` (a handler that is about to insert carries a note attributed to
its sender, and one that is about to edit or mark a clip is of the row's owner). The last
survives the steps of others because an existing row never changes hands (`RowStays`: the INSERT does
nothing on a conflict and no statement writes `actor_id`). `AtMostOnce`, `LateCreateSwallowed`
and `OnlyOwnerSpeaks` are conjuncts of the invariant; `DeletedStaysDeleted` follows step by step.

`FollowsProofs` (for any actors, pairs, activity ids and requests). `RelationImplemented` is
the refinement: `Follows` implements `FollowRelation` under the mapping above. It rests on
`TableInv`: a row's activity id is that of its own pair (`RowsNamed`, without which an Accept
found by id would settle another pair), a handler has its activity in the log and remembers
the pair of that activity (`RequestsHold`), and whatever is received, sent or recorded names a
Follow somebody made (`NamesKnown`). Each
step then is a step of the relation or a stutter; where the code's UPDATE finds no row, the step
stutters, and where it finds a row of another id than the one looked up it is `SettleAnother` or
`DropAnother`. `UndoCorrect` adds `UndoInv`: one handler per activity (`GateExclusive`), a Follow
writes its row once (`RecordedOnce`), and from the moment an Undo has looked, its follow is gone,
about to go, or overtaken (`UndoSettled`). `DropCorrect` adds `DropInv`: ids are drawn in order
(`DrawnInOrder`), a job is enqueued only for a recorded follow (`SentIsRecorded`), and a sent
Follow without its row has an unfollow under way, an Undo, a successor or a race
(`DropAccounted`).

`EngagementProofs` (for any users, comments and number of requests). `CountersCorrect` needs,
beside the types, that requests of a kind that never overlapped are at most one (`OneAtATime`):
then an unlike that is about to decrement meets no increment still to come, and the account
itself forbids a counter of 0. Its steps are about cardinalities: a statement moves one request
into or out of a set of pending ones (`PendingJoins`, `PendingLeaves`, `PendingSame`), and one row
into or out of the rows. `NotifiedCorrect` counts the notifications still owed: at most one
request per made row is between its insertion and its notification.

`MediaPipelineProofs` (for any uploads, hashes, renditions, `MaxAttempts` and faults, and any
finite pool). `AnnouncementsBounded` needs an account per clip (`Budget`): what was announced,
plus one for a request that has not enqueued its job, for each queued row, for each row left
running without a worker and for each worker before the end of its job, is at most one plus the
losses. The pipeline is a token handed from the request to the queue, to a worker and back; only
a timeout, a failed `mark_done` or a restart doubles it, and these are the losses. A restart
leaves as many rows running as it stops workers (`LeftBehind`, by an injection of the rows into
the workers).

`MediaReadyProofs` builds on it. A clip none of whose runs was interrupted lost none, so its
token is in one place (`TokenIsOne`) and whoever has it is the only one to write the clip's
status, rows and files. The invariant (`MediaInv`) says, of such a clip: the status fits the place
of the token (`Staged`; a clip given up is failed, or its `mark_failed` failed and it is in
`unmarked`, which only grows, `HistoryGrows`); while the token is on its way or the clip is shown (`Healthy`), every row has
its file, every file has a row or somebody who is about to insert it, and the collector's
snapshots hold all of them (`Kept`); the original is there (`HasOriginal`); and the stages
before the token have left what the next ones need (`Produced`). It rests on three facts about
everybody: the unique index holds no bytes twice (`UniqueBytes`, so the probe of a pending clip is
never refused), a worker holds only assets of its own clip (`Current`), and no file in flight, or
written since the sweep began, is older than the grace window (`Young`, which is why the walk
spares files without a row). `ReadyIsPlayable` and `OriginalIsSpared` are read off it. A step either
is not about the clip and leaves its control (`SameControl`) and its media (`SameMedia`) alone, or is
one of the request's or of the run's own.

`FeedPagingProofs` (for any rows, times, seconds, page sizes and changes). `PagesAlwaysDescend`
rests on `CursorBelow`: the cursor is not above any row shown so far, because truncation to the
second only lowers a time and a bookmark is saved after its clip was made (`SavedLater`).
`MissedOnlyBehindCursor` rests on `Accounted`: a row that stayed in the listing was shown, is
still ahead of the cursor, or was jumped over by the cursor of a row that ended a page.

`AccountsProofs` (for any accounts, sessions, tokens, requests and faults). A request moves by
its own statements only (`OwnStatements`), so whoever owes a statement (the compensating
DELETE, the audit entry, the revocation) owes it until it ran or was cut at that statement:
`OrphansNeedFaults` and `ChangesAudited`, the latter with one such debt for each of the three changes
(`LogsSuspension`, `LogsApproval`, `LogsMode`). `TokensSpentOnce` needs that a token that was never given out is in nobody's
hands (`Unminted`). `NobodyLate` and `CredentialsAreRevoked` need `KnownInv`: one registration at most
holds an actor (`OneRegisters`), a user has an actor (`UserHasActor`), and whoever owns a session or a
token or is being checked is active (`OwnersActive`, `Known`); hence no statement takes a stamp
from an account a request has already read. `RevokedInv` then follows each session and reset link
from its insertion.

The assumptions are `ConstantAssumption` of each module: types of the constants, finiteness where
something is counted (the pool of workers in `JobQueue` and in `MediaPipeline`, which
`spawn_worker_pool` in `worker.rs` makes finite), and null values different from real ones.

Model-checked only: the liveness properties (`EveryJobSettles`, `ProcessedUnlessFault`,
`EveryUploadSettles`, `StoreConverges`, `FollowIsAnswered`, `WalkEnds`), since liveness under
fairness is out of the prover's reach; and the four properties that the code violates, which
TLC refutes.

## Plan

1. done: the modules above, their runs, and the proofs of all safety properties the passing runs
   check.
2. Sharper statements where a property is about undisturbed behaviour only: what a harmed clip may
   be missing in `MediaPipeline`, and the exact drift of a counter in `Engagement` when requests
   overlap.
3. The read-then-write of the storage quota, once sizes are modelled.

## Not modelled

Parsing and building of JSON documents, HTML stripping, HTTP details, signatures, ffmpeg
itself, mail, configuration, the web client, read-only endpoints, search and the trending
lists. The rate limiter reads and writes one window in one critical section, and the CSRF
check compares two values of one request: neither interleaves with anything. Domain blocks,
reports and profile edits are single statements that no modelled handler reads. Instance
health is written by the delivery and read by no decision. The storage quota is a check on a
sum of sizes, which the models do not have. `claim_next_due_tx` has no
caller. In `MediaPipeline` a sweep's own I/O errors (only logged by the code, repaired by
the next sweep), a preempted pool worker (in `JobQueue`), the quota and malformed payloads
(which no producer in the repository writes) are left out.
