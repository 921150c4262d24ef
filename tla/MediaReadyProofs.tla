-------------------------- MODULE MediaReadyProofs --------------------------
(***************************************************************************)
(* Ready means playable, and the originals in flight are spared, for any   *)
(* uploads, any hashes, any finite pool of workers and any number of       *)
(* faults.                                                                 *)
(*                                                                         *)
(* Both are about clips none of whose runs was interrupted.  Such a clip   *)
(* lost no run, so by the account of MediaPipelineProofs its pipeline is   *)
(* one token: the request, one queued job or one worker has it, and that   *)
(* one alone writes its status, its rows and its files.  As long as the    *)
(* token is on its way (Healthy), every row has its file and every file    *)
(* its row or somebody who is about to insert it (Kept); therefore both    *)
(* snapshots of the collector hold what is needed, its row loop finds      *)
(* nothing to remove, and its walk meets unregistered files only while     *)
(* they are young.  Behind the token lies what the stages before it        *)
(* produced (Produced), up to the stamped rows of a clip that is shown.    *)
(***************************************************************************)
EXTENDS MediaPipelineProofs

-----------------------------------------------------------------------------
(* The invariant.                                                          *)

\* No run of u was interrupted, no row of it lost, and it was not deleted.
Good(u) == u \notin harmed \cup gone

\* The jobs of u in the queue.
Waits(u) == {j \in Jobs : j[1] = u /\ queued[j] > 0}

\* The token of u is in one place.
OneToken(u) ==
  /\ \A j \in Waits(u) : Waits(u) = {j}
  /\ \A w \in Busy(u) : Busy(u) = {w}
  /\ Waits(u) # {} => Busy(u) = {}
  /\ up[u] \notin {"enqueued", "done"} => Waits(u) = {} /\ Busy(u) = {}

\* What happens to the runs of u is on record.
Unharmed(u) ==
  u \notin harmed =>
    /\ losses[u] = 0
    /\ \A j \in Jobs : j[1] = u => abandoned[j] = 0
    /\ \A w \in Workers : pc[w] = "bumped" => Clip(w) # u

\* The part of a run that removes what the clip has.
GivesUp(w) == pc[w] \in {"discard", "unlink", "fail"}

\* The clip is on its way, or shown: its media are needed.
Carried(u) ==
  \/ up[u] \in {"idle", "checked", "saved", "inserted"}
  \/ Waits(u) # {}
  \/ \E w \in Busy(u) : ~GivesUp(w)
Healthy(u) == Good(u) /\ (Carried(u) \/ status[u] = "ready")

\* The status of the clip goes with its token, and a clip that is neither
\* shown nor failed has one, unless its mark_failed failed.
Staged(u) ==
  /\ up[u] \notin {"enqueued", "done"} => status[u] # "ready"
  /\ up[u] \in {"idle", "checked", "saved"} => status[u] = "none"
  /\ Waits(u) # {} => status[u] # "ready"
  /\ \A w \in Busy(u) : status[u] = "ready" <=> pc[w] \in {"announce", "announcing"}
  /\ \A w \in Busy(u) : pc[w] = "discard" => status[u] = "failed" \/ u \in unmarked
  /\ status[u] \in {"pending", "processing"} =>
       up[u] \notin {"enqueued", "done"} \/ Waits(u) # {} \/ Busy(u) # {} \/ u \in unmarked

\* The unique index on the hashes of the clips neither failed nor deleted.
UniqueBytes ==
  \A u, v \in Uploads : u # v /\ Hash[u] = Hash[v] => ~(InIndex(u) /\ InIndex(v))

\* What a worker holds is an asset of its clip it has to register.
Current ==
  \A w \in Workers : cur[w] # NoAsset => pc[w] \in {"register", "drop"} /\ cur[w][1] = Clip(w)

\* The clips the collector read as deleted are, and no file that somebody is
\* still to register is older than the grace window.
Young ==
  /\ gcGone \subseteq gone
  /\ newFiles \cap old = {}
  /\ \A f \in Files : InFlight(f) => f \notin old

\* Somebody will register f, or has.
Covered(f) ==
  \/ f \in rows
  \/ f = Original(f[1]) /\ up[f[1]] # "done"
  \/ \E w \in Busy(f[1]) : cur[w] = f

\* Every row has its file, every file its row or somebody who brings it; the
\* collector has no reason to touch either.
Kept(u) ==
  \A f \in Files : f[1] = u =>
    /\ f \in rows => f \in files
    /\ f \in gcRows => f \in rows
    /\ gcRow # f
    /\ f \in files => Covered(f)
    /\ gc # "idle" /\ f \in files => f \in gcRef \cup newFiles

\* The original is there once it was saved.
HasOriginal(u) == up[u] \notin {"idle", "checked"} => Original(u) \in files

\* The assets of u named in S have rows; all of them are stamped.
Registered(u, S) == \A r \in S : <<u, r>> \in rows
Stamped(u) == \A r \in Assets : <<u, r>> \in ready

\* What the run at w has produced so far.
RunProduced(u, w) ==
  /\ pc[w] = "store" => Registered(u, Renditions \ todo[w])
  /\ pc[w] = "register" => /\ \A r \in Renditions \ todo[w] : <<u, r>> \in rows \/ cur[w] = <<u, r>>
                           /\ cur[w] \in files
  /\ pc[w] = "orig" => Registered(u, Renditions)
  /\ pc[w] = "enqueue" /\ run[w][2] # "probe" => Registered(u, Assets)
  /\ At(w, "finalize", "start") => Registered(u, Assets)
  /\ pc[w] \in {"publish", "announce", "announcing"} => Stamped(u)

\* What the stages of u have produced so far.
Produced(u) ==
  /\ \A j \in Waits(u) : j[2] = "finalize" => Registered(u, Assets)
  /\ \A w \in Busy(u) : RunProduced(u, w)
  /\ status[u] = "ready" => Stamped(u)

\* The media of u are as its stage needs them.
HasMedia(u) == Kept(u) /\ HasOriginal(u) /\ Produced(u)

\* What is known of u as long as it is good.
Guarded(u) == Good(u) => Staged(u) /\ (Healthy(u) => HasMedia(u))

\* Everything a request, and a worker that has a job, may do.
UploadActs(u) ==
  \/ UploadStep(u) \/ UploadErrs(u) \/ UploadRegisterErrs(u)
  \/ UploadUndoErrs(u) \/ UploadFailErrs(u)
RunActs(w) ==
  \/ WorkerStep(w)
  \/ ProbeErrs(w) \/ TranscodeErrs(w) \/ FinalizeErrs(w) \/ SettleErrs(w)
  \/ DiscardErrs(w) \/ DropErrs(w) \/ UnlinkErrs(w) \/ MarkErrs(w)
  \/ TimesOut(w)

\* The inductive invariant.
MediaInv == UniqueBytes /\ Current /\ Young /\ \A u \in Uploads : Unharmed(u) /\ Guarded(u)

-----------------------------------------------------------------------------
(* One token.                                                              *)

\* A set of at most one element.
LEMMA AtMostOne ==
  ASSUME NEW S, IsFiniteSet(S), Cardinality(S) <= 1, NEW x \in S
  PROVE  S = {x} /\ Cardinality(S) = 1
<1>1. Cardinality(S) \in Nat
  BY FS_CardinalityType
<1>2. Cardinality(S) # 0
  BY FS_EmptySet
<1>3. Cardinality(S) = 1
  BY <1>1, <1>2
<1>4. PICK y : S = {y}
  BY <1>3, FS_Singleton
<1> QED BY <1>3, <1>4

\* A clip that lost no run has one token: its account is at most one.
LEMMA TokenIsOne ==
  ASSUME TypeInv, Budget, NEW u \in Uploads, losses[u] = 0
  PROVE  OneToken(u)
<1> DEFINE Q == Waiting(queued, u)
           B == Busy(u)
<1>1. /\ IsFiniteSet(Q) /\ IsFiniteSet(B) /\ Cardinality(Q) \in Nat /\ Cardinality(B) \in Nat
      /\ Coming(u) \in {0, 1}
      /\ Coming(u) + Cardinality(Q) + Cardinality(B) <= 1
  <2> HIDE DEF Q, B
  <2>1. /\ announced[u] \in Nat /\ losses[u] \in Nat /\ Coming(u) \in {0, 1}
        /\ IsFiniteSet(Q) /\ Cardinality(Q) \in Nat
        /\ Cardinality(Waiting(abandoned, u)) \in Nat
        /\ IsFiniteSet(B) /\ Cardinality(B) \in Nat
        /\ announced[u] + Coming(u) + Cardinality(Q) + Cardinality(Waiting(abandoned, u))
             + Cardinality(B) <= 1 + losses[u]
    BY BudgetTypes DEF Q, B
  <2> QED BY <2>1
<1>2. \A j \in Waits(u) : <<j, 1>> \in Q
  BY DEF Waits, Waiting, TypeInv, TypeOK
<1> HIDE DEF Q, B
<1>3. ASSUME NEW j \in Waits(u) PROVE Cardinality(Q) = 1 /\ Waits(u) = {j}
  <2>1. Cardinality(Q) <= 1
    BY <1>1
  <2>2. <<j, 1>> \in Q
    BY <1>2, <1>3
  <2>3. Q = {<<j, 1>>} /\ Cardinality(Q) = 1
    BY <1>1, <2>1, <2>2, AtMostOne
  <2> QED BY <1>2, <2>3
<1>4. ASSUME NEW w \in B PROVE Cardinality(B) = 1 /\ B = {w}
  BY <1>1, <1>4, AtMostOne
<1>5. Waits(u) # {} => Cardinality(Q) = 1
  BY <1>3
<1>6. B # {} => Cardinality(B) = 1
  BY <1>4
<1>7. Waits(u) # {} => B = {}
  BY <1>1, <1>5, <1>6
<1>8. up[u] \notin {"enqueued", "done"} => Coming(u) = 1
  BY DEF Coming
<1>9. Coming(u) = 1 => Waits(u) = {} /\ B = {}
  BY <1>1, <1>5, <1>6
<1> QED BY <1>3, <1>4, <1>7, <1>8, <1>9 DEF OneToken, B

-----------------------------------------------------------------------------
(* The history, the unique index, the workers' hands and the grace window. *)

\* A run of u that ends without the queue knowing is on record from then on.
LEMMA UnharmedStep ==
  ASSUME TypeInv, NEW u \in Uploads, Unharmed(u), [Next]_vars
  PROVE  Unharmed(u)'
<1> DEFINE Same(v) == pc'[v] = "bumped" => pc[v] = "bumped" /\ run'[v] = run[v]
           Bystander == UNCHANGED <<losses, abandoned>> /\ harmed \subseteq harmed' /\ \A v \in Workers : Same(v)
<1>1. Bystander => Unharmed(u)'
  BY DEF Unharmed, Clip
<1>2. ASSUME NEW x \in Uploads,
             \/ UploadCheck(x) \/ UploadDuplicate(x) \/ UploadStore(x) \/ UploadInsert(x)
             \/ UploadEnqueue(x) \/ UploadUndo(x) \/ UploadFailClip(x) \/ UploadRegister(x)
             \/ UploadErrs(x) \/ UploadRegisterErrs(x) \/ UploadUndoErrs(x) \/ UploadFailErrs(x)
      PROVE  Bystander
  BY <1>2 DEF UploadCheck, clips, assets, store, jobs, worker, account, sweep, history, faults,
     Answers, UploadDuplicate, UploadStore, SaveFile, UploadInsert, SetStatus, UploadEnqueue,
     Enqueue, UploadUndo, DeleteFile, UploadFailClip, MarkFailed, UploadRegister, PutRow,
     UploadErrs, Errs, UploadRegisterErrs, Harm, UploadUndoErrs, UploadFailErrs, LeavesUnmarked
<1>3. ASSUME NEW w \in Workers, NEW j \in Jobs, Claim(w, j) PROVE Bystander
  BY <1>3 DEF Claim, clips, assets, store, account, sweep, history, faults, Elsewhere, TypeInv,
     TypeOK
<1>4. ASSUME NEW w \in Workers,
             \/ ProbeAccept(w) \/ ProbeReject(w) \/ EnqueueNext(w) \/ RejectFails(w)
             \/ RejectDiscards(w) \/ Transcode(w) \/ TranscodeFails(w) \/ PersistFile(w)
             \/ PersistRow(w) \/ UpsertOriginal(w) \/ FailDropsRows(w) \/ FailUnlinks(w)
             \/ FailsClip(w) \/ FinalizeStamps(w) \/ FinalizePublishes(w) \/ AnnounceCheck(w)
             \/ Announce(w) \/ Settle(w) \/ BumpFailsClip(w) \/ ProbeErrs(w) \/ TranscodeErrs(w)
             \/ FinalizeErrs(w) \/ DiscardErrs(w) \/ DropErrs(w) \/ UnlinkErrs(w) \/ MarkErrs(w)
      PROVE  Bystander
  BY <1>4 DEF ProbeAccept, clips, assets, store, jobs, account, sweep, history, faults, SetStatus,
     Clip, At, Elsewhere, Goes, Idles, ProbeReject, EnqueueNext, Enqueue, RejectFails, MarkFailed,
     RejectDiscards, DeleteFile, Transcode, TranscodeFails, PersistFile, SaveFile, PersistRow,
     PutRow, UpsertOriginal, FailDropsRows, DropRows, FailUnlinks, FailsClip, FinalizeStamps,
     FinalizePublishes, AnnounceCheck, Announce, Settle, BumpFailsClip, ProbeErrs, Errs,
     TranscodeErrs, FinalizeErrs, DiscardErrs, DropErrs, UnlinkErrs, MarkErrs, LeavesUnmarked,
     TypeInv, TypeOK
<1>5. ASSUME AccountDelete \/ AccountStep \/ GcStep \/ (\E f \in Files : Ages(f)) \/ UNCHANGED vars PROVE Bystander
  BY <1>5 DEF AccountDelete, assets, store, jobs, worker, sweep, AccountFrame, AccountSelect, clips,
     AccountErase, GcReferenced, account, history, faults, SweepFrame, GcSelect, GcDropRow,
     DropRows, GcWalk, GcEnd, AccountUnlink, DeleteFile, Harm, GcLook, GcUnlink, Ages, AccountStep,
     GcStep, vars
<1>6. ASSUME NEW w \in Workers, SettleErrs(w) PROVE Unharmed(u)'
  BY <1>6 DEF SettleErrs, clips, assets, store, account, sweep, Errs, Harm, Clip, Elsewhere, Idles,
     Unharmed, TypeInv, TypeOK
<1>7. ASSUME NEW w \in Workers, TimesOut(w) PROVE Unharmed(u)'
  BY <1>7 DEF TimesOut, clips, assets, store, account, sweep, Harm, Clip, Running, Elsewhere,
     Unharmed, TypeInv, TypeOK
<1>8. ASSUME NEW j \in Jobs, Reap(j) PROVE Unharmed(u)'
  BY <1>8 DEF Reap, clips, assets, store, worker, account, sweep, history, faults, Errs,
     LeavesUnmarked, Dead, Unharmed, TypeInv, TypeOK, Clip
<1>9. CASE Crash
  <2> SUFFICES ASSUME u \notin harmed' PROVE Unharmed(u)'
    BY DEF Unharmed
  <2>1. u \notin harmed /\ \A w \in Workers : pc[w] # "idle" => Clip(w) # u
    BY <1>9 DEF Crash
  <2>2. losses[u] = 0 /\ \A j \in Jobs : j[1] = u => abandoned[j] = 0
    BY <2>1 DEF Unharmed
  <2>3. {w \in Workers : Running(w) /\ Clip(w) = u} = {}
    BY <2>1 DEF Running
  <2>4. \A j \in Jobs : j[1] = u => {w \in Workers : Running(w) /\ run[w] = j} = {}
    BY <2>1 DEF Running, Clip
  <2>5. losses'[u] = 0
    BY <1>9, <2>2, <2>3, FS_EmptySet DEF Crash
  <2>6. \A j \in Jobs : j[1] = u => abandoned'[j] = 0
    BY <1>9, <2>2, <2>4, FS_EmptySet DEF Crash
  <2>7. \A w \in Workers : pc'[w] # "bumped"
    BY <1>9 DEF Crash
  <2> QED BY <2>5, <2>6, <2>7 DEF Unharmed
<1> QED BY <1>1, <1>2, <1>3, <1>4, <1>5, <1>6, <1>7, <1>8, <1>9 DEF Next, UploadStep, WorkerStep

\* No two clips in the unique index have the same bytes: whatever brings a
\* clip into it asks it first.
LEMMA UniqueStep ==
  ASSUME TypeInv, UniqueBytes, [Next]_vars
  PROVE  UniqueBytes'
<1> DEFINE Shrinks == \A v \in Uploads : InIndex(v)' => InIndex(v)
           Enters == \E x \in Uploads, s \in Statuses : SetStatus(x, s) /\ Admits(x)
<1>1. Shrinks => UniqueBytes'
  BY DEF UniqueBytes
<1>2. ASSUME NEW x \in Uploads, NEW s \in Statuses, SetStatus(x, s), Admits(x) PROVE UniqueBytes'
  BY <1>2 DEF UniqueBytes, SetStatus, Admits, InIndex, TypeInv, TypeOK
<1>3. ASSUME NEW x \in Uploads, MarkFailed(x) PROVE Shrinks
  BY <1>3 DEF MarkFailed, SetStatus, InIndex, TypeInv, TypeOK
<1>4. ASSUME UNCHANGED clips PROVE Shrinks
  BY <1>4 DEF clips, InIndex
<1>5. ASSUME AccountDelete PROVE Shrinks
  BY <1>5 DEF AccountDelete, InIndex, TypeInv, TypeOK
<1>6. ASSUME NEW x \in Uploads, UploadActs(x)
      PROVE  UNCHANGED clips \/ Enters \/ \E v \in Uploads : MarkFailed(v)
  BY <1>6 DEF UploadActs, UploadStep, UploadCheck, UploadDuplicate, UploadStore, UploadInsert,
     UploadEnqueue, UploadUndo, UploadFailClip, UploadRegister, UploadErrs, UploadRegisterErrs,
     UploadUndoErrs, UploadFailErrs, LeavesUnmarked, Statuses
<1>7. ASSUME NEW w \in Workers,
             RunActs(w)
      PROVE  UNCHANGED clips \/ Enters \/ \E v \in Uploads : MarkFailed(v)
  <2>1. pc[w] # "idle" => Clip(w) \in Uploads
    BY DEF Clip, Jobs, TypeInv, WorkerOK
  <2> QED
    BY <1>7, <2>1 DEF RunActs, WorkerStep, ProbeAccept, ProbeReject, EnqueueNext, RejectFails,
       RejectDiscards, Transcode, TranscodeFails, PersistFile, PersistRow, UpsertOriginal,
       FailDropsRows, FailUnlinks, FailsClip, FinalizeStamps, FinalizePublishes, AnnounceCheck,
       Announce, Settle, BumpFailsClip, ProbeErrs, TranscodeErrs, FinalizeErrs, SettleErrs,
       DiscardErrs, DropErrs, UnlinkErrs, MarkErrs, TimesOut, LeavesUnmarked, At, Statuses
<1>8. ASSUME NEW j \in Jobs, Reap(j) PROVE UNCHANGED clips \/ \E v \in Uploads : MarkFailed(v)
  BY <1>8 DEF Reap, LeavesUnmarked, Jobs
<1>9. ASSUME \/ \E w \in Workers, j \in Jobs : Claim(w, j)
             \/ AccountStep \/ GcStep \/ (\E f \in Files : Ages(f)) \/ Crash \/ UNCHANGED vars
      PROVE  UNCHANGED clips
  BY <1>9 DEF Claim, AccountStep, AccountSelect, AccountUnlink, AccountErase, GcStep, GcReferenced,
     GcSelect, GcDropRow, GcWalk, GcEnd, GcLook, GcUnlink, SweepFrame, Ages, Crash, vars
<1> HIDE DEF Shrinks
<1>10. Enters => UniqueBytes'
  BY <1>2
<1>11. UNCHANGED clips \/ AccountDelete \/ (\E v \in Uploads : MarkFailed(v)) => UniqueBytes'
  BY <1>1, <1>3, <1>4, <1>5
<1> HIDE DEF Enters
<1> QED BY <1>6, <1>7, <1>8, <1>9, <1>10, <1>11 DEF Next, UploadActs, RunActs

\* A worker puts down what it holds when it leaves persist_asset.
LEMMA CurrentStep ==
  ASSUME TypeInv, Current, [Next]_vars
  PROVE  Current'
<1> USE ConstantAssumption DEF Current, TypeInv, TypeOK, WorkerOK, Clip
<1>1. ASSUME UNCHANGED worker PROVE Current'
  BY <1>1 DEF worker
<1>2. ASSUME NEW w \in Workers, NEW j \in Jobs, Claim(w, j) PROVE Current'
  BY <1>2 DEF Claim
<1>3. ASSUME NEW w \in Workers, Idles(w) PROVE Current'
  BY <1>3 DEF Idles
<1>4. ASSUME NEW w \in Workers, NEW p, Goes(w, p), pc[w] \in {"register", "drop"} => p = "drop" PROVE Current'
  BY <1>4 DEF Goes
<1>5. ASSUME NEW w \in Workers,
             \/ ProbeAccept(w) \/ ProbeReject(w) \/ EnqueueNext(w) \/ RejectFails(w)
             \/ RejectDiscards(w) \/ TranscodeFails(w) \/ UpsertOriginal(w) \/ FailsClip(w)
             \/ FinalizeStamps(w) \/ FinalizePublishes(w) \/ AnnounceCheck(w) \/ Announce(w)
             \/ Settle(w) \/ BumpFailsClip(w) \/ ProbeErrs(w) \/ TranscodeErrs(w) \/ FinalizeErrs(w)
             \/ SettleErrs(w) \/ DiscardErrs(w) \/ MarkErrs(w)
      PROVE  Idles(w) \/ \E p \in WorkerPhases : Goes(w, p) /\ (pc[w] \in {"register", "drop"} => p = "drop")
  BY <1>5 DEF ProbeAccept, ProbeReject, EnqueueNext, RejectFails, RejectDiscards, TranscodeFails,
     UpsertOriginal, FailsClip, FinalizeStamps, FinalizePublishes, AnnounceCheck, Announce, Settle,
     BumpFailsClip, ProbeErrs, TranscodeErrs, FinalizeErrs, SettleErrs, DiscardErrs, MarkErrs, At,
     WorkerPhases
<1>6. ASSUME NEW w \in Workers, Transcode(w) \/ FailDropsRows(w) \/ FailUnlinks(w) \/ TimesOut(w) \/ PersistRow(w)
             \/ DropErrs(w) \/ UnlinkErrs(w)
      PROVE  Current'
  <2>1. CASE Transcode(w)
    BY <2>1 DEF Transcode, At
  <2>2. CASE FailDropsRows(w)
    BY <2>2 DEF FailDropsRows
  <2>3. CASE FailUnlinks(w)
    BY <2>3 DEF FailUnlinks
  <2>4. CASE TimesOut(w)
    BY <2>4 DEF TimesOut
  <2>5. CASE PersistRow(w)
    BY <2>5 DEF PersistRow
  <2>6. CASE DropErrs(w)
    BY <2>6 DEF DropErrs
  <2>7. CASE UnlinkErrs(w)
    BY <2>7 DEF UnlinkErrs
  <2> QED BY <1>6, <2>1, <2>2, <2>3, <2>4, <2>5, <2>6, <2>7
<1>7. ASSUME NEW w \in Workers, PersistFile(w) PROVE Current'
  BY <1>7 DEF PersistFile
<1>8. CASE Crash
  BY <1>8 DEF Crash
<1>9. ASSUME \/ \E x \in Uploads : UploadActs(x)
             \/ \E j \in Jobs : Reap(j)
             \/ AccountDelete \/ AccountStep \/ GcStep \/ (\E f \in Files : Ages(f)) \/ UNCHANGED vars
      PROVE  UNCHANGED worker
  BY <1>9 DEF UploadActs, UploadStep, UploadCheck, UploadDuplicate, UploadStore, UploadInsert,
     UploadEnqueue, UploadUndo, UploadFailClip, UploadRegister, UploadErrs, UploadRegisterErrs,
     UploadUndoErrs, UploadFailErrs, Answers, Reap, AccountStep, AccountFrame, GcStep, SweepFrame,
     AccountDelete, AccountSelect, AccountErase, GcReferenced, GcSelect, GcDropRow, GcWalk, GcEnd,
     AccountUnlink, GcLook, GcUnlink, Ages, vars
<1> QED BY <1>1, <1>2, <1>3, <1>4, <1>5, <1>6, <1>7, <1>8, <1>9 DEF Next, WorkerStep, UploadActs

\* A file becomes old only when nobody is still to register it, and the
\* collector takes note of those that are in flight when it begins.
LEMMA YoungStep ==
  ASSUME TypeInv, Young, [Next]_vars
  PROVE  Young'
<1> DEFINE NoFlights == \A f \in Files : InFlight(f)' => InFlight(f)
           SameSnapshot == UNCHANGED gcGone /\ gone \subseteq gone'
           SameStore == newFiles' = newFiles /\ old' \subseteq old
           Saves == \E f \in Files : SaveFile(f)
<1>1. ASSUME NoFlights, SameStore, SameSnapshot \/ gcGone' = {} PROVE Young'
  BY <1>1 DEF Young
<1>2. ASSUME NoFlights, Saves, SameSnapshot PROVE Young'
  BY <1>2 DEF Young, SaveFile
<1>3. ASSUME NEW x \in Uploads, UploadActs(x)
      PROVE  NoFlights /\ SameSnapshot /\ (SameStore \/ Saves)
  <2>1. \E p \in UploadPhases : Answers(x, p) /\ up[x] # "done"
    BY <1>3 DEF UploadActs, UploadStep, UploadCheck, UploadDuplicate, UploadStore, UploadInsert,
       UploadEnqueue, UploadUndo, UploadFailClip, UploadRegister, UploadErrs, UploadRegisterErrs,
       UploadUndoErrs, UploadFailErrs, UploadPhases
  <2>2. NoFlights
    BY <2>1 DEF Answers, worker, InFlight, Files, TypeInv, TypeOK
  <2>3. SameSnapshot
    BY <1>3, <2>1 DEF Answers, sweep, clips, UploadActs, UploadStep, UploadCheck, UploadDuplicate, UploadStore, UploadInsert,
         UploadEnqueue, UploadUndo, UploadFailClip, UploadRegister, UploadErrs, UploadRegisterErrs,
         UploadUndoErrs, UploadFailErrs, LeavesUnmarked, SetStatus, MarkFailed
  <2>4. SameStore \/ Saves
    <3>1. Original(x) \in Files
      BY DEF Original, Files, Assets
    <3> QED BY <1>3, <3>1 DEF store, UploadActs, UploadStep, UploadCheck, UploadDuplicate, UploadStore, UploadInsert,
         UploadEnqueue, UploadUndo, UploadFailClip, UploadRegister, UploadErrs, UploadRegisterErrs, UploadUndoErrs, UploadFailErrs,
         DeleteFile
  <2> QED BY <2>2, <2>3, <2>4
<1>4. ASSUME NEW w \in Workers, NEW j \in Jobs, Claim(w, j) PROVE NoFlights /\ SameSnapshot /\ SameStore
  BY <1>4 DEF Claim, Elsewhere, InFlight, sweep, clips, store
<1>5. ASSUME NEW w \in Workers, UNCHANGED up, cur'[w] \in {cur[w], NoAsset}, \A v \in Workers \ {w} : cur'[v] = cur[v]
      PROVE  NoFlights
  BY <1>5, ConstantAssumption DEF InFlight, Files, Assets
<1>6. ASSUME NEW w \in Workers,
             \/ ProbeAccept(w) \/ ProbeReject(w) \/ EnqueueNext(w) \/ RejectFails(w)
             \/ RejectDiscards(w) \/ Transcode(w) \/ TranscodeFails(w) \/ PersistRow(w)
             \/ UpsertOriginal(w) \/ FailDropsRows(w) \/ FailUnlinks(w) \/ FailsClip(w)
             \/ FinalizeStamps(w) \/ FinalizePublishes(w) \/ AnnounceCheck(w) \/ Announce(w)
             \/ Settle(w) \/ BumpFailsClip(w) \/ ProbeErrs(w) \/ TranscodeErrs(w) \/ FinalizeErrs(w)
             \/ SettleErrs(w) \/ DiscardErrs(w) \/ DropErrs(w) \/ UnlinkErrs(w) \/ MarkErrs(w)
             \/ TimesOut(w)
      PROVE  NoFlights /\ SameSnapshot /\ SameStore
  <2>1. UNCHANGED up /\ cur'[w] \in {cur[w], NoAsset} /\ \A v \in Workers \ {w} : cur'[v] = cur[v]
    BY <1>6 DEF ProbeAccept, ProbeReject, EnqueueNext, RejectFails, RejectDiscards, Transcode,
       TranscodeFails, PersistRow, UpsertOriginal, FailDropsRows, FailUnlinks, FailsClip,
       FinalizeStamps, FinalizePublishes, AnnounceCheck, Announce, Settle, BumpFailsClip, ProbeErrs,
       TranscodeErrs, FinalizeErrs, SettleErrs, DiscardErrs, DropErrs, UnlinkErrs, MarkErrs,
       TimesOut, Goes, Idles, Elsewhere, TypeInv, TypeOK
  <2>2. SameSnapshot
    BY <1>6 DEF ProbeAccept, ProbeReject, EnqueueNext, RejectFails, RejectDiscards, Transcode,
       TranscodeFails, PersistRow, UpsertOriginal, FailDropsRows, FailUnlinks, FailsClip,
       FinalizeStamps, FinalizePublishes, AnnounceCheck, Announce, Settle, BumpFailsClip, ProbeErrs,
       TranscodeErrs, FinalizeErrs, SettleErrs, DiscardErrs, DropErrs, UnlinkErrs, MarkErrs,
       TimesOut, Goes, Idles, Elsewhere, sweep, clips, LeavesUnmarked, SetStatus, MarkFailed
  <2>3. SameStore
    BY <1>6 DEF ProbeAccept, ProbeReject, EnqueueNext, RejectFails, RejectDiscards, Transcode,
       TranscodeFails, PersistRow, UpsertOriginal, FailDropsRows, FailUnlinks, FailsClip,
       FinalizeStamps, FinalizePublishes, AnnounceCheck, Announce, Settle, BumpFailsClip, ProbeErrs,
       TranscodeErrs, FinalizeErrs, SettleErrs, DiscardErrs, DropErrs, UnlinkErrs, MarkErrs,
       TimesOut, store, DeleteFile
  <2> QED BY <1>5, <2>1, <2>2, <2>3
<1>7. ASSUME NEW w \in Workers, PersistFile(w) PROVE Young'
  <2>1. PICK r \in todo[w] : SaveFile(<<Clip(w), r>>) /\ cur' = [cur EXCEPT ![w] = <<Clip(w), r>>]
    BY <1>7 DEF PersistFile
  <2>2. UNCHANGED <<up, gcGone, gone>>
    BY <1>7 DEF PersistFile, Elsewhere, sweep, clips
  <2>3. \A f \in Files : InFlight(f)' => InFlight(f) \/ f = <<Clip(w), r>>
    BY <2>1, <2>2 DEF InFlight, TypeInv, TypeOK
  <2> QED BY <2>1, <2>2, <2>3 DEF Young, SaveFile
<1>8. ASSUME NEW j \in Jobs, Reap(j) PROVE NoFlights /\ SameSnapshot /\ SameStore
  BY <1>8 DEF Reap, LeavesUnmarked, MarkFailed, SetStatus, clips, store, worker, sweep, InFlight
<1>9. ASSUME AccountDelete \/ AccountStep \/ UNCHANGED vars PROVE NoFlights /\ SameSnapshot /\ SameStore
  BY <1>9 DEF AccountDelete, AccountStep, AccountSelect, AccountUnlink, AccountErase, AccountFrame, DeleteFile,
              vars, clips, store, worker, sweep, InFlight
<1>10. ASSUME GcDropRow \/ GcWalk \/ \E f \in Files : GcLook(f) \/ GcUnlink(f)
       PROVE  NoFlights /\ SameStore /\ (SameSnapshot \/ gcGone' = {})
  BY <1>10 DEF GcDropRow, GcWalk, GcLook, GcUnlink, SweepFrame, DeleteFile, clips, store, worker, sweep, InFlight
<1>11. ASSUME GcReferenced \/ GcSelect \/ GcEnd PROVE Young'
  <2>1. NoFlights /\ UNCHANGED <<old, gone>>
    BY <1>11 DEF GcReferenced, GcSelect, GcEnd, SweepFrame, clips, store, worker, InFlight
  <2>2. newFiles' \cap old = {} /\ gcGone' \subseteq gone
    BY <1>11 DEF GcReferenced, GcSelect, GcEnd, store, Young, TypeInv, TypeOK
  <2> QED BY <2>1, <2>2 DEF Young
<1>12. ASSUME NEW f \in Files, Ages(f) PROVE Young'
  BY <1>12 DEF Ages, Young, InFlight, clips, worker, sweep
<1>13. CASE Crash
  <2>1. UNCHANGED <<old, gone>> /\ gcGone' = {} /\ newFiles' = {}
    BY <1>13 DEF Crash, clips
  <2>2. NoFlights
    BY <1>13, ConstantAssumption DEF Crash, InFlight, Files, Assets, TypeInv, TypeOK
  <2> QED BY <2>1, <2>2 DEF Young
<1> HIDE DEF NoFlights, SameSnapshot, SameStore, Saves
<1> QED BY <1>1, <1>2, <1>3, <1>4, <1>6, <1>7, <1>8, <1>9, <1>10, <1>11, <1>12, <1>13
        DEF Next, UploadActs, WorkerStep, GcStep

-----------------------------------------------------------------------------
(* Steps that are not about clip u.                                        *)

\* The request, the status, the job and the run of u stay as they are.
SameControl(u) ==
  /\ up'[u] = up[u] /\ status'[u] = status[u]
  /\ Waits(u)' = Waits(u)
  /\ Busy(u)' = Busy(u)
  /\ \A w \in Busy(u) : pc'[w] = pc[w] /\ run'[w] = run[w] /\ todo'[w] = todo[w] /\ cur'[w] = cur[w]

\* A request for another clip.
LEMMA OtherUpload ==
  ASSUME TypeInv, NEW u \in Uploads, NEW x \in Uploads \ {u},
         UploadActs(x)
  PROVE  SameControl(u)
<1>1. \E p \in UploadPhases : Answers(x, p)
  BY DEF UploadActs, UploadStep, UploadCheck, UploadDuplicate, UploadStore, UploadInsert,
     UploadEnqueue, UploadUndo, UploadFailClip, UploadRegister, UploadErrs, UploadRegisterErrs,
     UploadUndoErrs, UploadFailErrs, UploadPhases
<1>2. up'[u] = up[u] /\ UNCHANGED worker
  BY <1>1 DEF Answers, TypeInv, TypeOK
<1>3. status'[u] = status[u]
  BY DEF UploadActs, UploadStep, UploadCheck, UploadDuplicate, UploadStore, UploadInsert,
     UploadEnqueue, UploadUndo, UploadFailClip, UploadRegister, UploadErrs, UploadRegisterErrs,
     UploadUndoErrs, UploadFailErrs, LeavesUnmarked, clips, SetStatus, MarkFailed, TypeInv, TypeOK
<1>4. \A j \in Jobs : j[1] = u => queued'[j] = queued[j]
  BY DEF UploadActs, UploadStep, UploadCheck, UploadDuplicate, UploadStore, UploadInsert,
     UploadEnqueue, UploadUndo, UploadFailClip, UploadRegister, UploadErrs, UploadRegisterErrs,
     UploadUndoErrs, UploadFailErrs, jobs, Enqueue, TypeInv, TypeOK
<1> QED BY <1>2, <1>3, <1>4 DEF SameControl, Waits, Busy, AtWork, Clip, worker

\* The other clips' rows in the queue are none of u's.
LEMMA OtherRows ==
  ASSUME TypeInv, NEW u \in Uploads, NEW j \in Jobs, j[1] # u,
         queued' = [queued EXCEPT ![j] = @ + 1] \/ queued' = [queued EXCEPT ![j] = @ - 1] \/ queued' = Retried(queued, j)
         \/ UNCHANGED queued
  PROVE  Waits(u)' = Waits(u)
<1>1. ASSUME NEW k \in Jobs, k[1] = u PROVE queued'[k] = queued[k]
  BY <1>1 DEF Retried, TypeInv, TypeOK
<1> QED BY <1>1 DEF Waits

\* A worker at the job of another clip.
LEMMA OtherWorker ==
  ASSUME TypeInv, NEW u \in Uploads, NEW w \in Workers, w \notin Busy(u), w \notin Busy(u)', UNCHANGED up,
         status'[u] = status[u], Waits(u)' = Waits(u),
         \A v \in Workers \ {w} : pc'[v] = pc[v] /\ run'[v] = run[v] /\ todo'[v] = todo[v] /\ cur'[v] = cur[v]
  PROVE  SameControl(u)
<1>1. Busy(u)' = Busy(u)
  BY DEF Busy, AtWork, Clip
<1>2. Busy(u) \subseteq Workers \ {w}
  BY DEF Busy
<1> QED BY <1>1, <1>2 DEF SameControl

\* What a step of a worker that has a job leaves alone.
LEMMA WorkerFrame ==
  ASSUME TypeInv, NEW w \in Workers,
         RunActs(w)
  PROVE  /\ run[w] \in Jobs /\ Clip(w) \in Uploads
         /\ UNCHANGED up
         /\ \A v \in Workers \ {w} : pc'[v] = pc[v] /\ run'[v] = run[v] /\ todo'[v] = todo[v] /\ cur'[v] = cur[v]
         /\ run'[w] = run[w] \/ pc'[w] = "idle"
         /\ \A u \in Uploads : u # Clip(w) => status'[u] = status[u]
         /\ \/ queued' = Retried(queued, run[w]) \/ UNCHANGED queued
            \/ EnqueueNext(w)
<1> USE DEF RunActs, WorkerStep
<1>1. run[w] \in Jobs /\ Clip(w) \in Uploads
  <2>1. pc[w] # "idle"
    BY DEF ProbeAccept, ProbeReject, EnqueueNext, RejectFails, RejectDiscards, Transcode,
       TranscodeFails, PersistFile, PersistRow, UpsertOriginal, FailDropsRows, FailUnlinks,
       FailsClip, FinalizeStamps, FinalizePublishes, AnnounceCheck, Announce, Settle, BumpFailsClip,
       ProbeErrs, TranscodeErrs, FinalizeErrs, SettleErrs, DiscardErrs, DropErrs, UnlinkErrs,
       MarkErrs, TimesOut, At, Running
  <2> QED BY <2>1 DEF TypeInv, WorkerOK, Jobs, Clip
<1>2. UNCHANGED up
  BY DEF ProbeAccept, ProbeReject, EnqueueNext, RejectFails, RejectDiscards, Transcode,
     TranscodeFails, PersistFile, PersistRow, UpsertOriginal, FailDropsRows, FailUnlinks, FailsClip,
     FinalizeStamps, FinalizePublishes, AnnounceCheck, Announce, Settle, BumpFailsClip, ProbeErrs,
     TranscodeErrs, FinalizeErrs, SettleErrs, DiscardErrs, DropErrs, UnlinkErrs, MarkErrs, TimesOut,
     Goes, Idles, Elsewhere
<1>3. ASSUME NEW v \in Workers \ {w}
      PROVE  pc'[v] = pc[v] /\ run'[v] = run[v] /\ todo'[v] = todo[v] /\ cur'[v] = cur[v]
  BY DEF ProbeAccept, ProbeReject, EnqueueNext, RejectFails, RejectDiscards, Transcode,
     TranscodeFails, PersistFile, PersistRow, UpsertOriginal, FailDropsRows, FailUnlinks, FailsClip,
     FinalizeStamps, FinalizePublishes, AnnounceCheck, Announce, Settle, BumpFailsClip, ProbeErrs,
     TranscodeErrs, FinalizeErrs, SettleErrs, DiscardErrs, DropErrs, UnlinkErrs, MarkErrs, TimesOut,
     Goes, Idles, TypeInv, TypeOK
<1>4. run'[w] = run[w] \/ pc'[w] = "idle"
  BY DEF ProbeAccept, ProbeReject, EnqueueNext, RejectFails, RejectDiscards, Transcode,
     TranscodeFails, PersistFile, PersistRow, UpsertOriginal, FailDropsRows, FailUnlinks, FailsClip,
     FinalizeStamps, FinalizePublishes, AnnounceCheck, Announce, Settle, BumpFailsClip, ProbeErrs,
     TranscodeErrs, FinalizeErrs, SettleErrs, DiscardErrs, DropErrs, UnlinkErrs, MarkErrs, TimesOut,
     Goes, Idles, TypeInv, TypeOK
<1>5. ASSUME NEW u \in Uploads, u # Clip(w) PROVE status'[u] = status[u]
  BY <1>1, <1>5 DEF ProbeAccept, ProbeReject, EnqueueNext, RejectFails, RejectDiscards, Transcode,
     TranscodeFails, PersistFile, PersistRow, UpsertOriginal, FailDropsRows, FailUnlinks, FailsClip,
     FinalizeStamps, FinalizePublishes, AnnounceCheck, Announce, Settle, BumpFailsClip, ProbeErrs,
     TranscodeErrs, FinalizeErrs, SettleErrs, DiscardErrs, DropErrs, UnlinkErrs, MarkErrs, TimesOut,
     LeavesUnmarked, clips, SetStatus, MarkFailed, TypeInv, TypeOK
<1>6. queued' = Retried(queued, run[w]) \/ UNCHANGED queued \/ EnqueueNext(w)
  BY DEF ProbeAccept, ProbeReject, EnqueueNext, RejectFails, RejectDiscards, Transcode,
     TranscodeFails, PersistFile, PersistRow, UpsertOriginal, FailDropsRows, FailUnlinks, FailsClip,
     FinalizeStamps, FinalizePublishes, AnnounceCheck, Announce, Settle, BumpFailsClip, ProbeErrs,
     TranscodeErrs, FinalizeErrs, SettleErrs, DiscardErrs, DropErrs, UnlinkErrs, MarkErrs, TimesOut,
     jobs
<1> QED BY <1>1, <1>2, <1>3, <1>4, <1>5, <1>6

\* The workers' steps at another clip, and the end of a run of u.
LEMMA OtherRun ==
  ASSUME TypeInv, NEW u \in Uploads, NEW w \in Workers, Clip(w) # u \/ Settle(w),
         RunActs(w)
  PROVE  SameControl(u)
<1>1. w \notin Busy(u) /\ w \notin Busy(u)'
  <2>1. CASE Settle(w)
    BY <2>1 DEF Busy, AtWork, Settle, Idles, TypeInv, TypeOK
  <2>2. CASE Clip(w) # u
    BY <2>2, WorkerFrame DEF Busy, AtWork, Clip
  <2> QED BY <2>1, <2>2
<1>2. status'[u] = status[u]
  <2>1. CASE Settle(w)
    BY <2>1 DEF Settle, clips
  <2>2. CASE Clip(w) # u
    BY <2>2, WorkerFrame
  <2> QED BY <2>1, <2>2
<1>3. Waits(u)' = Waits(u)
  <2>1. CASE Settle(w)
    BY <2>1 DEF Settle, jobs, Waits
  <2>2. CASE Clip(w) # u
    <3>1. run[w] \in Jobs /\ run[w][1] # u
      BY <2>2, WorkerFrame DEF Clip
    <3>2. CASE EnqueueNext(w)
      <4>1. PICK s \in Stages : queued' = [queued EXCEPT ![<<Clip(w), s, 0>>] = @ + 1]
        BY <3>2 DEF EnqueueNext, Enqueue, Stages
      <4>2. <<Clip(w), s, 0>> \in Jobs /\ <<Clip(w), s, 0>>[1] # u
        BY <2>2, WorkerFrame, ConstantAssumption DEF Jobs, Stages
      <4> QED BY <4>1, <4>2, OtherRows
    <3>3. CASE queued' = Retried(queued, run[w]) \/ UNCHANGED queued
      <4>1. PICK j \in Jobs : j = run[w]
        BY <3>1
      <4> QED BY <3>1, <3>3, <4>1, OtherRows
    <3> QED BY <3>2, <3>3, WorkerFrame
  <2> QED BY <2>1, <2>2
<1> QED BY <1>1, <1>2, <1>3, OtherWorker, WorkerFrame

\* A claim of another clip's job.
LEMMA OtherClaim ==
  ASSUME TypeInv, NEW u \in Uploads, NEW w \in Workers, NEW j \in Jobs, j[1] # u, Claim(w, j)
  PROVE  SameControl(u)
<1>1. Waits(u)' = Waits(u)
  BY OtherRows DEF Claim
<1>2. w \notin Busy(u) /\ w \notin Busy(u)'
  BY DEF Claim, Busy, AtWork, Clip, TypeInv, TypeOK
<1> QED BY <1>1, <1>2, OtherWorker DEF Claim, Elsewhere, clips, TypeInv, TypeOK

\* The reaper, the account, the collector, the clock and a restart, for a clip
\* that comes out of it neither harmed nor deleted.
LEMMA OtherTask ==
  ASSUME TypeInv, NEW u \in Uploads, Unharmed(u), Good(u)',
         \/ \E j \in Jobs : Reap(j)
         \/ AccountDelete \/ AccountStep \/ GcStep \/ (\E f \in Files : Ages(f)) \/ Crash \/ UNCHANGED vars
  PROVE  SameControl(u)
<1>1. ASSUME NEW j \in Jobs, Reap(j) PROVE SameControl(u)
  <2>1. j[1] # u /\ j[1] \in Uploads
    BY <1>1 DEF Reap, LeavesUnmarked, Good, Unharmed, history, Jobs
  <2>2. Waits(u)' = Waits(u)
    BY <1>1, <2>1, OtherRows DEF Reap
  <2>3. status'[u] = status[u]
    BY <1>1, <2>1 DEF Reap, LeavesUnmarked, MarkFailed, SetStatus, clips, TypeInv, TypeOK
  <2> QED BY <1>1, <2>2, <2>3 DEF Reap, SameControl, Busy, AtWork, Clip, worker
<1>2. ASSUME AccountDelete PROVE SameControl(u)
  <2>1. status'[u] = status[u]
    BY <1>2 DEF AccountDelete, Good, TypeInv, TypeOK
  <2> QED BY <1>2, <2>1 DEF AccountDelete, AccountFrame, SameControl, Waits, Busy, AtWork, Clip, worker, jobs
<1>3. ASSUME AccountStep \/ GcStep \/ (\E f \in Files : Ages(f)) \/ UNCHANGED vars PROVE SameControl(u)
  <2>1. UNCHANGED <<clips, jobs, up, worker>>
    BY <1>3 DEF AccountStep, AccountSelect, AccountUnlink, AccountErase, AccountFrame, GcStep,
       GcReferenced, GcSelect, GcDropRow, GcWalk, GcEnd, GcLook, GcUnlink, SweepFrame, Ages, vars
  <2> QED BY <2>1 DEF SameControl, Waits, Busy, AtWork, Clip, clips, worker, jobs
<1>4. ASSUME Crash PROVE SameControl(u)
  <2>1. Busy(u) = {} /\ Busy(u)' = {}
    BY <1>4 DEF Crash, Good, Busy, AtWork
  <2>2. up'[u] = up[u] /\ UNCHANGED <<status, queued>>
    BY <1>4 DEF Crash, Good, clips, TypeInv, TypeOK
  <2> QED BY <2>1, <2>2 DEF SameControl, Waits
<1> QED BY <1>1, <1>2, <1>3, <1>4

\* The rows and files of u stay, and the collector learns nothing new of them.
SameAssets(u) ==
  \A f \in Files : f[1] = u =>
    /\ f \in rows' <=> f \in rows
    /\ f \in ready' <=> f \in ready
    /\ f \in files' <=> f \in files
SameSweep(u) ==
  \A f \in Files : f[1] = u =>
    /\ f \in gcRows' => f \in gcRows
    /\ gcRow' = f => gcRow = f
    /\ gc' # "idle" => gc # "idle" /\ (f \in gcRef \cup newFiles => f \in gcRef' \cup newFiles')
SameMedia(u) == SameAssets(u) /\ SameSweep(u)

\* Statements and file operations of clip x only.
RowsOf(x) == \A f \in Files : f[1] # x => (f \in rows' <=> f \in rows) /\ (f \in ready' <=> f \in ready)
FilesOf(x) == \A f \in Files : f[1] # x => (f \in files' <=> f \in files) /\ (gc # "idle" /\ f \in newFiles => f \in newFiles')

\* They leave the media of every other clip alone.
LEMMA MediaOf ==
  ASSUME NEW u \in Uploads, NEW x, x # u, RowsOf(x), FilesOf(x), UNCHANGED sweep
  PROVE  SameMedia(u)
BY DEF RowsOf, FilesOf, SameMedia, SameAssets, SameSweep, sweep

\* Save, delete, insert and drop an asset of x.
LEMMA AssetSteps ==
  ASSUME TypeInv, NEW x, NEW f, f[1] = x
  PROVE  /\ SaveFile(f) => FilesOf(x)
         /\ DeleteFile(f) => FilesOf(x)
         /\ PutRow(f) => RowsOf(x)
BY DEF SaveFile, DeleteFile, PutRow, FilesOf, RowsOf

\* A step without any is a step of every clip.
LEMMA NoAssetSteps ==
  ASSUME NEW x
  PROVE  (UNCHANGED assets => RowsOf(x)) /\ (UNCHANGED store => FilesOf(x))
BY DEF assets, store, FilesOf, RowsOf

\* A request touches the original of its own clip.
LEMMA UploadMedia ==
  ASSUME TypeInv, NEW x \in Uploads, UploadActs(x)
  PROVE  RowsOf(x) /\ FilesOf(x) /\ UNCHANGED sweep
<1>1. Original(x)[1] = x
  BY DEF Original
<1>2. UNCHANGED assets \/ PutRow(Original(x))
  BY DEF UploadActs, UploadStep, UploadCheck, UploadDuplicate, UploadStore, UploadInsert,
     UploadEnqueue, UploadUndo, UploadFailClip, UploadRegister, UploadErrs, UploadRegisterErrs,
     UploadUndoErrs, UploadFailErrs
<1>3. UNCHANGED store \/ SaveFile(Original(x)) \/ DeleteFile(Original(x))
  BY DEF UploadActs, UploadStep, UploadCheck, UploadDuplicate, UploadStore, UploadInsert,
     UploadEnqueue, UploadUndo, UploadFailClip, UploadRegister, UploadErrs, UploadRegisterErrs,
     UploadUndoErrs, UploadFailErrs
<1>4. UNCHANGED sweep
  BY DEF UploadActs, UploadStep, UploadCheck, UploadDuplicate, UploadStore, UploadInsert,
     UploadEnqueue, UploadUndo, UploadFailClip, UploadRegister, UploadErrs, UploadRegisterErrs,
     UploadUndoErrs, UploadFailErrs, Answers
<1> QED BY <1>1, <1>2, <1>3, <1>4, AssetSteps, NoAssetSteps

\* What a worker in persist_asset registers is an asset of its clip.
LEMMA InHand ==
  ASSUME TypeInv, Current, NEW w \in Workers, pc[w] = "register"
  PROVE  cur[w] \in Files /\ cur[w][1] = Clip(w)
BY ConstantAssumption DEF Current, TypeInv, WorkerOK, Files, Assets

\* A worker touches the assets of the clip of its job.
LEMMA WorkerMedia ==
  ASSUME TypeInv, Current, NEW w \in Workers,
         RunActs(w)
  PROVE  RowsOf(Clip(w)) /\ FilesOf(Clip(w)) /\ UNCHANGED sweep
<1> USE DEF RunActs, WorkerStep
<1>1. \/ UNCHANGED assets
      \/ (pc[w] = "register" /\ PutRow(cur[w])) \/ PutRow(Original(Clip(w)))
      \/ DropRows({f \in rows : f[1] = Clip(w)})
      \/ UNCHANGED rows /\ ready' = ready \cup {f \in rows : f[1] = Clip(w)}
  BY DEF ProbeAccept, ProbeReject, EnqueueNext, RejectFails, RejectDiscards, Transcode,
     TranscodeFails, PersistFile, PersistRow, UpsertOriginal, FailDropsRows, FailUnlinks, FailsClip,
     FinalizeStamps, FinalizePublishes, AnnounceCheck, Announce, Settle, BumpFailsClip, ProbeErrs,
     TranscodeErrs, FinalizeErrs, SettleErrs, DiscardErrs, DropErrs, UnlinkErrs, MarkErrs, TimesOut
<1>2. UNCHANGED store \/ \E r \in Assets : SaveFile(<<Clip(w), r>>) \/ DeleteFile(<<Clip(w), r>>)
  BY DEF ProbeAccept, ProbeReject, EnqueueNext, RejectFails, RejectDiscards, Transcode,
     TranscodeFails, PersistFile, PersistRow, UpsertOriginal, FailDropsRows, FailUnlinks, FailsClip,
     FinalizeStamps, FinalizePublishes, AnnounceCheck, Announce, Settle, BumpFailsClip, ProbeErrs,
     TranscodeErrs, FinalizeErrs, SettleErrs, DiscardErrs, DropErrs, UnlinkErrs, MarkErrs, TimesOut,
     Original, Assets, TypeInv, TypeOK
<1>3. UNCHANGED sweep
  BY DEF ProbeAccept, ProbeReject, EnqueueNext, RejectFails, RejectDiscards, Transcode,
     TranscodeFails, PersistFile, PersistRow, UpsertOriginal, FailDropsRows, FailUnlinks, FailsClip,
     FinalizeStamps, FinalizePublishes, AnnounceCheck, Announce, Settle, BumpFailsClip, ProbeErrs,
     TranscodeErrs, FinalizeErrs, SettleErrs, DiscardErrs, DropErrs, UnlinkErrs, MarkErrs, TimesOut,
     Goes, Idles, Elsewhere
<1>4. RowsOf(Clip(w))
  <2>1. pc[w] = "register" => cur[w][1] = Clip(w)
    BY InHand
  <2>2. Original(Clip(w))[1] = Clip(w)
    BY DEF Original
  <2>3. DropRows({f \in rows : f[1] = Clip(w)}) => RowsOf(Clip(w))
    BY DEF DropRows, RowsOf, TypeInv, TypeOK
  <2>4. UNCHANGED rows /\ ready' = ready \cup {f \in rows : f[1] = Clip(w)} => RowsOf(Clip(w))
    BY DEF RowsOf
  <2> QED BY <1>1, <2>1, <2>2, <2>3, <2>4, AssetSteps, NoAssetSteps
<1>5. FilesOf(Clip(w))
  <2>1. \A r \in Assets : <<Clip(w), r>>[1] = Clip(w)
    OBVIOUS
  <2> QED BY <1>2, <2>1, AssetSteps, NoAssetSteps
<1> QED BY <1>3, <1>4, <1>5

\* The others do not touch the media of a clip that is needed: its rows have
\* their files, and its files are referenced, or in flight and young.
LEMMA OtherMedia ==
  ASSUME TypeInv, Young, NEW u \in Uploads, Healthy(u), Kept(u), Good(u)',
         \/ \E w \in Workers : Settle(w) \/ \E j \in Jobs : Claim(w, j)
         \/ \E j \in Jobs : Reap(j)
         \/ AccountDelete \/ AccountStep \/ (\E f \in Files : Ages(f)) \/ Crash \/ UNCHANGED vars
         \/ GcDropRow \/ GcWalk \/ GcEnd \/ \E f \in Files : GcLook(f) \/ GcUnlink(f)
  PROVE  SameMedia(u)
<1>1. ASSUME UNCHANGED <<rows, ready, files, newFiles, sweep>> PROVE SameMedia(u)
  BY <1>1 DEF SameMedia, SameAssets, SameSweep, sweep
<1>2. ASSUME \/ \E w \in Workers : Settle(w) \/ \E j \in Jobs : Claim(w, j)
             \/ \E j \in Jobs : Reap(j)
             \/ AccountDelete \/ AccountSelect \/ AccountErase \/ (\E f \in Files : Ages(f)) \/ UNCHANGED vars
      PROVE  UNCHANGED <<rows, ready, files, newFiles, sweep>>
  BY <1>2 DEF Settle, Claim, Reap, AccountDelete, AccountSelect, AccountErase, AccountFrame, Ages, vars,
              Idles, Elsewhere, assets, store
<1>3. ASSUME NEW f \in Files, AccountUnlink(f) PROVE SameMedia(u)
  <2>1. f[1] # u
    BY <1>3 DEF AccountUnlink, Harm, Good
  <2>2. RowsOf(f[1]) /\ FilesOf(f[1]) /\ UNCHANGED sweep
    BY <1>3, AssetSteps, NoAssetSteps DEF AccountUnlink, AccountFrame
  <2> QED BY <2>1, <2>2, MediaOf
<1>4. ASSUME Crash PROVE SameMedia(u)
  BY <1>4, ConstantAssumption DEF Crash, SameMedia, SameAssets, SameSweep, Files, Assets
<1>5. ASSUME GcWalk \/ GcEnd PROVE SameMedia(u)
  BY <1>5 DEF GcWalk, GcEnd, SameMedia, SameAssets, SameSweep, assets, store
<1>6. ASSUME GcDropRow PROVE SameMedia(u)
  <2>1. \A f \in Files : f[1] = u => f # gcRow
    BY DEF Kept
  <2> QED BY <1>6, <2>1, ConstantAssumption DEF GcDropRow, DropRows, SameMedia, SameAssets, SameSweep, store, Files, Assets
<1>7. ASSUME NEW f \in Files, GcLook(f) PROVE SameMedia(u)
  <2>1. f[1] = u => f \in files /\ f[1] \notin gcGone
    BY <1>7 DEF GcLook, Kept, Young, Healthy, Good
  <2>2. CASE f[1] = u
    BY <1>7, <2>1, <2>2 DEF GcLook, SameMedia, SameAssets, SameSweep, assets, store
  <2>3. CASE f[1] # u
    BY <1>7, <2>3 DEF GcLook, DeleteFile, SameMedia, SameAssets, SameSweep, assets, store
  <2> QED BY <2>2, <2>3
<1>8. ASSUME NEW f \in Files, GcUnlink(f) PROVE SameMedia(u)
  <2>1. f[1] # u
    BY <1>8 DEF GcUnlink, Sweepable, Kept, Young
  <2> QED BY <1>8, <2>1 DEF GcUnlink, DeleteFile, SameMedia, SameAssets, SameSweep, assets, sweep
<1> QED BY <1>1, <1>2, <1>3, <1>4, <1>5, <1>6, <1>7, <1>8 DEF AccountStep

\* A step that leaves the control of u alone.
LEMMA ControlFrame ==
  ASSUME NEW u \in Uploads, SameControl(u), Good(u), Staged(u), unmarked \subseteq unmarked'
  PROVE  Staged(u)' /\ (Healthy(u)' => Healthy(u))
BY DEF Staged, Healthy, Carried, GivesUp, SameControl

\* A step that leaves the control and the assets of u alone.
LEMMA AssetsFrame ==
  ASSUME TypeInv, Current, NEW u \in Uploads, SameControl(u), SameAssets(u), HasMedia(u)
  PROVE  /\ HasOriginal(u)' /\ Produced(u)'
         /\ \A f \in Files : f[1] = u /\ Covered(f) => Covered(f)'
<1>1. HasOriginal(u)'
  <2>1. Original(u) \in Files /\ Original(u)[1] = u
    BY DEF Original, Files, Assets
  <2> QED BY <2>1 DEF HasMedia, HasOriginal, SameAssets, SameControl
<1>2. Produced(u)'
  <2>1. \A r \in Assets : (<<u, r>> \in rows' <=> <<u, r>> \in rows) /\ (<<u, r>> \in ready' <=> <<u, r>> \in ready)
    BY DEF SameAssets, Files
  <2>2. \A w \in Busy(u) : pc[w] = "register" /\ cur[w] \in files => cur[w] \in files'
    BY InHand DEF SameAssets, Busy
  <2>3. \A w \in Busy(u) : RunProduced(u, w)'
    BY <2>1, <2>2 DEF HasMedia, Produced, RunProduced, Registered, Stamped, At, SameControl, Assets
  <2>4. \A j \in Waits(u)' : j[2] = "finalize" => Registered(u, Assets)'
    BY <2>1 DEF HasMedia, Produced, Registered, SameControl
  <2>5. status'[u] = "ready" => Stamped(u)'
    BY <2>1 DEF HasMedia, Produced, Stamped, SameControl
  <2> QED BY <2>3, <2>4, <2>5 DEF Produced, SameControl
<1>3. \A f \in Files : f[1] = u /\ Covered(f) => Covered(f)'
  BY DEF Covered, SameAssets, SameControl
<1> QED BY <1>1, <1>2, <1>3

\* A step that leaves the control of u alone, and its media as long as they
\* are needed, keeps what is known of u.
LEMMA Frame ==
  ASSUME TypeInv, Current, NEW u \in Uploads, Guarded(u), Good(u), SameControl(u), Healthy(u) => SameMedia(u),
         unmarked \subseteq unmarked'
  PROVE  Guarded(u)'
<1>1. Staged(u)' /\ (Healthy(u)' => Healthy(u))
  BY ControlFrame DEF Guarded
<1>2. ASSUME Healthy(u) PROVE HasMedia(u)'
  <2>1. HasMedia(u) /\ SameAssets(u) /\ SameSweep(u)
    BY <1>2 DEF Guarded, SameMedia
  <2>2. Kept(u)'
    BY <2>1, AssetsFrame DEF HasMedia, Kept, SameAssets, SameSweep
  <2> QED BY <2>1, <2>2, AssetsFrame DEF HasMedia
<1> QED BY <1>1, <1>2 DEF Guarded

\* The collector's snapshots hold everything that is needed.
LEMMA Snapshots ==
  ASSUME TypeInv, Current, NEW u \in Uploads, Guarded(u), Good(u), SameControl(u), GcReferenced \/ GcSelect,
         unmarked \subseteq unmarked'
  PROVE  Guarded(u)'
<1>1. Staged(u)' /\ (Healthy(u)' => Healthy(u))
  BY ControlFrame DEF Guarded
<1>2. UNCHANGED <<rows, ready, files>>
  BY DEF GcReferenced, GcSelect, assets, store
<1>3. SameAssets(u)
  BY <1>2 DEF SameAssets
<1>4. ASSUME Healthy(u) PROVE HasMedia(u)'
  <2>1. HasMedia(u)
    BY <1>4 DEF Guarded
  <2>2. CASE GcReferenced
    <3>1. \A f \in files : Covered(f) => f \in rows \/ InFlight(f)
      BY DEF Covered, InFlight, Busy
    <3> QED BY <1>2, <1>3, <2>1, <2>2, <3>1, AssetsFrame DEF GcReferenced, HasMedia, Kept
  <2>3. CASE GcSelect
    BY <1>2, <1>3, <2>1, <2>3, AssetsFrame DEF GcSelect, HasMedia, Kept, store
  <2> QED BY <2>2, <2>3
<1> QED BY <1>1, <1>4 DEF Guarded

-----------------------------------------------------------------------------
(* The request for clip u.                                                 *)

\* Until it has enqueued the job, the request is alone with its clip.
LEMMA Alone ==
  ASSUME NEW u \in Uploads, OneToken(u), Staged(u), up[u] \notin {"enqueued", "done"}
  PROVE  Waits(u) = {} /\ Busy(u) = {} /\ status[u] # "ready"
BY DEF OneToken, Staged

\* What a request leaves alone.
LEMMA UploadFrame ==
  ASSUME TypeInv, NEW u \in Uploads, UploadActs(u)
  PROVE  UNCHANGED worker /\ Busy(u)' = Busy(u) /\ (~UploadEnqueue(u) => UNCHANGED jobs /\ Waits(u)' = Waits(u))
<1>1. UNCHANGED worker
  BY DEF UploadActs, UploadStep, UploadCheck, UploadDuplicate, UploadStore, UploadInsert, UploadEnqueue, UploadUndo,
         UploadFailClip, UploadRegister, UploadErrs, UploadRegisterErrs, UploadUndoErrs,
         UploadFailErrs, Answers
<1>2. ~UploadEnqueue(u) => UNCHANGED jobs
  BY DEF UploadActs, UploadStep, UploadCheck, UploadDuplicate, UploadStore, UploadInsert, UploadUndo,
         UploadFailClip, UploadRegister, UploadErrs, UploadRegisterErrs, UploadUndoErrs,
         UploadFailErrs
<1> QED BY <1>1, <1>2 DEF worker, jobs, Busy, Waits, AtWork, Clip

\* The requests that end without a job: a duplicate, a refused INSERT, an
\* error, and what is undone after it.
LEMMA UploadEnds ==
  ASSUME TypeInv, NEW u \in Uploads, Guarded(u), Good(u), OneToken(u),
         \/ UploadDuplicate(u) \/ UploadUndo(u) \/ UploadFailClip(u) \/ UploadErrs(u)
         \/ UploadUndoErrs(u) \/ UploadFailErrs(u)
         \/ UploadInsert(u) /\ ~Admits(u)
  PROVE  Guarded(u)'
<1>1. Staged(u)
  BY DEF Guarded
<1>2. up[u] \in {"idle", "undo", "undone", "saved", "inserted"}
  BY DEF UploadDuplicate, UploadUndo, UploadFailClip, UploadErrs, UploadInsert, UploadUndoErrs, UploadFailErrs
<1>3. Waits(u) = {} /\ Busy(u) = {} /\ status[u] # "ready"
  BY <1>1, <1>2, Alone
<1>4. Waits(u)' = {} /\ Busy(u)' = {}
  <2>1. UNCHANGED <<jobs, worker>>
    BY DEF UploadDuplicate, UploadUndo, UploadFailClip, UploadErrs, UploadInsert, UploadUndoErrs, UploadFailErrs,
           Answers
  <2> QED BY <1>3, <2>1 DEF Waits, Busy, AtWork, Clip, jobs, worker
<1>5. /\ up'[u] \in {"done", "undo", "undone"}
      /\ status'[u] \in {status[u], "failed"}
      /\ up'[u] = "done" => status'[u] \in {"none", "failed"} \/ u \in unmarked'
  BY <1>1 DEF UploadDuplicate, UploadUndo, UploadFailClip, UploadErrs, UploadInsert, UploadUndoErrs,
              UploadFailErrs, LeavesUnmarked, Answers, clips,
              MarkFailed, SetStatus, Staged, TypeInv, TypeOK
<1> QED BY <1>3, <1>4, <1>5 DEF Guarded, Staged, Healthy, Carried

\* The file, the clip and the job of a request that goes on.
LEMMA UploadGoesOn ==
  ASSUME TypeInv, TypeInv', NEW u \in Uploads, Guarded(u), Good(u), OneToken(u), OneToken(u)',
         UploadCheck(u) \/ UploadStore(u) \/ UploadEnqueue(u) \/ (UploadInsert(u) /\ Admits(u))
  PROVE  Guarded(u)'
<1>1. Staged(u)
  BY DEF Guarded
<1>2. up[u] \in {"idle", "checked", "saved", "inserted"}
  BY DEF UploadCheck, UploadStore, UploadEnqueue, UploadInsert
<1>3. Waits(u) = {} /\ Busy(u) = {} /\ status[u] # "ready"
  BY <1>1, <1>2, Alone
<1>4. HasMedia(u)
  BY <1>2 DEF Guarded, Healthy, Carried
<1>5. Busy(u)' = {}
  BY <1>3, UploadFrame DEF UploadActs, UploadStep
<1>6. CASE UploadEnqueue(u)
  <2>1. <<u, "probe", 0>> \in Waits(u)'
    BY <1>6, ConstantAssumption DEF UploadEnqueue, Enqueue, Waits, Jobs, Stages, TypeInv, TypeOK
  <2>2. Waits(u)' = {<<u, "probe", 0>>}
    BY <2>1 DEF OneToken
  <2>3. up[u] = "inserted" /\ up'[u] = "enqueued" /\ UNCHANGED <<status, rows, ready, files, sweep, newFiles>>
    BY <1>6 DEF UploadEnqueue, Answers, clips, assets, store, TypeInv, TypeOK
  <2>4. Staged(u)'
    BY <1>3, <1>5, <2>1, <2>3 DEF Staged
  <2>5. Kept(u)'
    BY <1>3, <1>4, <2>3 DEF HasMedia, Kept, Covered, sweep
  <2>6. HasOriginal(u)'
    BY <1>4, <2>3 DEF HasMedia, HasOriginal
  <2>7. Produced(u)'
    BY <1>3, <1>5, <2>2, <2>3 DEF Produced
  <2> QED BY <2>4, <2>5, <2>6, <2>7 DEF Guarded, HasMedia
<1>7. CASE UploadCheck(u) \/ (UploadInsert(u) /\ Admits(u))
  <2>1. Waits(u)' = {}
    BY <1>3, <1>7, UploadFrame DEF UploadActs, UploadStep, UploadCheck, UploadInsert, UploadEnqueue
  <2>2. /\ \/ up[u] = "idle" /\ up'[u] = "checked" /\ status'[u] = status[u]
           \/ up[u] = "saved" /\ up'[u] = "inserted" /\ status'[u] = "pending"
        /\ UNCHANGED <<rows, ready, files, sweep, newFiles>>
    BY <1>7 DEF UploadCheck, UploadInsert, Answers, SetStatus, clips, assets, store, TypeInv, TypeOK
  <2>3. Staged(u)'
    BY <1>1, <1>3, <1>5, <2>1, <2>2 DEF Staged
  <2>4. Kept(u)'
    BY <1>3, <1>4, <2>2 DEF HasMedia, Kept, Covered, sweep
  <2>5. HasOriginal(u)'
    BY <1>4, <2>2 DEF HasMedia, HasOriginal
  <2>6. Produced(u)'
    BY <1>3, <1>5, <2>1, <2>2 DEF Produced
  <2> QED BY <2>3, <2>4, <2>5, <2>6 DEF Guarded, HasMedia
<1>8. CASE UploadStore(u)
  <2>1. Waits(u)' = {}
    BY <1>3, <1>8, UploadFrame DEF UploadActs, UploadStep, UploadStore, UploadEnqueue
  <2>2. /\ up[u] = "checked" /\ up'[u] = "saved" /\ UNCHANGED <<status, rows, ready, sweep>>
        /\ files' = files \cup {Original(u)}
        /\ gc # "idle" => newFiles' = newFiles \cup {Original(u)}
    BY <1>8 DEF UploadStore, SaveFile, Answers, clips, assets, TypeInv, TypeOK
  <2>3. Staged(u)'
    BY <1>1, <1>3, <1>5, <2>1, <2>2 DEF Staged
  <2>4. Kept(u)'
    <3>1. \A f \in Files : f[1] = u /\ f \in files' => Covered(f)'
      BY <1>3, <1>4, <2>2 DEF HasMedia, Kept, Covered
    <3> QED BY <1>4, <2>2, <3>1 DEF HasMedia, Kept, sweep
  <2>5. HasOriginal(u)'
    BY <2>2 DEF HasOriginal, Original
  <2>6. Produced(u)'
    BY <1>3, <1>5, <2>1, <2>2 DEF Produced
  <2> QED BY <2>3, <2>4, <2>5, <2>6 DEF Guarded, HasMedia
<1> QED BY <1>6, <1>7, <1>8

\* The early orig row: the file is there if the clip is still wanted.
LEMMA UploadRegisters ==
  ASSUME TypeInv, Current, NEW u \in Uploads, Guarded(u), Good(u), UploadRegister(u)
  PROVE  Guarded(u)'
<1>1. Waits(u)' = Waits(u) /\ Busy(u)' = Busy(u) /\ UNCHANGED <<pc, run, todo, cur>>
  BY UploadFrame DEF UploadActs, UploadStep, UploadRegister, UploadEnqueue, worker
<1>2. /\ up[u] = "enqueued" /\ up'[u] = "done" /\ UNCHANGED <<status, files, newFiles, ready, sweep>>
      /\ rows' = rows \cup {Original(u)}
  BY DEF UploadRegister, PutRow, Answers, clips, store, TypeInv, TypeOK
<1>3. Staged(u)' /\ (Healthy(u)' => Healthy(u))
  BY <1>1, <1>2 DEF Guarded, Staged, Healthy, Carried, GivesUp, Good, UploadRegister, history, clips
<1>4. ASSUME Healthy(u) PROVE HasMedia(u)'
  <2>1. HasMedia(u) /\ Original(u) \in files
    BY <1>2, <1>4 DEF Guarded, HasMedia, HasOriginal
  <2>2. Kept(u)'
    <3>1. \A f \in Files : f[1] = u /\ Covered(f) => Covered(f)'
      BY <1>1, <1>2 DEF Covered
    <3> QED BY <1>2, <2>1, <3>1 DEF HasMedia, Kept, sweep
  <2>3. HasOriginal(u)'
    BY <1>2, <2>1 DEF HasOriginal, Original
  <2>4. Produced(u)'
    BY <1>1, <1>2, <2>1 DEF HasMedia, Produced, RunProduced, Registered, Stamped, At
  <2> QED BY <2>2, <2>3, <2>4 DEF HasMedia
<1> QED BY <1>3, <1>4 DEF Guarded

-----------------------------------------------------------------------------
(* A run of clip u.                                                        *)

\* The worker that has the token is alone with the clip.
LEMMA RunAlone ==
  ASSUME NEW u \in Uploads, NEW w \in Busy(u), OneToken(u)
  PROVE  w \in Workers /\ Clip(w) = u /\ Busy(u) = {w} /\ Waits(u) = {} /\ up[u] \in {"enqueued", "done"}
BY DEF OneToken, Busy

\* What the steps of the run leave alone.
LEMMA RunFrame ==
  ASSUME TypeInv, NEW u \in Uploads, NEW w \in Busy(u), OneToken(u),
         \/ WorkerStep(w) \/ ProbeErrs(w) \/ TranscodeErrs(w) \/ FinalizeErrs(w)
         \/ DiscardErrs(w) \/ DropErrs(w) \/ UnlinkErrs(w) \/ MarkErrs(w)
  PROVE  /\ UNCHANGED up /\ Busy(u)' \subseteq {w}
         /\ ~EnqueueNext(w) => Waits(u)' = {}
<1>1. w \in Workers /\ Busy(u) = {w} /\ Waits(u) = {}
  BY RunAlone
<1>2. UNCHANGED up /\ Busy(u)' \subseteq {w}
  BY <1>1, WorkerFrame DEF RunActs, Busy, AtWork, Clip
<1>3. ~EnqueueNext(w) => UNCHANGED queued
  BY DEF WorkerStep, ProbeAccept, ProbeReject, RejectFails, RejectDiscards, Transcode, TranscodeFails,
         PersistFile, PersistRow, UpsertOriginal, FailDropsRows, FailUnlinks, FailsClip, FinalizeStamps,
         FinalizePublishes, AnnounceCheck, Announce, Settle, BumpFailsClip, ProbeErrs, TranscodeErrs,
         FinalizeErrs, DiscardErrs, DropErrs, UnlinkErrs, MarkErrs, jobs
<1> QED BY <1>1, <1>2, <1>3 DEF Waits

\* reject_clip, fail_transcode and the errors of finalize: the clip is failed
\* by the run that gives it up; a probe is refused only a clip that is not in
\* the index.
LEMMA RunGivesUp ==
  ASSUME TypeInv, UniqueBytes, NEW u \in Uploads, NEW w \in Busy(u), Guarded(u), Good(u), OneToken(u),
         \/ RejectFails(w) \/ RejectDiscards(w) \/ FailDropsRows(w) \/ FailUnlinks(w) \/ FailsClip(w)
         \/ (FinalizePublishes(w) \/ ProbeAccept(w)) /\ ~Admits(u)
         \/ FinalizeErrs(w) /\ pc[w] \in {"start", "publish"}
         \/ DiscardErrs(w) \/ DropErrs(w) \/ UnlinkErrs(w) \/ MarkErrs(w)
  PROVE  Guarded(u)'
<1>1. w \in Workers /\ Clip(w) = u /\ up[u] \in {"enqueued", "done"} /\ Staged(u)
  BY RunAlone DEF Guarded
<1>2. UNCHANGED up /\ Busy(u)' \subseteq {w} /\ Waits(u)' = {}
  <2>1. ~EnqueueNext(w)
    BY DEF EnqueueNext, RejectFails, RejectDiscards, FailDropsRows, FailUnlinks, FailsClip, FinalizePublishes,
           ProbeAccept, FinalizeErrs, DiscardErrs, DropErrs, UnlinkErrs, MarkErrs, At
  <2> QED BY <2>1, RunFrame DEF WorkerStep
<1>3. pc'[w] \in {"discard", "settle", "unlink", "fail", "idle"}
  BY <1>1 DEF RejectFails, RejectDiscards, FailDropsRows, FailUnlinks, FailsClip, FinalizePublishes,
              ProbeAccept, FinalizeErrs, DiscardErrs, DropErrs, UnlinkErrs, MarkErrs, Goes, Idles, TypeInv, TypeOK
<1>4. w \in Busy(u)' => GivesUp(w)'
  BY <1>3 DEF Busy, AtWork, GivesUp
<1>5. status[u] # "ready"
  BY <1>1 DEF Staged, RejectFails, RejectDiscards, FailDropsRows, FailUnlinks, FailsClip, FinalizePublishes,
              ProbeAccept, FinalizeErrs, DiscardErrs, DropErrs, UnlinkErrs, MarkErrs, Busy, AtWork, At
<1>6. status'[u] # "ready" /\ (pc'[w] = "discard" => status'[u] = "failed" \/ u \in unmarked')
  BY <1>1, <1>5 DEF RejectFails, RejectDiscards, FailDropsRows, FailUnlinks, FailsClip, FinalizePublishes,
              ProbeAccept, FinalizeErrs, DiscardErrs, DropErrs, UnlinkErrs, MarkErrs, LeavesUnmarked, MarkFailed, SetStatus, clips, Goes, Idles, TypeInv, TypeOK
<1>7. status'[u] \in {"pending", "processing"} => \/ pc'[w] \in {"unlink", "fail"} /\ run'[w] = run[w]
                                                \/ u \in unmarked'
  <2>1. CASE ProbeAccept(w) /\ ~Admits(u)
    <3>1. ~InIndex(u)
      BY <2>1 DEF UniqueBytes, Admits
    <3> QED BY <1>1, <2>1, <3>1 DEF InIndex, Good, ProbeAccept, clips
  <2>2. CASE RejectDiscards(w) \/ DiscardErrs(w)
    BY <1>1, <2>2 DEF RejectDiscards, DiscardErrs, Staged, clips, history
  <2>3. CASE RejectFails(w) \/ FailsClip(w)
    BY <1>1, <2>3 DEF RejectFails, FailsClip, MarkFailed, SetStatus, TypeInv, TypeOK
  <2>4. CASE \/ FailDropsRows(w) \/ FailUnlinks(w)
             \/ FinalizePublishes(w) /\ ~Admits(u)
             \/ FinalizeErrs(w) /\ pc[w] \in {"start", "publish"}
    BY <1>1, <2>4 DEF FailDropsRows, FailUnlinks, FinalizePublishes, FinalizeErrs, Goes, TypeInv, TypeOK
  <2>5. CASE DropErrs(w) \/ UnlinkErrs(w)
    BY <1>1, <2>5 DEF DropErrs, UnlinkErrs, TypeInv, TypeOK
  <2>6. CASE MarkErrs(w)
    BY <1>1, <2>6 DEF MarkErrs, LeavesUnmarked
  <2> QED BY <2>1, <2>2, <2>3, <2>4, <2>5, <2>6
<1>8. status'[u] \in {"pending", "processing"} => w \in Busy(u)' \/ u \in unmarked'
  BY <1>1, <1>7 DEF Busy, AtWork, Clip
<1>9. Staged(u)'
  BY <1>1, <1>2, <1>4, <1>6, <1>8 DEF Staged, GivesUp
<1>10. ~Healthy(u)'
  BY <1>1, <1>2, <1>4, <1>6 DEF Healthy, Carried
<1> QED BY <1>9, <1>10 DEF Guarded

\* The rows and files are as before, and nothing is put down.
LEMMA KeptSame ==
  ASSUME NEW u \in Uploads, Kept(u), UNCHANGED <<rows, files, newFiles, sweep, up>>,
         \A w \in Busy(u) : cur[w] # NoAsset => w \in Busy(u)' /\ cur'[w] = cur[w]
  PROVE  Kept(u)'
<1>1. \A f \in Files : f # NoAsset
  BY ConstantAssumption DEF Files, Assets
<1>2. \A f \in Files : f[1] = u /\ Covered(f) => Covered(f)'
  BY <1>1 DEF Covered
<1> QED BY <1>2 DEF Kept, sweep

\* A claimed job: what finalize needs is there.
LEMMA RunBegins ==
  ASSUME TypeInv, NEW u \in Uploads, NEW w \in Workers, NEW j \in Jobs, j[1] = u, Claim(w, j),
         Guarded(u), Good(u), OneToken(u), OneToken(u)'
  PROVE  Guarded(u)'
<1>1. j \in Waits(u)
  BY DEF Claim, Waits
<1>2. Busy(u) = {} /\ Waits(u) = {j} /\ up[u] \in {"enqueued", "done"}
  BY <1>1 DEF OneToken
<1>3. w \in Busy(u)' /\ pc'[w] = "start" /\ run'[w] = j
  BY DEF Claim, Busy, AtWork, Clip, TypeInv, TypeOK
<1>4. Busy(u)' = {w} /\ Waits(u)' = {}
  BY <1>3 DEF OneToken
<1>5. UNCHANGED <<status, rows, ready, files, newFiles, sweep, up>>
  BY DEF Claim, Elsewhere, clips, assets, store
<1>6. Staged(u) /\ HasMedia(u)
  BY <1>1 DEF Guarded, Healthy, Carried
<1>7. Staged(u)'
  BY <1>1, <1>2, <1>3, <1>4, <1>5, <1>6 DEF Staged
<1>8. Kept(u)'
  BY <1>2, <1>5, <1>6, KeptSame DEF HasMedia
<1>9. HasOriginal(u)'
  BY <1>5, <1>6 DEF HasMedia, HasOriginal
<1>10. Produced(u)'
  BY <1>1, <1>3, <1>4, <1>5, <1>6 DEF HasMedia, Produced, RunProduced, Registered, Stamped, At
<1> QED BY <1>7, <1>8, <1>9, <1>10 DEF Guarded, HasMedia

\* The steps of a run that write no asset.
LEMMA RunGoesOn ==
  ASSUME TypeInv, Current, NEW u \in Uploads, NEW w \in Busy(u), Guarded(u), Good(u), OneToken(u),
         \/ ProbeReject(w) \/ ProbeErrs(w) \/ Transcode(w) \/ TranscodeFails(w) \/ TranscodeErrs(w)
         \/ AnnounceCheck(w)
         \/ (ProbeAccept(w) \/ FinalizePublishes(w)) /\ Admits(u)
  PROVE  Guarded(u)'
<1>1. w \in Workers /\ Clip(w) = u /\ up[u] \in {"enqueued", "done"} /\ Staged(u) /\ ~GivesUp(w)
  BY RunAlone DEF Guarded, GivesUp, ProbeReject, ProbeErrs, Transcode, TranscodeFails, TranscodeErrs,
                  AnnounceCheck, ProbeAccept, FinalizePublishes, At
<1>2. HasMedia(u)
  BY <1>1 DEF Guarded, Healthy, Carried
<1>3. UNCHANGED <<rows, ready, files, newFiles, sweep, up>> /\ run'[w] = run[w] /\ cur'[w] = cur[w]
  BY <1>1 DEF ProbeReject, ProbeErrs, Transcode, TranscodeFails, TranscodeErrs,
              AnnounceCheck, ProbeAccept, FinalizePublishes, assets, store, Goes, Elsewhere, TypeInv, TypeOK
<1>4. \/ pc[w] = "start" /\ run[w][2] = "probe" /\ pc'[w] \in {"enqueue", "reject"} /\ status'[u] \in {status[u], "processing"}
      \/ pc[w] = "enqueue" /\ run[w][2] = "probe" /\ pc'[w] = "reject" /\ status'[u] = status[u]
      \/ pc[w] = "start" /\ run[w][2] = "transcode" /\ pc'[w] = "store" /\ todo'[w] = Renditions /\ status'[u] = status[u]
      \/ pc[w] \in {"start", "store", "register", "orig", "enqueue"} /\ pc'[w] = "drop" /\ status'[u] = status[u]
      \/ pc[w] = "announce" /\ pc'[w] = "announcing" /\ status'[u] = status[u]
      \/ pc[w] = "publish" /\ pc'[w] = "announce" /\ status'[u] = "ready"
  BY <1>1 DEF ProbeReject, ProbeErrs, Transcode, TranscodeFails, TranscodeErrs, AnnounceCheck, ProbeAccept,
              FinalizePublishes, At, Good, SetStatus, clips, Goes, TypeInv, TypeOK
<1>5. w \in Busy(u)'
  BY <1>1, <1>3, <1>4 DEF Busy, AtWork, Clip
<1>6. Busy(u)' = {w} /\ Waits(u)' = {}
  <2>1. ~EnqueueNext(w)
    BY <1>1, <1>4, RunAlone, WorkerFrame DEF EnqueueNext, Goes, TypeInv, TypeOK
  <2> QED BY <1>5, <2>1, RunFrame DEF WorkerStep
<1>7. Staged(u)'
  BY <1>1, <1>3, <1>4, <1>6 DEF Staged
<1>8. Kept(u)'
  BY <1>2, <1>3, <1>5, <1>6, RunAlone, KeptSame DEF HasMedia
<1>9. HasOriginal(u)'
  BY <1>2, <1>3 DEF HasMedia, HasOriginal
<1>10. Produced(u)'
  <2>1. RunProduced(u, w)
    BY <1>2 DEF HasMedia, Produced
  <2>2. RunProduced(u, w)'
    BY <1>3, <1>4, <2>1 DEF RunProduced, Registered, Stamped, At
  <2>3. status'[u] = "ready" => Stamped(u)'
    BY <1>2, <1>3, <1>4, <2>1 DEF HasMedia, Produced, RunProduced, Stamped
  <2> QED BY <1>6, <2>2, <2>3 DEF Produced
<1> QED BY <1>7, <1>8, <1>9, <1>10 DEF Guarded, HasMedia

\* The next stage is enqueued with what it needs.
LEMMA RunHandsOn ==
  ASSUME TypeInv, Current, NEW u \in Uploads, NEW w \in Busy(u), Guarded(u), Good(u), OneToken(u), OneToken(u)',
         EnqueueNext(w)
  PROVE  Guarded(u)'
<1>1. w \in Workers /\ Clip(w) = u /\ up[u] \in {"enqueued", "done"} /\ Staged(u) /\ ~GivesUp(w) /\ Busy(u) = {w}
  BY RunAlone DEF Guarded, GivesUp, EnqueueNext
<1>2. HasMedia(u)
  BY <1>1 DEF Guarded, Healthy, Carried
<1>3. UNCHANGED <<status, rows, ready, files, newFiles, sweep, up>>
  BY DEF EnqueueNext, Goes, Elsewhere, clips, assets, store
<1>4. PICK s \in Stages : /\ s = IF run[w][2] = "probe" THEN "transcode" ELSE "finalize"
                          /\ queued' = [queued EXCEPT ![<<u, s, 0>>] = @ + 1]
  BY <1>1 DEF EnqueueNext, Enqueue, Stages
<1>5. <<u, s, 0>> \in Waits(u)'
  <2>1. <<u, s, 0>> \in Jobs
    BY ConstantAssumption DEF Jobs, Stages
  <2> QED BY <1>4, <2>1 DEF Waits, TypeInv, TypeOK
<1>6. Waits(u)' = {<<u, s, 0>>} /\ Busy(u)' = {}
  BY <1>5 DEF OneToken
<1>7. status[u] # "ready"
  BY <1>1 DEF Staged, EnqueueNext
<1>8. Staged(u)'
  BY <1>1, <1>3, <1>6, <1>7 DEF Staged
<1>9. Kept(u)'
  <2>1. cur[w] = NoAsset
    BY <1>1 DEF Current, EnqueueNext
  <2> QED BY <1>1, <1>2, <1>3, <2>1, KeptSame DEF HasMedia
<1>10. HasOriginal(u)'
  BY <1>2, <1>3 DEF HasMedia, HasOriginal
<1>11. Produced(u)'
  <2>1. s = "finalize" => Registered(u, Assets)
    BY <1>1, <1>2, <1>4 DEF HasMedia, Produced, RunProduced, EnqueueNext
  <2> QED BY <1>3, <1>6, <1>7, <2>1 DEF Produced, Registered
<1> QED BY <1>8, <1>9, <1>10, <1>11 DEF Guarded, HasMedia

\* The clip is shown, and its token used up.
LEMMA RunIsOver ==
  ASSUME TypeInv, Current, NEW u \in Uploads, NEW w \in Busy(u), Guarded(u), Good(u), OneToken(u),
         Announce(w) \/ (FinalizeErrs(w) /\ pc[w] \in {"announce", "announcing"})
  PROVE  Guarded(u)'
<1>1. /\ w \in Workers /\ Clip(w) = u /\ up[u] \in {"enqueued", "done"} /\ Staged(u) /\ ~GivesUp(w)
      /\ Busy(u) = {w} /\ Waits(u) = {} /\ pc[w] \in {"announce", "announcing"}
  BY RunAlone DEF Guarded, GivesUp, Announce, FinalizeErrs
<1>2. HasMedia(u)
  BY <1>1 DEF Guarded, Healthy, Carried
<1>3. UNCHANGED <<status, rows, ready, files, newFiles, sweep, up, queued>> /\ pc'[w] = "settle"
  BY <1>1 DEF Announce, FinalizeErrs, Goes, Elsewhere, clips, assets, store, jobs, TypeInv, TypeOK
<1>4. Waits(u)' = {} /\ Busy(u)' = {}
  <2>1. Busy(u)' \subseteq {w}
    BY RunFrame DEF WorkerStep
  <2>2. w \notin Busy(u)'
    BY <1>3 DEF Busy, AtWork
  <2> QED BY <1>1, <1>3, <2>1, <2>2 DEF Waits
<1>5. status[u] = "ready"
  BY <1>1 DEF Staged
<1>6. Staged(u)'
  BY <1>1, <1>3, <1>4, <1>5 DEF Staged
<1>7. Kept(u)'
  <2>1. cur[w] = NoAsset
    BY <1>1 DEF Current
  <2> QED BY <1>1, <1>2, <1>3, <2>1, KeptSame DEF HasMedia
<1>8. HasOriginal(u)'
  BY <1>2, <1>3 DEF HasMedia, HasOriginal
<1>9. Produced(u)'
  BY <1>2, <1>3, <1>4 DEF HasMedia, Produced, Stamped
<1> QED BY <1>6, <1>7, <1>8, <1>9 DEF Guarded, HasMedia

\* transcode writes the assets one by one, the file before the row; finalize
\* stamps the rows.
LEMMA RunProduces ==
  ASSUME TypeInv, Current, NEW u \in Uploads, NEW w \in Busy(u), Guarded(u), Good(u), OneToken(u),
         PersistFile(w) \/ PersistRow(w) \/ UpsertOriginal(w) \/ FinalizeStamps(w)
  PROVE  Guarded(u)'
<1>1. /\ w \in Workers /\ Clip(w) = u /\ up[u] \in {"enqueued", "done"} /\ Staged(u) /\ ~GivesUp(w)
      /\ Busy(u) = {w} /\ Waits(u) = {}
  BY RunAlone DEF Guarded, GivesUp, PersistFile, PersistRow, UpsertOriginal, FinalizeStamps, At
<1>2. HasMedia(u) /\ RunProduced(u, w)
  BY <1>1 DEF Guarded, Healthy, Carried, HasMedia, Produced
<1>3. UNCHANGED <<status, up, sweep>> /\ run'[w] = run[w]
  BY <1>1 DEF PersistFile, PersistRow, UpsertOriginal, FinalizeStamps, Goes, Elsewhere, clips
<1>4. /\ pc[w] \in {"store", "register", "orig", "start"}
      /\ pc'[w] \in {"store", "register", "orig", "enqueue", "publish"}
  BY <1>1 DEF PersistFile, PersistRow, UpsertOriginal, FinalizeStamps, At, Goes, TypeInv, TypeOK
<1>5. Busy(u)' = {w} /\ Waits(u)' = {}
  <2>1. w \in Busy(u)'
    BY <1>1, <1>3, <1>4 DEF Busy, AtWork, Clip
  <2>2. ~EnqueueNext(w)
    BY <1>4 DEF EnqueueNext
  <2> QED BY <2>1, <2>2, RunFrame DEF WorkerStep
<1>6. status[u] # "ready"
  BY <1>1, <1>4 DEF Staged
<1>7. Staged(u)'
  BY <1>1, <1>3, <1>4, <1>5, <1>6 DEF Staged
<1>8. cur[w] # NoAsset => pc[w] = "register"
  BY <1>1, <1>4 DEF Current
<1>9. \A f \in Files : f # NoAsset
  BY ConstantAssumption DEF Files, Assets
<1>10. CASE PersistFile(w)
  <2>1. PICK r \in todo[w] : /\ SaveFile(<<u, r>>) /\ cur'[w] = <<u, r>>
                             /\ todo'[w] = todo[w] \ {r}
    BY <1>1, <1>10 DEF PersistFile, TypeInv, TypeOK
  <2>2. /\ pc[w] = "store" /\ pc'[w] = "register" /\ UNCHANGED <<rows, ready>>
        /\ files' = files \cup {<<u, r>>} /\ (gc # "idle" => newFiles' = newFiles \cup {<<u, r>>})
    BY <1>1, <1>10, <2>1 DEF PersistFile, SaveFile, assets, TypeInv, TypeOK
  <2>3. Kept(u)'
    <3>1. \A f \in Files : f[1] = u /\ f \in files' => Covered(f)'
      BY <1>1, <1>2, <1>3, <1>5, <1>8, <1>9, <2>1, <2>2 DEF HasMedia, Kept, Covered
    <3> QED BY <1>2, <1>3, <2>2, <3>1 DEF HasMedia, Kept, sweep
  <2>4. HasOriginal(u)'
    BY <1>2, <1>3, <2>2 DEF HasMedia, HasOriginal, Original
  <2>5. RunProduced(u, w)'
    BY <1>2, <2>1, <2>2 DEF RunProduced, Registered, At
  <2> QED BY <1>3, <1>5, <1>6, <1>7, <2>3, <2>4, <2>5 DEF Guarded, HasMedia, Produced
<1>11. CASE PersistRow(w)
  <2>1. cur[w] \in Files /\ cur[w][1] = u /\ cur[w] \in files
    BY <1>1, <1>2, <1>11, InHand DEF PersistRow, RunProduced
  <2>2. /\ pc[w] = "register" /\ pc'[w] = IF todo[w] = {} THEN "orig" ELSE "store"
        /\ rows' = rows \cup {cur[w]} /\ UNCHANGED <<ready, files, newFiles>> /\ todo'[w] = todo[w]
    BY <1>1, <1>11 DEF PersistRow, PutRow, store, TypeInv, TypeOK
  <2>3. Kept(u)'
    <3>1. \A f \in Files : f[1] = u /\ Covered(f) => Covered(f)'
      BY <1>1, <1>3, <2>2 DEF Covered
    <3> QED BY <1>2, <1>3, <2>1, <2>2, <3>1 DEF HasMedia, Kept, sweep
  <2>4. HasOriginal(u)'
    BY <1>2, <1>3, <2>2 DEF HasMedia, HasOriginal, Original
  <2>5. RunProduced(u, w)'
    BY <1>2, <2>2 DEF RunProduced, Registered, At
  <2> QED BY <1>3, <1>5, <1>6, <1>7, <2>3, <2>4, <2>5 DEF Guarded, HasMedia, Produced
<1>12. CASE UpsertOriginal(w)
  <2>1. Original(u) \in files
    BY <1>1, <1>2 DEF HasMedia, HasOriginal
  <2>2. /\ pc[w] = "orig" /\ pc'[w] = "enqueue" /\ rows' = rows \cup {Original(u)}
        /\ UNCHANGED <<ready, files, newFiles>>
    BY <1>1, <1>12 DEF UpsertOriginal, PutRow, Goes, store, TypeInv, TypeOK
  <2>3. Kept(u)'
    <3>1. \A f \in Files : f[1] = u /\ Covered(f) => Covered(f)'
      BY <1>1, <1>3, <1>8, <1>9, <2>2 DEF Covered
    <3> QED BY <1>2, <1>3, <2>1, <2>2, <3>1 DEF HasMedia, Kept, sweep
  <2>4. HasOriginal(u)'
    BY <1>2, <1>3, <2>2 DEF HasMedia, HasOriginal, Original
  <2>5. RunProduced(u, w)'
    BY <1>2, <2>2 DEF RunProduced, Registered, At, Original, Assets
  <2> QED BY <1>3, <1>5, <1>6, <1>7, <2>3, <2>4, <2>5 DEF Guarded, HasMedia, Produced
<1>13. CASE FinalizeStamps(w)
  <2>1. /\ At(w, "finalize", "start") /\ pc'[w] = "publish" /\ UNCHANGED <<rows, files, newFiles>>
        /\ ready' = ready \cup {f \in rows : f[1] = u}
    BY <1>1, <1>13 DEF FinalizeStamps, Goes, store, TypeInv, TypeOK
  <2>2. Kept(u)'
    <3>1. cur[w] = NoAsset
      BY <1>8, <2>1 DEF At
    <3> QED BY <1>1, <1>2, <1>3, <2>1, <3>1, KeptSame DEF HasMedia
  <2>3. HasOriginal(u)'
    BY <1>2, <1>3, <2>1 DEF HasMedia, HasOriginal, Original
  <2>4. RunProduced(u, w)'
    BY <1>2, <2>1 DEF RunProduced, Registered, Stamped, At
  <2> QED BY <1>3, <1>5, <1>6, <1>7, <2>2, <2>3, <2>4 DEF Guarded, HasMedia, Produced
<1> QED BY <1>10, <1>11, <1>12, <1>13

-----------------------------------------------------------------------------
(* The invariant and the theorems.                                         *)

\* The history grows, and deletion is for ever.
LEMMA HistoryGrows ==
  ASSUME [Next]_vars
  PROVE  harmed \subseteq harmed' /\ gone \subseteq gone' /\ unmarked \subseteq unmarked'
<1> DEFINE Grows == harmed \subseteq harmed' /\ gone \subseteq gone' /\ unmarked \subseteq unmarked'
<1>1. ASSUME NEW x \in Uploads, UploadActs(x) PROVE Grows
  BY <1>1 DEF UploadActs, UploadStep, UploadCheck, UploadDuplicate, UploadStore, UploadInsert, UploadEnqueue,
         UploadUndo, UploadFailClip, UploadRegister, UploadErrs, UploadRegisterErrs, UploadUndoErrs,
         UploadFailErrs, LeavesUnmarked, Harm, SetStatus, MarkFailed, clips, history
<1>2. ASSUME NEW w \in Workers, WorkerStep(w) PROVE Grows
  BY <1>2 DEF WorkerStep, ProbeAccept, ProbeReject, EnqueueNext, RejectFails, RejectDiscards, Transcode,
         TranscodeFails, PersistFile, PersistRow, UpsertOriginal, FailDropsRows, FailUnlinks, FailsClip,
         FinalizeStamps, FinalizePublishes, AnnounceCheck, Announce, Settle, BumpFailsClip,
         SetStatus, MarkFailed, clips, history
<1>3. ASSUME NEW w \in Workers,
             \/ \E j \in Jobs : Claim(w, j)
             \/ ProbeErrs(w) \/ TranscodeErrs(w) \/ FinalizeErrs(w) \/ SettleErrs(w) \/ TimesOut(w)
             \/ DiscardErrs(w) \/ DropErrs(w) \/ UnlinkErrs(w) \/ MarkErrs(w)
      PROVE  Grows
  BY <1>3 DEF Claim, ProbeErrs, TranscodeErrs, FinalizeErrs, SettleErrs, TimesOut, DiscardErrs, DropErrs,
         UnlinkErrs, MarkErrs, LeavesUnmarked, Harm, clips, history
<1>4. ASSUME (\E j \in Jobs : Reap(j)) \/ AccountDelete \/ AccountStep \/ Crash PROVE Grows
  BY <1>4 DEF Reap, LeavesUnmarked, AccountDelete, AccountStep, AccountSelect, AccountUnlink,
              AccountErase, AccountFrame, Crash, Harm, SetStatus, MarkFailed, clips, history
<1>5. ASSUME GcStep \/ (\E f \in Files : Ages(f)) \/ UNCHANGED vars PROVE Grows
  BY <1>5 DEF GcStep, GcReferenced, GcSelect, GcDropRow, GcWalk, GcEnd, GcLook, GcUnlink, SweepFrame, Ages,
              vars, clips, history
<1> QED BY <1>1, <1>2, <1>3, <1>4, <1>5 DEF Next, UploadActs

\* Harm and deletion are for ever.
LEMMA GoodBefore ==
  ASSUME NEW u \in Uploads, [Next]_vars, Good(u)'
  PROVE  Good(u)
BY HistoryGrows DEF Good

\* A step about a good clip, whoever takes it.
LEMMA GuardedStep ==
  ASSUME TypeInv, TypeInv', MediaInv, NEW u \in Uploads, Good(u)', OneToken(u), OneToken(u)', [Next]_vars
  PROVE  Guarded(u)'
<1>1. UniqueBytes /\ Current /\ Young /\ Unharmed(u) /\ Guarded(u) /\ Good(u) /\ unmarked \subseteq unmarked'
  BY GoodBefore, HistoryGrows DEF MediaInv
<1>2. Healthy(u) => Kept(u)
  BY <1>1 DEF Guarded, HasMedia
<1>3. ASSUME NEW x \in Uploads, UploadActs(x) PROVE Guarded(u)'
  <2>1. CASE x # u
    BY <1>1, <1>3, <2>1, OtherUpload, UploadMedia, MediaOf, Frame
  <2>2. CASE x = u
    <3>1. ~UploadRegisterErrs(u)
      BY DEF UploadRegisterErrs, Harm, Good
    <3> QED BY <1>1, <1>3, <2>2, <3>1, UploadEnds, UploadGoesOn, UploadRegisters
               DEF UploadActs, UploadStep
  <2> QED BY <2>1, <2>2
<1>4. ASSUME NEW w \in Workers, NEW j \in Jobs, Claim(w, j) PROVE Guarded(u)'
  <2>1. CASE j[1] # u
    BY <1>1, <1>2, <1>4, <2>1, OtherClaim, OtherMedia, Frame
  <2>2. CASE j[1] = u
    BY <1>1, <1>4, <2>2, RunBegins
  <2> QED BY <2>1, <2>2
<1>5. ASSUME NEW w \in Workers,
             RunActs(w)
      PROVE  Guarded(u)'
  <2>1. CASE Clip(w) # u
    BY <1>1, <1>5, <2>1, OtherRun, WorkerMedia, MediaOf, Frame
  <2>2. CASE Settle(w)
    BY <1>1, <1>2, <1>5, <2>2, OtherRun, OtherMedia, Frame
  <2>3. CASE Clip(w) = u /\ ~Settle(w)
    <3>1. ~SettleErrs(w) /\ ~TimesOut(w)
      BY <2>3 DEF SettleErrs, TimesOut, Harm, Good
    <3>2. ~BumpFailsClip(w) /\ pc[w] # "bumped"
      BY <1>1, <2>3 DEF BumpFailsClip, Unharmed, Good
    <3>3. w \in Busy(u)
      BY <1>5, <2>3, <3>1, <3>2
         DEF Busy, AtWork, WorkerStep, ProbeAccept, ProbeReject, EnqueueNext, RejectFails, RejectDiscards,
             Transcode, TranscodeFails, PersistFile, PersistRow, UpsertOriginal, FailDropsRows, FailUnlinks,
             FailsClip, FinalizeStamps, FinalizePublishes, AnnounceCheck, Announce, ProbeErrs, TranscodeErrs,
             FinalizeErrs, RunActs, DiscardErrs, DropErrs, UnlinkErrs, MarkErrs, At
    <3>4. FinalizeErrs(w) => pc[w] \in {"start", "publish"} \/ pc[w] \in {"announce", "announcing"}
      BY DEF FinalizeErrs, At
    <3> QED BY <1>1, <1>5, <2>3, <3>1, <3>2, <3>3, <3>4,
               RunGivesUp, RunGoesOn, RunHandsOn, RunIsOver, RunProduces DEF RunActs, WorkerStep
  <2> QED BY <2>1, <2>2, <2>3
<1>6. ASSUME GcReferenced \/ GcSelect PROVE Guarded(u)'
  BY <1>1, <1>6, OtherTask, Snapshots DEF GcStep
<1>7. ASSUME \/ \E j \in Jobs : Reap(j)
             \/ AccountDelete \/ AccountStep \/ (\E f \in Files : Ages(f)) \/ Crash \/ UNCHANGED vars
             \/ GcDropRow \/ GcWalk \/ GcEnd \/ \E f \in Files : GcLook(f) \/ GcUnlink(f)
      PROVE  Guarded(u)'
  <2>1. SameControl(u)
    BY <1>1, <1>7, OtherTask DEF GcStep
  <2>2. Healthy(u) => SameMedia(u)
    BY <1>1, <1>2, <1>7, OtherMedia
  <2> QED BY <1>1, <2>1, <2>2, Frame
<1> QED BY <1>3, <1>4, <1>5, <1>6, <1>7 DEF Next, UploadActs, RunActs, GcStep

\* At the start there is nothing to lose.
LEMMA InitMedia == Init => MediaInv
<1> SUFFICES ASSUME Init PROVE MediaInv
  OBVIOUS
<1>1. UniqueBytes /\ Current
  BY DEF Init, UniqueBytes, InIndex, Current
<1>2. Young
  BY DEF Init, Young
<1>3. ASSUME NEW u \in Uploads PROVE Unharmed(u) /\ Guarded(u)
  <2>1. Waits(u) = {} /\ Busy(u) = {}
    BY DEF Init, Waits, Busy, AtWork
  <2>2. Unharmed(u)
    BY DEF Init, Unharmed
  <2>3. Staged(u)
    BY <2>1 DEF Init, Staged
  <2>4. HasMedia(u)
    BY <2>1, ConstantAssumption DEF Init, HasMedia, Kept, HasOriginal, Produced, Files, Assets
  <2> QED BY <2>2, <2>3, <2>4 DEF Guarded
<1> QED BY <1>1, <1>2, <1>3 DEF MediaInv

\* The token of every clip that lost no run.
Tokens == \A u \in Uploads : losses[u] = 0 => OneToken(u)

\* Every step keeps the invariant, given the token of each clip.
LEMMA MediaStep ==
  TypeInv /\ TypeInv' /\ Tokens /\ Tokens' /\ MediaInv /\ [Next]_vars => MediaInv'
<1> SUFFICES ASSUME TypeInv, TypeInv', Tokens, Tokens', MediaInv, [Next]_vars PROVE MediaInv'
  OBVIOUS
<1>1. UniqueBytes' /\ Current' /\ Young'
  BY UniqueStep, CurrentStep, YoungStep DEF MediaInv
<1>2. ASSUME NEW u \in Uploads PROVE Unharmed(u)' /\ Guarded(u)'
  <2>1. Unharmed(u) /\ Unharmed(u)'
    BY UnharmedStep DEF MediaInv
  <2>2. ASSUME Good(u)' PROVE Guarded(u)'
    <3>1. losses[u] = 0 /\ losses'[u] = 0
      BY <2>1, <2>2, GoodBefore DEF Good, Unharmed
    <3> QED BY <2>2, <3>1, GuardedStep DEF Tokens
  <2>3. ~Good(u)' => Guarded(u)'
    BY DEF Guarded
  <2> QED BY <2>1, <2>2, <2>3
<1> QED BY <1>1, <1>2 DEF MediaInv

\* The two invariants together hold throughout.
LEMMA MediaInvariant == Spec => [](TypeInv /\ MediaInv)
<1>1. TypeInv /\ Budget => Tokens
  BY TokenIsOne DEF Tokens
<1> QED BY <1>1, InitType, TypeStep, InitBudget, BudgetStep, InitMedia, MediaStep, PTL DEF Spec

\* ReadyHasMedia: mark_ready shows a clip none of whose runs was interrupted
\* only when its original and all its renditions are on disk with stamped
\* rows, and neither the collector nor another clip takes them away.
THEOREM ReadyIsPlayable == Spec => []ReadyHasMedia
<1>1. TypeInv /\ MediaInv => ReadyHasMedia
  <2> SUFFICES ASSUME TypeInv, MediaInv, NEW u \in Uploads \ (harmed \cup gone), status[u] = "ready", NEW r \in Assets
               PROVE  <<u, r>> \in files \cap ready
    BY DEF ReadyHasMedia
  <2>1. HasMedia(u)
    BY DEF MediaInv, Guarded, Healthy, Good
  <2>2. <<u, r>> \in ready /\ <<u, r>> \in rows /\ <<u, r>> \in Files
    BY <2>1 DEF HasMedia, Produced, Stamped, TypeInv, TypeOK, Files
  <2> QED BY <2>1, <2>2 DEF HasMedia, Kept
<1> QED BY <1>1, MediaInvariant, PTL

\* OriginalSpared: media_gc and the other clips leave the original of an
\* undisturbed clip alone until its own request or run gives it up; a clip
\* whose mark_failed failed was given up and is pending all the same.
THEOREM OriginalIsSpared == Spec => []OriginalSpared
<1>1. TypeInv /\ MediaInv => OriginalSpared
  <2> SUFFICES ASSUME TypeInv, MediaInv, NEW u \in Uploads \ (harmed \cup gone \cup unmarked),
                      status[u] \in {"pending", "processing"}, up[u] \notin {"undo", "undone"},
                      \A w \in Workers : run[w] # NoJob /\ Clip(w) = u => pc[w] \notin {"unlink", "fail", "discard"}
               PROVE  Original(u) \in files
    BY DEF OriginalSpared
  <2>1. Good(u) /\ Guarded(u) /\ Staged(u)
    BY DEF MediaInv, Guarded, Good
  <2>2. \A w \in Busy(u) : ~GivesUp(w)
    BY ConstantAssumption DEF Busy, AtWork, GivesUp, TypeInv, WorkerOK, Jobs, Stages
  <2>3. Carried(u)
    BY <2>1, <2>2 DEF Staged, Carried, TypeInv, TypeOK, UploadPhases
  <2>4. HasMedia(u)
    BY <2>1, <2>3 DEF Guarded, Healthy
  <2> QED BY <2>1, <2>4 DEF HasMedia, HasOriginal, Staged
<1> QED BY <1>1, MediaInvariant, PTL

=============================================================================
