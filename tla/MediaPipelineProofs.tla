------------------------ MODULE MediaPipelineProofs ------------------------
(***************************************************************************)
(* Safety of the media pipeline for any set of uploads, any hashes, any    *)
(* finite pool of workers, any max_attempts and any number of faults.      *)
(*                                                                         *)
(* A clip is announced once, and once more at most per loss, because its   *)
(* pipeline is one token: the upload carries it until it enqueues the      *)
(* probe, then a queued row, then the worker that claimed it, and so on to *)
(* the announcement.  A run whose end the queue does not know of doubles   *)
(* the token, and is counted as a loss in the same step.                   *)
(***************************************************************************)
EXTENDS MediaPipeline, FiniteSetTheorems, FunctionTheorems, TLAPS

\* A worker that is not idle has a job, and one that registers an asset has
\* that asset in its hands.
WorkerOK ==
  \A w \in Workers : /\ pc[w] # "idle" => run[w] \in Jobs
                     /\ pc[w] = "register" => cur[w] \in Files

TypeInv == TypeOK /\ WorkerOK

-----------------------------------------------------------------------------
(* Type correctness.                                                       *)

\* The pool is finite, so are its parts.
LEMMA PoolFinite ==
  ASSUME NEW T \in SUBSET Workers
  PROVE  IsFiniteSet(T) /\ Cardinality(T) \in Nat
BY ConstantAssumption, FS_Subset, FS_CardinalityType

\* The empty tables and the idle pool are well-formed.
LEMMA InitType == Init => TypeInv
BY ConstantAssumption
   DEF Init, TypeInv, TypeOK, WorkerOK, Files, Assets, Jobs, Stages, Statuses, UploadPhases, WorkerPhases

\* Every step keeps the types: one step of the proof per action.
LEMMA TypeStep == TypeInv /\ [Next]_vars => TypeInv'
<1> SUFFICES ASSUME TypeInv, [Next]_vars PROVE TypeInv'
  OBVIOUS
<1> USE ConstantAssumption
    DEF TypeInv, TypeOK, WorkerOK, clips, assets, store, jobs, worker, account, sweep, history, faults,
        Files, Assets, Jobs, Stages, Statuses, UploadPhases, WorkerPhases
<1>1. CASE UNCHANGED vars
  BY <1>1 DEF vars
<1>2. ASSUME NEW u \in Uploads, UploadCheck(u) PROVE TypeInv'
  BY <1>2 DEF UploadCheck, Answers
<1>3. ASSUME NEW u \in Uploads, UploadDuplicate(u) PROVE TypeInv'
  BY <1>3 DEF UploadDuplicate, Answers
<1>4. ASSUME NEW u \in Uploads, UploadStore(u) PROVE TypeInv'
  BY <1>4 DEF UploadStore, Original, SaveFile, Answers
<1>5. ASSUME NEW u \in Uploads, UploadInsert(u) PROVE TypeInv'
  <2>1. status' \in [Uploads -> Statuses] /\ UNCHANGED gone
    BY <1>5 DEF UploadInsert, SetStatus
  <2>2. \E p \in {"inserted", "undo"} : Answers(u, p)
    BY <1>5 DEF UploadInsert
  <2> QED BY <1>5, <2>1, <2>2 DEF UploadInsert, Answers
<1>6. ASSUME NEW u \in Uploads, UploadEnqueue(u) PROVE TypeInv'
  BY <1>6 DEF UploadEnqueue, Enqueue, Answers
<1>7. ASSUME NEW u \in Uploads, UploadUndo(u) PROVE TypeInv'
  BY <1>7 DEF UploadUndo, Original, DeleteFile, Answers
<1>8. ASSUME NEW u \in Uploads, UploadFailClip(u) PROVE TypeInv'
  BY <1>8 DEF UploadFailClip, SetStatus, MarkFailed, Answers
<1>9. ASSUME NEW u \in Uploads, UploadRegister(u) PROVE TypeInv'
  BY <1>9 DEF UploadRegister, Original, PutRow, Answers
<1>10. ASSUME NEW u \in Uploads, UploadErrs(u) PROVE TypeInv'
  BY <1>10 DEF UploadErrs, Errs, Answers
<1>11. ASSUME NEW u \in Uploads, UploadRegisterErrs(u) PROVE TypeInv'
  BY <1>11 DEF UploadRegisterErrs, Errs, Harm, Answers
<1>12. ASSUME NEW u \in Uploads, UploadUndoErrs(u) PROVE TypeInv'
  BY <1>12 DEF UploadUndoErrs, Errs, Answers
<1>13. ASSUME NEW u \in Uploads, UploadFailErrs(u) PROVE TypeInv'
  BY <1>13 DEF UploadFailErrs, Errs, LeavesUnmarked, Answers
<1>14. ASSUME NEW w \in Workers, NEW j \in Jobs, Claim(w, j) PROVE TypeInv'
  BY <1>14 DEF Claim, Elsewhere
<1>15. ASSUME NEW w \in Workers, ProbeAccept(w) PROVE TypeInv'
  <2>1. run[w] \in Jobs
    BY <1>15 DEF ProbeAccept, At
  <2>2. CASE Admits(Clip(w))
    <3>1. /\ SetStatus(Clip(w), "processing") /\ Goes(w, "enqueue")
          /\ UNCHANGED <<assets, store, announced, jobs, history, faults>>
      BY <1>15, <2>2 DEF ProbeAccept
    <3>2. status' \in [Uploads -> Statuses] /\ UNCHANGED gone
      BY <2>1, <3>1 DEF SetStatus, Clip
    <3>3. WorkerOK' /\ pc' \in [Workers -> WorkerPhases] /\ UNCHANGED <<run, todo, cur>>
      BY <2>1, <3>1 DEF Goes
    <3> QED BY <3>1, <3>2, <3>3 DEF Goes, Elsewhere
  <2>3. CASE ~Admits(Clip(w))
    <3>1. Idles(w) /\ UNCHANGED <<clips, assets, store, announced, jobs, history, faults>>
      BY <1>15, <2>3 DEF ProbeAccept
    <3> QED BY <3>1 DEF Idles, Elsewhere
  <2> QED BY <2>2, <2>3
<1>16. ASSUME NEW w \in Workers, ProbeReject(w) PROVE TypeInv'
  BY <1>16 DEF ProbeReject, At, Elsewhere, Goes
<1>17. ASSUME NEW w \in Workers, EnqueueNext(w) PROVE TypeInv'
  BY <1>17 DEF EnqueueNext, Enqueue, Clip, Elsewhere, Goes
<1>18. ASSUME NEW w \in Workers, RejectFails(w) PROVE TypeInv'
  BY <1>18 DEF RejectFails, SetStatus, MarkFailed, Clip, Elsewhere, Goes
<1>19. ASSUME NEW w \in Workers, RejectDiscards(w) PROVE TypeInv'
  BY <1>19 DEF RejectDiscards, Original, DeleteFile, Clip, Elsewhere, Goes
<1>20. ASSUME NEW w \in Workers, Transcode(w) PROVE TypeInv'
  BY <1>20 DEF Transcode, Original, Clip, At, Elsewhere
<1>21. ASSUME NEW w \in Workers, TranscodeFails(w) PROVE TypeInv'
  BY <1>21 DEF TranscodeFails, At, Elsewhere, Goes
<1>22. ASSUME NEW w \in Workers, PersistFile(w) PROVE TypeInv'
  BY <1>22 DEF PersistFile, SaveFile, Clip, Elsewhere
<1>23. ASSUME NEW w \in Workers, PersistRow(w) PROVE TypeInv'
  BY <1>23 DEF PersistRow, PutRow, Elsewhere
<1>24. ASSUME NEW w \in Workers, UpsertOriginal(w) PROVE TypeInv'
  BY <1>24 DEF UpsertOriginal, Original, PutRow, Clip, Elsewhere, Goes
<1>25. ASSUME NEW w \in Workers, FailDropsRows(w) PROVE TypeInv'
  BY <1>25 DEF FailDropsRows, DropRows, Clip, Elsewhere
<1>26. ASSUME NEW w \in Workers, FailUnlinks(w) PROVE TypeInv'
  BY <1>26 DEF FailUnlinks, DeleteFile, Clip, Elsewhere
<1>27. ASSUME NEW w \in Workers, FailsClip(w) PROVE TypeInv'
  BY <1>27 DEF FailsClip, SetStatus, MarkFailed, Clip, Elsewhere, Goes
<1>28. ASSUME NEW w \in Workers, FinalizeStamps(w) PROVE TypeInv'
  BY <1>28 DEF FinalizeStamps, Clip, At, Elsewhere, Goes
<1>29. ASSUME NEW w \in Workers, FinalizePublishes(w) PROVE TypeInv'
  <2>1. run[w] \in Jobs
    BY <1>29 DEF FinalizePublishes
  <2>2. status' \in [Uploads -> Statuses] /\ UNCHANGED gone
    BY <1>29, <2>1 DEF FinalizePublishes, SetStatus, Clip
  <2>3. \E p \in {"announce", "fail"} : Goes(w, p)
    BY <1>29 DEF FinalizePublishes
  <2> QED BY <1>29, <2>1, <2>2, <2>3 DEF FinalizePublishes, Goes, Elsewhere
<1>30. ASSUME NEW w \in Workers, AnnounceCheck(w) PROVE TypeInv'
  BY <1>30 DEF AnnounceCheck, Clip, Elsewhere, Goes
<1>31. ASSUME NEW w \in Workers, Announce(w) PROVE TypeInv'
  BY <1>31 DEF Announce, Clip, Elsewhere, Goes
<1>32. ASSUME NEW w \in Workers, Settle(w) PROVE TypeInv'
  BY <1>32 DEF Settle, Elsewhere, Idles
<1>33. ASSUME NEW w \in Workers, BumpFailsClip(w) PROVE TypeInv'
  BY <1>33 DEF BumpFailsClip, SetStatus, MarkFailed, Clip, Elsewhere, Idles
<1>34. ASSUME NEW w \in Workers, ProbeErrs(w) PROVE TypeInv'
  BY <1>34 DEF ProbeErrs, Errs, At, Elsewhere, Goes
<1>35. ASSUME NEW w \in Workers, TranscodeErrs(w) PROVE TypeInv'
  BY <1>35 DEF TranscodeErrs, Errs, Elsewhere, Goes
<1>36. ASSUME NEW w \in Workers, FinalizeErrs(w) PROVE TypeInv'
  BY <1>36 DEF FinalizeErrs, Errs, At, Elsewhere, Goes
<1>37. ASSUME NEW w \in Workers, SettleErrs(w) PROVE TypeInv'
  BY <1>37 DEF SettleErrs, Errs, Harm, Clip, Elsewhere, Idles
<1>38. ASSUME NEW w \in Workers, DiscardErrs(w) PROVE TypeInv'
  BY <1>38 DEF DiscardErrs, Errs, Elsewhere, Goes
<1>39. ASSUME NEW w \in Workers, DropErrs(w) PROVE TypeInv'
  BY <1>39 DEF DropErrs, Errs, Elsewhere
<1>40. ASSUME NEW w \in Workers, UnlinkErrs(w) PROVE TypeInv'
  BY <1>40 DEF UnlinkErrs, Errs, Elsewhere
<1>41. ASSUME NEW w \in Workers, MarkErrs(w) PROVE TypeInv'
  <2>1. run[w] \in Jobs
    BY <1>41 DEF MarkErrs
  <2>2. unmarked' \subseteq Uploads /\ errors' \in Nat
    BY <1>41, <2>1 DEF MarkErrs, LeavesUnmarked, Errs, Clip
  <2>3. CASE Idles(w)
    BY <1>41, <2>2, <2>3 DEF MarkErrs, LeavesUnmarked, Errs, Idles, Elsewhere
  <2>4. CASE \E p \in {"discard", "settle"} : Goes(w, p)
    BY <1>41, <2>1, <2>2, <2>4 DEF MarkErrs, LeavesUnmarked, Errs, Goes, Elsewhere
  <2> QED BY <1>41, <2>3, <2>4 DEF MarkErrs
<1>42. ASSUME NEW w \in Workers, TimesOut(w) PROVE TypeInv'
  BY <1>42 DEF TimesOut, Harm, Clip, Running, Elsewhere, Dead, Retried
<1>43. ASSUME NEW j \in Jobs, Reap(j) PROVE TypeInv'
  BY <1>43 DEF Reap, SetStatus, MarkFailed, Errs, LeavesUnmarked, Dead, Retried
<1>44. CASE Crash
  <2>1. abandoned' \in [Jobs -> Nat] /\ losses' \in [Uploads -> Nat]
    <3>1. \A j \in Jobs : Cardinality({w \in Workers : Running(w) /\ run[w] = j}) \in Nat
      BY PoolFinite
    <3>2. \A u \in Uploads : Cardinality({w \in Workers : Running(w) /\ Clip(w) = u}) \in Nat
      BY PoolFinite
    <3> HIDE DEF Jobs
    <3>3. abandoned' \in [Jobs -> Nat]
      BY <1>44, <3>1 DEF Crash
    <3> QED BY <1>44, <3>2, <3>3 DEF Crash
  <2>2. harmed' \subseteq Uploads
    BY <1>44 DEF Crash, Clip
  <2> QED BY <1>44, <2>1, <2>2 DEF Crash
<1>45. CASE AccountDelete
  BY <1>45 DEF AccountDelete, AccountFrame
<1>46. CASE AccountSelect
  BY <1>46 DEF AccountSelect, AccountFrame
<1>47. CASE AccountErase
  BY <1>47 DEF AccountErase, AccountFrame
<1>48. CASE GcReferenced
  BY <1>48 DEF GcReferenced, SweepFrame
<1>49. CASE GcSelect
  BY <1>49 DEF GcSelect, SweepFrame
<1>50. CASE GcDropRow
  BY <1>50 DEF GcDropRow, DropRows, SweepFrame
<1>51. CASE GcWalk
  BY <1>51 DEF GcWalk, SweepFrame
<1>52. CASE GcEnd
  BY <1>52 DEF GcEnd, SweepFrame
<1>53. ASSUME NEW f \in Files, AccountUnlink(f) PROVE TypeInv'
  BY <1>53 DEF AccountUnlink, DeleteFile, Harm, AccountFrame
<1>54. ASSUME NEW f \in Files, GcLook(f) PROVE TypeInv'
  BY <1>54 DEF GcLook, DeleteFile, SweepFrame
<1>55. ASSUME NEW f \in Files, GcUnlink(f) PROVE TypeInv'
  BY <1>55 DEF GcUnlink, DeleteFile, SweepFrame
<1>56. ASSUME NEW f \in Files, Ages(f) PROVE TypeInv'
  BY <1>56 DEF Ages
<1> HIDE DEF TypeInv, TypeOK, WorkerOK, Files, Assets, Jobs
<1>57. ASSUME NEW u \in Uploads, UploadStep(u) \/ UploadErrs(u) \/ UploadRegisterErrs(u) \/ UploadUndoErrs(u) \/ UploadFailErrs(u)
      PROVE  TypeInv'
  BY <1>57, <1>2, <1>3, <1>4, <1>5, <1>6, <1>7, <1>8, <1>9, <1>10, <1>11, <1>12, <1>13 DEF
     UploadStep
<1>58. ASSUME NEW w \in Workers, WorkerStep(w) PROVE TypeInv'
  BY <1>58, <1>15, <1>16, <1>17, <1>18, <1>19, <1>20, <1>21, <1>22, <1>23, <1>24, <1>25, <1>26,
     <1>27, <1>28, <1>29, <1>30, <1>31, <1>32, <1>33, <1>34, <1>35, <1>36, <1>37, <1>38, <1>39,
     <1>40, <1>41, <1>42 DEF WorkerStep
<1> QED
  BY <1>1, <1>14, <1>34, <1>35, <1>36, <1>37, <1>38, <1>39, <1>40, <1>41, <1>42, <1>43, <1>44,
     <1>45, <1>46, <1>47, <1>48, <1>49, <1>50, <1>51, <1>52, <1>53, <1>54, <1>55, <1>56, <1>57,
     <1>58 DEF Next, AccountStep, GcStep

-----------------------------------------------------------------------------
(* One announcement, and one per loss.  The account of a clip: what was    *)
(* announced, plus one for the upload that has not enqueued its job, for   *)
(* each job waiting in the queue, for each row left running, and for each  *)
(* worker that has not come to the end of its job.                         *)

\* The rows of clip u in a bag of jobs, numbered.
Waiting(bag, u) == {t \in Jobs \X Nat : t[1][1] = u /\ 1 <= t[2] /\ t[2] <= bag[t[1]]}

\* The upload of u has yet to enqueue its job; who works on u.
Coming(u) == IF up[u] \notin {"enqueued", "done"} THEN 1 ELSE 0

AtWork(w) == pc[w] \notin {"idle", "bumped", "settle"}
Busy(u) == {w \in Workers : AtWork(w) /\ Clip(w) = u}

\* The account of u, and of everyone.
BudgetKept(u) ==
  /\ IsFiniteSet(Waiting(queued, u)) /\ IsFiniteSet(Waiting(abandoned, u))
  /\ announced[u] + Coming(u) + Cardinality(Waiting(queued, u)) + Cardinality(Waiting(abandoned, u))
       + Cardinality(Busy(u)) <= 1 + losses[u]

Budget == \A u \in Uploads : BudgetKept(u)

\* A row of j enters or leaves a bag of jobs.
Added(bag, j, next) == next = [bag EXCEPT ![j] = @ + 1]
Taken(bag, j, next) == bag[j] > 0 /\ next = [bag EXCEPT ![j] = @ - 1]

\* One more row of j in a bag is one more row of its clip, and of no other.
LEMMA OneMore ==
  ASSUME NEW bag \in [Jobs -> Nat], NEW j \in Jobs, NEW u \in Uploads, IsFiniteSet(Waiting(bag, u)),
         NEW next, Added(bag, j, next)
  PROVE  /\ IsFiniteSet(Waiting(next, u))
         /\ Cardinality(Waiting(next, u)) =
              Cardinality(Waiting(bag, u)) + (IF j[1] = u THEN 1 ELSE 0)
<1> USE DEF Added
<1>1. CASE j[1] # u
  <2>1. Waiting(next, u) = Waiting(bag, u)
    BY <1>1 DEF Waiting
  <2>2. Cardinality(Waiting(bag, u)) \in Nat
    BY FS_CardinalityType
  <2> QED BY <1>1, <2>1, <2>2
<1>2. CASE j[1] = u
  <2> DEFINE t == <<j, bag[j] + 1>>
  <2>1. Waiting(next, u) = Waiting(bag, u) \cup {t}
    <3>1. t \in Waiting(next, u)
      BY <1>2 DEF Waiting
    <3>2. \A s \in Waiting(bag, u) : s \in Waiting(next, u)
      BY DEF Waiting
    <3>3. \A s \in Waiting(next, u) : s \in Waiting(bag, u) \/ s = t
      BY DEF Waiting
    <3> QED BY <3>1, <3>2, <3>3
  <2>2. t \notin Waiting(bag, u)
    BY DEF Waiting
  <2> HIDE DEF t
  <2>3. Cardinality(Waiting(bag, u) \cup {t}) = Cardinality(Waiting(bag, u)) + 1
    BY <2>2, FS_AddElement
  <2>4. IsFiniteSet(Waiting(bag, u) \cup {t})
    BY FS_AddElement
  <2> QED BY <1>2, <2>1, <2>3, <2>4
<1> QED BY <1>1, <1>2

\* One row of j less is one row of its clip less, and of no other.
LEMMA OneLess ==
  ASSUME NEW bag \in [Jobs -> Nat], NEW j \in Jobs, NEW u \in Uploads, IsFiniteSet(Waiting(bag, u)),
         NEW next, Taken(bag, j, next)
  PROVE  /\ IsFiniteSet(Waiting(next, u))
         /\ Cardinality(Waiting(next, u)) =
              Cardinality(Waiting(bag, u)) - (IF j[1] = u THEN 1 ELSE 0)
<1> USE DEF Taken
<1>1. CASE j[1] # u
  <2>1. Waiting(next, u) = Waiting(bag, u)
    BY <1>1 DEF Waiting
  <2>2. Cardinality(Waiting(bag, u)) \in Nat
    BY FS_CardinalityType
  <2> QED BY <1>1, <2>1, <2>2
<1>2. CASE j[1] = u
  <2> DEFINE t == <<j, bag[j]>>
  <2>1. Waiting(next, u) = Waiting(bag, u) \ {t}
    <3>1. \A s \in Waiting(next, u) : s \in Waiting(bag, u) /\ s # t
      BY DEF Waiting
    <3>2. \A s \in Waiting(bag, u) : s = t \/ s \in Waiting(next, u)
      BY DEF Waiting
    <3> QED BY <3>1, <3>2
  <2>2. t \in Waiting(bag, u)
    BY <1>2 DEF Waiting
  <2> HIDE DEF t
  <2>3. Cardinality(Waiting(bag, u) \ {t}) = Cardinality(Waiting(bag, u)) - 1
    BY <2>2, FS_RemoveElement
  <2>4. IsFiniteSet(Waiting(bag, u) \ {t})
    BY FS_RemoveElement
  <2> QED BY <1>2, <2>1, <2>3, <2>4
<1> QED BY <1>1, <1>2

\* A finite set without one of its elements is smaller.
LEMMA SmallerSet ==
  ASSUME NEW S, IsFiniteSet(S), NEW x \in S, NEW T \in SUBSET (S \ {x})
  PROVE  Cardinality(T) <= Cardinality(S) - 1
<1>1. IsFiniteSet(S \ {x}) /\ Cardinality(S \ {x}) = Cardinality(S) - 1
  BY FS_RemoveElement
<1> QED BY <1>1, FS_Subset

\* One more element adds one at most.
LEMMA LargerSet ==
  ASSUME NEW S, IsFiniteSet(S), NEW x, NEW T \in SUBSET (S \cup {x})
  PROVE  Cardinality(T) <= Cardinality(S) + 1
<1>1. Cardinality(S) \in Nat
  BY FS_CardinalityType
<1>2. IsFiniteSet(S \cup {x}) /\ Cardinality(S \cup {x}) <= Cardinality(S) + 1
  BY <1>1, FS_AddElement
<1>3. Cardinality(T) \in Nat /\ Cardinality(T) <= Cardinality(S \cup {x})
  BY <1>2, FS_Subset, FS_CardinalityType
<1>4. Cardinality(S \cup {x}) \in Nat
  BY <1>2, FS_CardinalityType
<1> QED BY <1>1, <1>2, <1>3, <1>4

\* The elements of a finite set can be numbered.
LEMMA Numbering ==
  ASSUME NEW S, IsFiniteSet(S)
  PROVE  \E f \in [1 .. Cardinality(S) -> S] : \A m, n \in 1 .. Cardinality(S) : f[m] = f[n] => m = n
<1>1. PICK f : f \in Bijection(1 .. Cardinality(S), S)
  BY FS_CardinalityType DEF ExistsBijection
<1>2. f \in Injection(1 .. Cardinality(S), S)
  BY <1>1 DEF Bijection
<1> DEFINE D == 1 .. Cardinality(S)
<1>3. f \in Injection(D, S)
  BY <1>2
<1> HIDE DEF D
<1>4. f \in [D -> S] /\ \A m, n \in D : f[m] = f[n] => m = n
  BY <1>3, Fun_InjectionProperties
<1> QED BY <1>4 DEF D

\* A restart leaves one running row behind per worker it stops.
LEMMA LeftBehind ==
  ASSUME NEW bag \in [Jobs -> Nat], NEW u \in Uploads, IsFiniteSet(Waiting(bag, u)),
         NEW Stopped \in SUBSET Workers, NEW job \in [Stopped -> Jobs],
         NEW next, next = [j \in Jobs |-> bag[j] + Cardinality({w \in Stopped : job[w] = j})]
  PROVE  /\ IsFiniteSet(Waiting(next, u))
         /\ Cardinality(Waiting(next, u)) <=
              Cardinality(Waiting(bag, u)) + Cardinality({w \in Stopped : job[w][1] = u})
<1> DEFINE Of(j) == {w \in Stopped : job[w] = j}
           Mine == {w \in Stopped : job[w][1] = u}
           Fresh == {t \in Jobs \X Nat : t[1][1] = u /\ bag[t[1]] < t[2] /\ t[2] <= bag[t[1]] + Cardinality(Of(t[1]))}
           Numbers(j, f) == /\ f \in [1 .. Cardinality(Of(j)) -> Of(j)]
                            /\ \A m, n \in 1 .. Cardinality(Of(j)) : f[m] = f[n] => m = n
           Worker(j) == CHOOSE f : Numbers(j, f)
           g == [t \in Fresh |-> Worker(t[1])[t[2] - bag[t[1]]]]
<1>1. \A j \in Jobs : IsFiniteSet(Of(j)) /\ Cardinality(Of(j)) \in Nat
  BY PoolFinite
<1>2. IsFiniteSet(Mine) /\ Cardinality(Mine) \in Nat
  BY PoolFinite
<1>3. ASSUME NEW j \in Jobs PROVE Numbers(j, Worker(j))
  <2>1. \E f : Numbers(j, f)
    <3>1. IsFiniteSet(Of(j))
      BY <1>1
    <3> HIDE DEF Of
    <3> QED BY <3>1, Numbering
  <2> HIDE DEF Numbers
  <2> QED BY <2>1
<1>4. g \in Injection(Fresh, Mine)
  <2>1. ASSUME NEW t \in Fresh
        PROVE  /\ t[1] \in Jobs /\ t[1][1] = u
               /\ t[2] - bag[t[1]] \in 1 .. Cardinality(Of(t[1]))
    <3>1. t[1] \in Jobs /\ t[2] \in Nat /\ bag[t[1]] \in Nat
      OBVIOUS
    <3>2. Cardinality(Of(t[1])) \in Nat
      BY <1>1, <3>1
    <3> QED BY <3>1, <3>2
  <2>2. ASSUME NEW t \in Fresh PROVE g[t] \in Of(t[1])
    <3>1. Worker(t[1]) \in [1 .. Cardinality(Of(t[1])) -> Of(t[1])]
      <4> HIDE DEF Worker, Of
      <4> QED BY <1>3, <2>1
    <3> HIDE DEF Worker, Of
    <3> QED BY <2>1, <3>1
  <2>3. g \in [Fresh -> Mine]
    <3>1. \A t \in Fresh : g[t] \in Mine
      BY <2>1, <2>2
    <3> HIDE DEF Worker, Mine, Fresh
    <3> QED BY <3>1
  <2>4. ASSUME NEW s \in Fresh, NEW t \in Fresh, g[s] = g[t] PROVE s = t
    <3>0. job[g[s]] = s[1] /\ job[g[t]] = t[1]
      <4>1. g[s] \in Of(s[1]) /\ g[t] \in Of(t[1])
        BY <2>2
      <4> HIDE DEF g, Fresh
      <4> QED BY <4>1
    <3>1. s[1] = t[1]
      BY <2>4, <3>0
    <3>2. s[2] - bag[s[1]] = t[2] - bag[t[1]]
      <4>2. g[s] = Worker(t[1])[s[2] - bag[t[1]]] /\ g[t] = Worker(t[1])[t[2] - bag[t[1]]]
        <5> HIDE DEF Worker, Of, Fresh
        <5> QED BY <3>1
      <4>3. /\ s[2] - bag[t[1]] \in 1 .. Cardinality(Of(t[1]))
            /\ t[2] - bag[t[1]] \in 1 .. Cardinality(Of(t[1]))
        BY <2>1, <3>1
      <4> HIDE DEF Worker, Of, g
      <4>4. \A m, n \in 1 .. Cardinality(Of(t[1])) : Worker(t[1])[m] = Worker(t[1])[n] => m = n
        BY <1>3, <2>1
      <4>5. s[2] - bag[t[1]] = t[2] - bag[t[1]]
        BY <2>4, <4>2, <4>3, <4>4
      <4> QED BY <3>1, <4>5
    <3>3. s \in Jobs \X Nat /\ t \in Jobs \X Nat
      OBVIOUS
    <3>4. bag[t[1]] \in Nat
      BY <3>3
    <3>5. s[2] = t[2]
      BY <3>1, <3>2, <3>3, <3>4
    <3> QED BY <3>1, <3>3, <3>5
  <2> HIDE DEF g, Fresh, Mine
  <2> QED BY <2>3, <2>4, Fun_IsInj
<1>5. IsFiniteSet(Fresh) /\ Cardinality(Fresh) <= Cardinality(Mine)
  BY <1>2, <1>4, FS_Injection
<1>6. Waiting(next, u) = Waiting(bag, u) \cup Fresh
  <2>1. ASSUME NEW t \in Jobs \X Nat PROVE next[t[1]] = bag[t[1]] + Cardinality(Of(t[1])) /\ next[t[1]] \in Nat /\ bag[t[1]] \in Nat /\ bag[t[1]] <= next[t[1]]
    <3>1. t[1] \in Jobs
      OBVIOUS
    <3>2. Cardinality(Of(t[1])) \in Nat
      BY <1>1, <3>1
    <3>3. next[t[1]] = bag[t[1]] + Cardinality(Of(t[1]))
      BY <3>1
    <3> QED BY <3>1, <3>2, <3>3
  <2>2. ASSUME NEW t \in Jobs \X Nat PROVE t \in Waiting(next, u) <=> t \in Waiting(bag, u) \/ t \in Fresh
    <3> HIDE DEF Of
    <3> QED BY <2>1 DEF Waiting
  <2> QED BY <2>2 DEF Waiting
<1>7. /\ IsFiniteSet(Waiting(bag, u) \cup Fresh)
      /\ Cardinality(Waiting(bag, u) \cup Fresh) <= Cardinality(Waiting(bag, u)) + Cardinality(Fresh)
  <2> HIDE DEF Fresh
  <2>1. IsFiniteSet(Waiting(bag, u) \cap Fresh) /\ Cardinality(Waiting(bag, u) \cap Fresh) \in Nat
    BY <1>5, FS_Intersection, FS_CardinalityType
  <2>2. Cardinality(Waiting(bag, u)) \in Nat /\ Cardinality(Fresh) \in Nat
    BY <1>5, FS_CardinalityType
  <2> QED BY <1>5, <2>1, <2>2, FS_Union
<1>8. Cardinality(Waiting(bag, u)) \in Nat /\ Cardinality(Fresh) \in Nat /\ Cardinality(Waiting(bag, u) \cup Fresh) \in Nat
  BY <1>5, <1>7, FS_CardinalityType
<1> HIDE DEF Fresh, Mine
<1>9. Cardinality(Waiting(next, u)) <= Cardinality(Waiting(bag, u)) + Cardinality(Mine)
  <2> DEFINE x == Cardinality(Waiting(bag, u) \cup Fresh)
             y == Cardinality(Waiting(bag, u))
             z == Cardinality(Fresh)
             m == Cardinality(Mine)
  <2>1. x \in Nat /\ y \in Nat /\ z \in Nat /\ m \in Nat /\ x <= y + z /\ z <= m
    BY <1>2, <1>5, <1>7, <1>8
  <2>2. Cardinality(Waiting(next, u)) = x
    BY <1>6
  <2> HIDE DEF x, y, z, m
  <2>3. x <= y + m
    BY <2>1
  <2> QED BY <2>2, <2>3 DEF y, m
<1> QED BY <1>6, <1>7, <1>9 DEF Mine

\* The account of clip u as numbers.
LEMMA BudgetTypes ==
  ASSUME TypeInv, Budget, NEW u \in Uploads
  PROVE  /\ announced[u] \in Nat /\ losses[u] \in Nat /\ Coming(u) \in {0, 1}
         /\ IsFiniteSet(Waiting(queued, u)) /\ Cardinality(Waiting(queued, u)) \in Nat
         /\ IsFiniteSet(Waiting(abandoned, u)) /\ Cardinality(Waiting(abandoned, u)) \in Nat
         /\ IsFiniteSet(Busy(u)) /\ Cardinality(Busy(u)) \in Nat
         /\ announced[u] + Coming(u) + Cardinality(Waiting(queued, u)) + Cardinality(Waiting(abandoned, u))
              + Cardinality(Busy(u)) <= 1 + losses[u]
<1>1. announced[u] \in Nat /\ losses[u] \in Nat
  BY DEF TypeInv, TypeOK
<1>2. Coming(u) \in {0, 1}
  BY DEF Coming
<1>3. BudgetKept(u)
  BY DEF Budget
<1>4. IsFiniteSet(Busy(u)) /\ Cardinality(Busy(u)) \in Nat
  BY PoolFinite DEF Busy
<1> QED BY <1>1, <1>2, <1>3, <1>4, FS_CardinalityType DEF BudgetKept

\* What a step adds to the account of clip u, at most, and to its losses.
Moves(u, n, c, q, a, b, l) ==
  /\ announced'[u] <= announced[u] + n
  /\ Coming(u)' <= Coming(u) + c
  /\ IsFiniteSet(Waiting(queued', u))
  /\ Cardinality(Waiting(queued', u)) <= Cardinality(Waiting(queued, u)) + q
  /\ IsFiniteSet(Waiting(abandoned', u))
  /\ Cardinality(Waiting(abandoned', u)) <= Cardinality(Waiting(abandoned, u)) + a
  /\ Cardinality(Busy(u)') <= Cardinality(Busy(u)) + b
  /\ losses'[u] >= losses[u] + l

\* The account stays in balance when a step adds no more than it loses.
LEMMA Balance ==
  ASSUME TypeInv, TypeInv', Budget, NEW u \in Uploads,
         NEW n \in Int, NEW c \in Int, NEW q \in Int, NEW a \in Int, NEW b \in Int, NEW l \in Int,
         Moves(u, n, c, q, a, b, l), n + c + q + a + b <= l
  PROVE  BudgetKept(u)'
<1> USE DEF Moves
<1>1. /\ Cardinality(Waiting(queued', u)) \in Nat /\ Cardinality(Waiting(abandoned', u)) \in Nat
  BY FS_CardinalityType
<1>2. announced'[u] \in Nat /\ losses'[u] \in Nat
  BY DEF TypeInv, TypeOK
<1>3. Coming(u)' \in {0, 1}
  BY DEF Coming
<1>4. Cardinality(Busy(u)') \in Nat
  BY PoolFinite DEF Busy
<1>5. announced'[u] + Coming(u)' + Cardinality(Waiting(queued', u)) + Cardinality(Waiting(abandoned', u))
        + Cardinality(Busy(u)') <= 1 + losses'[u]
  <2> DEFINE n0 == announced[u]
             n1 == announced'[u]
             c0 == Coming(u)
             c1 == Coming(u)'
             q0 == Cardinality(Waiting(queued, u))
             q1 == Cardinality(Waiting(queued', u))
             a0 == Cardinality(Waiting(abandoned, u))
             a1 == Cardinality(Waiting(abandoned', u))
             b0 == Cardinality(Busy(u))
             b1 == Cardinality(Busy(u)')
             l0 == losses[u]
             l1 == losses'[u]
  <2>1. /\ n0 \in Nat /\ c0 \in {0, 1} /\ q0 \in Nat /\ a0 \in Nat /\ b0 \in Nat /\ l0 \in Nat
        /\ n0 + c0 + q0 + a0 + b0 <= 1 + l0
    BY BudgetTypes
  <2>2. n1 \in Nat /\ c1 \in {0, 1} /\ q1 \in Nat /\ a1 \in Nat /\ b1 \in Nat /\ l1 \in Nat
    BY <1>1, <1>2, <1>3, <1>4
  <2>3. /\ n1 <= n0 + n /\ c1 <= c0 + c /\ q1 <= q0 + q /\ a1 <= a0 + a /\ b1 <= b0 + b
        /\ l1 >= l0 + l
    OBVIOUS
  <2> HIDE DEF n0, n1, c0, c1, q0, q1, a0, a1, b0, b1, l0, l1
  <2>4. n1 + c1 + q1 + a1 + b1 <= 1 + l1
    BY <2>1, <2>2, <2>3
  <2> QED BY <2>4 DEF n1, c1, q1, a1, b1, l1
<1> QED BY <1>5 DEF BudgetKept

\* A step that announces, enqueues and loses nothing keeps the account, as
\* long as it begins no work.
LEMMA Quiet ==
  ASSUME TypeInv, TypeInv', Budget, NEW u \in Uploads,
         UNCHANGED <<announced, queued, abandoned, losses>>,
         Coming(u)' <= Coming(u), Busy(u)' \subseteq Busy(u)
  PROVE  BudgetKept(u)'
<1>1. Cardinality(Busy(u)') <= Cardinality(Busy(u))
  BY BudgetTypes, FS_Subset
<1>2. Cardinality(Busy(u)') \in Nat /\ Coming(u)' \in {0, 1}
  BY PoolFinite DEF Busy, Coming
<1>3. Moves(u, 0, 0, 0, 0, 0, 0)
  BY BudgetTypes, <1>1, <1>2 DEF Moves
<1> QED BY <1>3, Balance

\* A worker that leaves its work is off the list of its clip.
LEMMA BusyLess ==
  ASSUME NEW u \in Uploads, NEW w \in Workers, w \in Busy(u), Busy(u)' \subseteq Busy(u) \ {w}
  PROVE  Cardinality(Busy(u)') <= Cardinality(Busy(u)) - 1
<1>1. IsFiniteSet(Busy(u))
  BY PoolFinite DEF Busy
<1> QED BY <1>1, SmallerSet

\* The next stage is enqueued by a worker whose own work is done with it.
LEMMA EnqueueNextBudget ==
  ASSUME TypeInv, TypeInv', Budget, NEW w \in Workers, EnqueueNext(w), NEW u \in Uploads
  PROVE  BudgetKept(u)'
<1> DEFINE d == IF Clip(w) = u THEN 1 ELSE 0
           j == <<Clip(w), IF run[w][2] = "probe" THEN "transcode" ELSE "finalize", 0>>
<1>1. run[w] \in Jobs /\ pc[w] = "enqueue"
  BY DEF EnqueueNext, TypeInv, WorkerOK
<1>2. j \in Jobs /\ j[1] = Clip(w)
  BY <1>1, ConstantAssumption DEF Jobs, Stages, Clip
<1>3. Added(queued, j, queued') /\ queued \in [Jobs -> Nat]
  BY DEF EnqueueNext, Enqueue, Added, TypeInv, TypeOK
<1>4. /\ IsFiniteSet(Waiting(queued', u))
      /\ Cardinality(Waiting(queued', u)) = Cardinality(Waiting(queued, u)) + d
  <2> HIDE DEF j
  <2>1. IsFiniteSet(Waiting(queued, u))
    BY BudgetTypes
  <2>2. /\ IsFiniteSet(Waiting(queued', u))
        /\ Cardinality(Waiting(queued', u)) =
             Cardinality(Waiting(queued, u)) + (IF j[1] = u THEN 1 ELSE 0)
    BY <1>2, <1>3, <2>1, OneMore
  <2> QED BY <1>2, <2>2
<1>5. UNCHANGED <<announced, abandoned, losses, up, run>> /\ pc' = [pc EXCEPT ![w] = "settle"]
  BY DEF EnqueueNext, Enqueue, Goes, Elsewhere, history
<1>6. Cardinality(Busy(u)') <= Cardinality(Busy(u)) - d
  <2>1. Busy(u)' \subseteq Busy(u) \ {w}
    BY <1>5 DEF Busy, AtWork, Clip, TypeInv, TypeOK
  <2>2. CASE Clip(w) = u
    <3>1. w \in Busy(u)
      BY <1>1, <2>2 DEF Busy, AtWork
    <3> QED BY <2>1, <2>2, <3>1, BusyLess
  <2>3. CASE Clip(w) # u
    BY <2>1, <2>3, BudgetTypes, FS_Subset
  <2> QED BY <2>2, <2>3
<1>7. Coming(u)' = Coming(u)
  BY <1>5 DEF Coming
<1>8. d \in Int
  OBVIOUS
<1>9. Moves(u, 0, 0, d, 0, -d, 0)
  <2> HIDE DEF d
  <2> QED BY <1>4, <1>5, <1>6, <1>7, <1>8, BudgetTypes DEF Moves
<1> HIDE DEF d
<1> QED BY <1>8, <1>9, Balance

\* An announcement ends the work that led to it.
LEMMA AnnounceBudget ==
  ASSUME TypeInv, TypeInv', Budget, NEW w \in Workers, Announce(w), NEW u \in Uploads
  PROVE  BudgetKept(u)'
<1> DEFINE d == IF Clip(w) = u THEN 1 ELSE 0
<1>1. run[w] \in Jobs /\ pc[w] = "announcing"
  BY DEF Announce, TypeInv, WorkerOK
<1>2. UNCHANGED <<queued, abandoned, losses, up, run>> /\ pc' = [pc EXCEPT ![w] = "settle"]
  BY DEF Announce, Goes, Elsewhere, history, jobs
<1>3. announced'[u] = announced[u] + d
  <2>1. Clip(w) \in Uploads
    BY <1>1 DEF Jobs, Clip
  <2>2. announced \in [Uploads -> Nat] /\ announced' = [announced EXCEPT ![Clip(w)] = @ + 1]
    BY DEF TypeInv, TypeOK, Announce
  <2> QED BY <2>1, <2>2
<1>4. Cardinality(Busy(u)') <= Cardinality(Busy(u)) - d
  <2>1. Busy(u)' \subseteq Busy(u) \ {w}
    BY <1>2 DEF Busy, AtWork, Clip, TypeInv, TypeOK
  <2>2. CASE Clip(w) = u
    <3>1. w \in Busy(u)
      BY <1>1, <2>2 DEF Busy, AtWork
    <3> QED BY <2>1, <2>2, <3>1, BusyLess
  <2>3. CASE Clip(w) # u
    BY <2>1, <2>3, BudgetTypes, FS_Subset
  <2> QED BY <2>2, <2>3
<1>5. Coming(u)' = Coming(u)
  BY <1>2 DEF Coming
<1>6. d \in Int
  OBVIOUS
<1>7. Moves(u, d, 0, 0, 0, -d, 0)
  <2> HIDE DEF d
  <2> QED BY <1>2, <1>3, <1>4, <1>5, <1>6, BudgetTypes DEF Moves
<1> HIDE DEF d
<1> QED BY <1>6, <1>7, Balance

\* The upload hands its one job to the queue.
LEMMA UploadEnqueueBudget ==
  ASSUME TypeInv, TypeInv', Budget, NEW v \in Uploads, UploadEnqueue(v), NEW u \in Uploads
  PROVE  BudgetKept(u)'
<1> DEFINE d == IF v = u THEN 1 ELSE 0
           j == <<v, "probe", 0>>
<1>0. j[1] = v
  OBVIOUS
<1>1. j \in Jobs
  BY ConstantAssumption DEF Jobs, Stages
<1>2. Added(queued, j, queued') /\ queued \in [Jobs -> Nat]
  BY DEF UploadEnqueue, Enqueue, Added, TypeInv, TypeOK
<1>3. /\ IsFiniteSet(Waiting(queued', u))
      /\ Cardinality(Waiting(queued', u)) = Cardinality(Waiting(queued, u)) + d
  <2> HIDE DEF j
  <2>1. IsFiniteSet(Waiting(queued, u))
    BY BudgetTypes
  <2>2. /\ IsFiniteSet(Waiting(queued', u))
        /\ Cardinality(Waiting(queued', u)) =
             Cardinality(Waiting(queued, u)) + (IF j[1] = u THEN 1 ELSE 0)
    BY <1>1, <1>2, <2>1, OneMore
  <2> QED BY <1>0, <2>2
<1>4. UNCHANGED <<announced, abandoned, losses, run, pc>>
  BY DEF UploadEnqueue, Enqueue, Answers, worker, history
<1>5. Busy(u)' = Busy(u)
  BY <1>4 DEF Busy, AtWork, Clip
<1>6. Coming(u)' = Coming(u) - d
  <2>1. up[v] = "inserted" /\ up' = [up EXCEPT ![v] = "enqueued"] /\ up \in [Uploads -> UploadPhases]
    BY DEF UploadEnqueue, Answers, TypeInv, TypeOK
  <2> QED BY <2>1 DEF Coming
<1>7. d \in Int
  OBVIOUS
<1>8. Moves(u, 0, -d, d, 0, 0, 0)
  <2> HIDE DEF d
  <2> QED BY <1>3, <1>4, <1>5, <1>6, <1>7, BudgetTypes DEF Moves
<1> HIDE DEF d
<1> QED BY <1>7, <1>8, Balance

\* A claim takes a job off the queue and puts a worker to it.
LEMMA ClaimBudget ==
  ASSUME TypeInv, TypeInv', Budget, NEW w \in Workers, NEW j \in Jobs, Claim(w, j), NEW u \in Uploads
  PROVE  BudgetKept(u)'
<1> DEFINE d == IF j[1] = u THEN 1 ELSE 0
<1>1. /\ queued \in [Jobs -> Nat] /\ Taken(queued, j, queued')
      /\ run' = [run EXCEPT ![w] = j] /\ pc' = [pc EXCEPT ![w] = "start"]
      /\ UNCHANGED <<announced, abandoned, losses, up>>
  BY DEF Claim, Elsewhere, history, Taken, TypeInv, TypeOK
<1>2. /\ IsFiniteSet(Waiting(queued', u))
      /\ Cardinality(Waiting(queued', u)) = Cardinality(Waiting(queued, u)) - d
  <2>1. IsFiniteSet(Waiting(queued, u))
    BY BudgetTypes
  <2> QED BY <1>1, <2>1, OneLess
<1>3. Cardinality(Busy(u)') <= Cardinality(Busy(u)) + d
  <2>1. IsFiniteSet(Busy(u))
    BY BudgetTypes
  <2>2. CASE j[1] = u
    <3>1. Busy(u)' \subseteq Busy(u) \cup {w}
      BY <1>1 DEF Busy, AtWork, Clip, TypeInv, TypeOK
    <3> QED BY <2>1, <2>2, <3>1, LargerSet
  <2>3. CASE j[1] # u
    <3>1. Busy(u)' \subseteq Busy(u)
      BY <1>1, <2>3 DEF Busy, AtWork, Clip, TypeInv, TypeOK
    <3>2. Cardinality(Busy(u)') <= Cardinality(Busy(u))
      BY <2>1, <3>1, FS_Subset
    <3> QED BY <2>3, <3>2, BudgetTypes
  <2> QED BY <2>2, <2>3
<1>4. Coming(u)' = Coming(u)
  BY <1>1 DEF Coming
<1>5. d \in Int
  OBVIOUS
<1>6. Moves(u, 0, 0, -d, 0, d, 0)
  <2> HIDE DEF d
  <2> QED BY <1>1, <1>2, <1>3, <1>4, <1>5, BudgetTypes DEF Moves
<1> HIDE DEF d
<1> QED BY <1>5, <1>6, Balance

\* bump_job_after_failure and the reaper put a job back once at most.
LEMMA RetriedOnce ==
  ASSUME NEW bag \in [Jobs -> Nat], NEW j \in Jobs, NEW u \in Uploads, IsFiniteSet(Waiting(bag, u)),
         NEW next, next = Retried(bag, j)
  PROVE  /\ IsFiniteSet(Waiting(next, u))
         /\ Cardinality(Waiting(next, u)) <=
              Cardinality(Waiting(bag, u)) + (IF j[1] = u THEN 1 ELSE 0)
<1>0. Cardinality(Waiting(bag, u)) \in Nat
  BY FS_CardinalityType
<1>1. CASE Dead(j)
  BY <1>0, <1>1 DEF Retried
<1>2. CASE ~Dead(j)
  <2>0. <<j[1], j[2], j[3] + 1>> \in Jobs
    BY <1>2, ConstantAssumption DEF Jobs, Dead
  <2>1. PICK k \in Jobs : k = <<j[1], j[2], j[3] + 1>>
    BY <2>0
  <2>2. Added(bag, k, next)
    BY <1>2, <2>1 DEF Retried, Added
  <2>3. k[1] = j[1]
    BY <2>1
  <2>4. /\ IsFiniteSet(Waiting(next, u))
        /\ Cardinality(Waiting(next, u)) =
             Cardinality(Waiting(bag, u)) + (IF k[1] = u THEN 1 ELSE 0)
    BY <2>2, OneMore
  <2> QED BY <1>0, <2>3, <2>4
<1> QED BY <1>1, <1>2

\* A row left running is a loss.
LEMMA SettleErrsBudget ==
  ASSUME TypeInv, TypeInv', Budget, NEW w \in Workers, SettleErrs(w), NEW u \in Uploads
  PROVE  BudgetKept(u)'
<1>1. PICK j \in Jobs : j = run[w]
  BY DEF SettleErrs, TypeInv, WorkerOK
<1> DEFINE d == IF j[1] = u THEN 1 ELSE 0
<1>2. abandoned \in [Jobs -> Nat] /\ Added(abandoned, j, abandoned')
  BY <1>1 DEF SettleErrs, Added, TypeInv, TypeOK
<1>3. /\ IsFiniteSet(Waiting(abandoned', u))
      /\ Cardinality(Waiting(abandoned', u)) = Cardinality(Waiting(abandoned, u)) + d
  <2>1. IsFiniteSet(Waiting(abandoned, u))
    BY BudgetTypes
  <2> QED BY <1>2, <2>1, OneMore
<1>4. losses'[u] = losses[u] + d
  <2>1. j[1] \in Uploads
    BY DEF Jobs
  <2>2. losses \in [Uploads -> Nat] /\ losses' = [losses EXCEPT ![j[1]] = @ + 1]
    BY <1>1 DEF SettleErrs, Clip, TypeInv, TypeOK
  <2> QED BY <2>1, <2>2
<1>5. UNCHANGED <<announced, queued, up>> /\ pc' = [pc EXCEPT ![w] = "idle"] /\ run' = [run EXCEPT ![w] = NoJob]
  BY DEF SettleErrs, Idles, Elsewhere
<1>6. Busy(u)' \subseteq Busy(u)
  BY <1>5 DEF Busy, AtWork, Clip, TypeInv, TypeOK
<1>7. Cardinality(Busy(u)') <= Cardinality(Busy(u)) /\ Cardinality(Busy(u)') \in Nat
  BY <1>6, BudgetTypes, FS_Subset, FS_CardinalityType
<1>8. Coming(u)' = Coming(u)
  BY <1>5 DEF Coming
<1>9. d \in Int
  OBVIOUS
<1>10. Moves(u, 0, 0, 0, d, 0, d)
  <2> HIDE DEF d
  <2> QED BY <1>3, <1>4, <1>5, <1>7, <1>8, <1>9, BudgetTypes DEF Moves
<1> HIDE DEF d
<1> QED BY <1>9, <1>10, Balance

\* A run cut short is a loss, and its job is queued once more at most.
LEMMA TimesOutBudget ==
  ASSUME TypeInv, TypeInv', Budget, NEW w \in Workers, TimesOut(w), NEW u \in Uploads
  PROVE  BudgetKept(u)'
<1>1. PICK j \in Jobs : j = run[w]
  BY DEF TimesOut, Running, TypeInv, WorkerOK
<1> DEFINE d == IF j[1] = u THEN 1 ELSE 0
<1>2. queued \in [Jobs -> Nat] /\ queued' = Retried(queued, j)
  BY <1>1 DEF TimesOut, TypeInv, TypeOK
<1>3. /\ IsFiniteSet(Waiting(queued', u))
      /\ Cardinality(Waiting(queued', u)) <= Cardinality(Waiting(queued, u)) + d
  <2>1. IsFiniteSet(Waiting(queued, u))
    BY BudgetTypes
  <2> QED BY <1>2, <2>1, RetriedOnce
<1>4. losses'[u] = losses[u] + d
  <2>1. j[1] \in Uploads
    BY DEF Jobs
  <2>2. losses \in [Uploads -> Nat] /\ losses' = [losses EXCEPT ![j[1]] = @ + 1]
    BY <1>1 DEF TimesOut, Clip, TypeInv, TypeOK
  <2> QED BY <2>1, <2>2
<1>5. UNCHANGED <<announced, abandoned, up, run>> /\ pc' = [pc EXCEPT ![w] = "bumped"]
  BY DEF TimesOut, Elsewhere
<1>6. Busy(u)' \subseteq Busy(u)
  BY <1>5 DEF Busy, AtWork, Clip, TypeInv, TypeOK
<1>7. Cardinality(Busy(u)') <= Cardinality(Busy(u)) /\ Cardinality(Busy(u)') \in Nat
  BY <1>6, BudgetTypes, FS_Subset, FS_CardinalityType
<1>8. Coming(u)' = Coming(u)
  BY <1>5 DEF Coming
<1>9. d \in Int
  OBVIOUS
<1>10. Moves(u, 0, 0, d, 0, 0, d)
  <2> HIDE DEF d
  <2> QED BY <1>3, <1>4, <1>5, <1>7, <1>8, <1>9, BudgetTypes DEF Moves
<1> HIDE DEF d
<1> QED BY <1>9, <1>10, Balance

\* The reaper moves a row from the abandoned to the queued, or buries it.
LEMMA ReapBudget ==
  ASSUME TypeInv, TypeInv', Budget, NEW j \in Jobs, Reap(j), NEW u \in Uploads
  PROVE  BudgetKept(u)'
<1> DEFINE d == IF j[1] = u THEN 1 ELSE 0
<1>1. /\ queued \in [Jobs -> Nat] /\ queued' = Retried(queued, j)
      /\ abandoned \in [Jobs -> Nat] /\ Taken(abandoned, j, abandoned')
      /\ UNCHANGED <<announced, losses, up, run, pc>>
  BY DEF Reap, LeavesUnmarked, worker, history, Taken, TypeInv, TypeOK
<1>2. IsFiniteSet(Waiting(queued, u)) /\ IsFiniteSet(Waiting(abandoned, u))
  BY BudgetTypes
<1>3. /\ IsFiniteSet(Waiting(queued', u))
      /\ Cardinality(Waiting(queued', u)) <= Cardinality(Waiting(queued, u)) + d
  BY <1>1, <1>2, RetriedOnce
<1>4. /\ IsFiniteSet(Waiting(abandoned', u))
      /\ Cardinality(Waiting(abandoned', u)) = Cardinality(Waiting(abandoned, u)) - d
  BY <1>1, <1>2, OneLess
<1>5. Busy(u)' = Busy(u) /\ Coming(u)' = Coming(u)
  BY <1>1 DEF Busy, AtWork, Clip, Coming
<1>6. d \in Int
  OBVIOUS
<1>7. Moves(u, 0, 0, d, -d, 0, 0)
  <2> HIDE DEF d
  <2> QED BY <1>1, <1>3, <1>4, <1>5, <1>6, BudgetTypes DEF Moves
<1> HIDE DEF d
<1> QED BY <1>6, <1>7, Balance

\* A restart leaves one row behind per run it stops, and each is a loss.
LEMMA CrashBudget ==
  ASSUME TypeInv, TypeInv', Budget, Crash, NEW u \in Uploads
  PROVE  BudgetKept(u)'
<1> DEFINE Stopped == {w \in Workers : Running(w)}
           job == [w \in Stopped |-> run[w]]
           l == Cardinality({w \in Stopped : job[w][1] = u})
<1>1. Stopped \in SUBSET Workers /\ job \in [Stopped -> Jobs]
  BY DEF Running, TypeInv, WorkerOK
<1>2. \A j \in Jobs : {w \in Workers : Running(w) /\ run[w] = j} = {w \in Stopped : job[w] = j}
  OBVIOUS
<1>3. {w \in Workers : Running(w) /\ Clip(w) = u} = {w \in Stopped : job[w][1] = u}
  BY DEF Clip
<1>4. abandoned \in [Jobs -> Nat] /\ abandoned' = [j \in Jobs |-> abandoned[j] + Cardinality({w \in Stopped : job[w] = j})]
  <2>1. abandoned' = [j \in Jobs |-> abandoned[j] + Cardinality({w \in Workers : Running(w) /\ run[w] = j})]
    BY DEF Crash
  <2> HIDE DEF Stopped, job
  <2> QED BY <1>2, <2>1 DEF TypeInv, TypeOK
<1>5. losses'[u] = losses[u] + l
  BY <1>3 DEF Crash
<1>6. l \in Nat
  BY PoolFinite
<1>7. /\ IsFiniteSet(Waiting(abandoned', u))
      /\ Cardinality(Waiting(abandoned', u)) <= Cardinality(Waiting(abandoned, u)) + l
  <2>1. IsFiniteSet(Waiting(abandoned, u))
    BY BudgetTypes
  <2> HIDE DEF Stopped, job
  <2> QED BY <1>1, <1>4, <2>1, LeftBehind
<1>8. Busy(u)' = {} /\ UNCHANGED <<announced, queued>>
  BY DEF Crash, Busy, AtWork
<1>9. Cardinality(Busy(u)') = 0
  BY <1>8, FS_EmptySet
<1>10. Coming(u)' <= Coming(u)
  <2>1. up'[u] = IF up[u] = "idle" THEN "idle" ELSE "done"
    BY DEF Crash
  <2> QED BY <2>1 DEF Coming
<1>11. Moves(u, 0, 0, 0, l, 0, l)
  <2> HIDE DEF l
  <2>1. Coming(u)' \in {0, 1}
    BY DEF Coming
  <2> QED BY <1>5, <1>6, <1>7, <1>8, <1>9, <1>10, <2>1, BudgetTypes DEF Moves
<1> HIDE DEF l
<1> QED BY <1>6, <1>11, Balance

\* The other steps announce, enqueue and lose nothing and begin no work.
LEMMA QuietSteps ==
  ASSUME TypeInv, TypeInv', Budget, NEW u \in Uploads,
         \/ \E v \in Uploads : \/ UploadCheck(v) \/ UploadDuplicate(v) \/ UploadStore(v) \/ UploadInsert(v)
                               \/ UploadUndo(v) \/ UploadFailClip(v) \/ UploadRegister(v)
                               \/ UploadErrs(v) \/ UploadRegisterErrs(v)
                               \/ UploadUndoErrs(v) \/ UploadFailErrs(v)
         \/ \E w \in Workers :
              \/ ProbeAccept(w) \/ ProbeReject(w) \/ RejectFails(w) \/ RejectDiscards(w)
              \/ Transcode(w) \/ TranscodeFails(w) \/ PersistFile(w) \/ PersistRow(w) \/ UpsertOriginal(w)
              \/ FailDropsRows(w) \/ FailUnlinks(w) \/ FailsClip(w)
              \/ FinalizeStamps(w) \/ FinalizePublishes(w) \/ AnnounceCheck(w)
              \/ Settle(w) \/ BumpFailsClip(w) \/ ProbeErrs(w) \/ TranscodeErrs(w) \/ FinalizeErrs(w)
              \/ DiscardErrs(w) \/ DropErrs(w) \/ UnlinkErrs(w) \/ MarkErrs(w)
         \/ AccountDelete \/ AccountStep \/ GcStep \/ (\E f \in Files : Ages(f)) \/ UNCHANGED vars
  PROVE  BudgetKept(u)'
<1>1. UNCHANGED <<announced, queued, abandoned, losses>>
  <2>1. ASSUME NEW v \in Uploads,
               \/ UploadCheck(v) \/ UploadDuplicate(v) \/ UploadStore(v) \/ UploadInsert(v)
               \/ UploadUndo(v) \/ UploadFailClip(v) \/ UploadRegister(v)
               \/ UploadErrs(v) \/ UploadRegisterErrs(v) \/ UploadUndoErrs(v) \/ UploadFailErrs(v)
        PROVE  UNCHANGED <<announced, queued, abandoned, losses>>
    BY <2>1 DEF UploadCheck, UploadDuplicate, UploadStore, UploadInsert, UploadUndo, UploadFailClip,
         UploadRegister, UploadErrs, UploadRegisterErrs, UploadUndoErrs, UploadFailErrs, Answers,
         LeavesUnmarked, jobs, history
  <2>2. ASSUME NEW w \in Workers,
               \/ ProbeAccept(w) \/ ProbeReject(w) \/ RejectFails(w) \/ RejectDiscards(w)
               \/ Transcode(w) \/ TranscodeFails(w) \/ PersistFile(w) \/ PersistRow(w) \/ UpsertOriginal(w)
               \/ FailDropsRows(w) \/ FailUnlinks(w) \/ FailsClip(w)
               \/ FinalizeStamps(w) \/ FinalizePublishes(w) \/ AnnounceCheck(w)
               \/ Settle(w) \/ BumpFailsClip(w) \/ ProbeErrs(w) \/ TranscodeErrs(w) \/ FinalizeErrs(w)
               \/ DiscardErrs(w) \/ DropErrs(w) \/ UnlinkErrs(w) \/ MarkErrs(w)
        PROVE  UNCHANGED <<announced, queued, abandoned, losses>>
    BY <2>2 DEF ProbeAccept, ProbeReject, RejectFails, RejectDiscards, Transcode, TranscodeFails,
         PersistFile, PersistRow, UpsertOriginal, FailDropsRows, FailUnlinks, FailsClip,
         FinalizeStamps, FinalizePublishes, AnnounceCheck, Settle, BumpFailsClip, ProbeErrs,
         TranscodeErrs, FinalizeErrs, DiscardErrs, DropErrs, UnlinkErrs, MarkErrs, LeavesUnmarked,
         jobs, history
  <2>3. ASSUME AccountDelete \/ AccountStep \/ GcStep \/ (\E f \in Files : Ages(f)) \/ UNCHANGED vars
        PROVE  UNCHANGED <<announced, queued, abandoned, losses>>
    BY <2>3 DEF AccountDelete, AccountStep, AccountSelect, AccountUnlink, AccountErase, AccountFrame,
         GcStep, GcReferenced, GcSelect, GcDropRow, GcWalk, GcEnd, GcLook, GcUnlink, SweepFrame, Ages,
         vars, jobs, history
  <2> QED BY <2>1, <2>2, <2>3
<1>2. ASSUME NEW v \in Uploads,
             \/ UploadCheck(v) \/ UploadDuplicate(v) \/ UploadStore(v) \/ UploadInsert(v)
             \/ UploadUndo(v) \/ UploadFailClip(v) \/ UploadRegister(v)
             \/ UploadErrs(v) \/ UploadRegisterErrs(v) \/ UploadUndoErrs(v) \/ UploadFailErrs(v)
      PROVE  Coming(u)' <= Coming(u) /\ Busy(u)' \subseteq Busy(u)
  <2>1. PICK p \in UploadPhases : /\ Answers(v, p)
                                  /\ p \notin {"enqueued", "done"} => up[v] \notin {"enqueued", "done"}
    BY <1>2 DEF UploadCheck, UploadDuplicate, UploadStore, UploadInsert, UploadUndo, UploadFailClip,
                UploadRegister, UploadErrs, UploadRegisterErrs, UploadUndoErrs, UploadFailErrs,
                UploadPhases
  <2>2. up' = [up EXCEPT ![v] = p] /\ up \in [Uploads -> UploadPhases] /\ UNCHANGED <<run, pc>>
    BY <2>1 DEF Answers, worker, TypeInv, TypeOK
  <2>3. Busy(u)' = Busy(u)
    BY <2>2 DEF Busy, AtWork, Clip
  <2>4. Coming(u)' <= Coming(u)
    BY <2>1, <2>2 DEF Coming
  <2> QED BY <2>3, <2>4
<1>3. ASSUME NEW w \in Workers, UNCHANGED up,
             \A v \in Workers \ {w} : run'[v] = run[v] /\ pc'[v] = pc[v],
             AtWork(w)' => AtWork(w) /\ run'[w] = run[w]
      PROVE  Coming(u)' <= Coming(u) /\ Busy(u)' \subseteq Busy(u)
  <2>1. Coming(u)' = Coming(u)
    BY <1>3 DEF Coming
  <2>2. Busy(u)' \subseteq Busy(u)
    BY <1>3 DEF Busy, AtWork, Clip
  <2> QED BY <2>1, <2>2, BudgetTypes
<1>4. ASSUME NEW w \in Workers, Idles(w)
      PROVE  Coming(u)' <= Coming(u) /\ Busy(u)' \subseteq Busy(u)
  BY <1>3, <1>4 DEF Idles, Elsewhere, AtWork, TypeInv, TypeOK
<1>5. ASSUME NEW w \in Workers, NEW p, pc' = [pc EXCEPT ![w] = p], UNCHANGED <<run, up>>, AtWork(w)
      PROVE  Coming(u)' <= Coming(u) /\ Busy(u)' \subseteq Busy(u)
  BY <1>3, <1>5 DEF AtWork, TypeInv, TypeOK
<1>6. ASSUME NEW w \in Workers, NEW p, Goes(w, p), AtWork(w)
      PROVE  Coming(u)' <= Coming(u) /\ Busy(u)' \subseteq Busy(u)
  BY <1>5, <1>6 DEF Goes, Elsewhere
<1>7. ASSUME NEW w \in Workers,
              \/ ProbeAccept(w) \/ ProbeReject(w) \/ RejectFails(w) \/ RejectDiscards(w)
              \/ TranscodeFails(w) \/ UpsertOriginal(w)
              \/ FailsClip(w) \/ FinalizeStamps(w) \/ FinalizePublishes(w) \/ AnnounceCheck(w)
              \/ Settle(w) \/ BumpFailsClip(w) \/ ProbeErrs(w) \/ TranscodeErrs(w) \/ FinalizeErrs(w)
              \/ DiscardErrs(w) \/ MarkErrs(w)
      PROVE  Idles(w) \/ \E p \in WorkerPhases : Goes(w, p) /\ AtWork(w)
  BY <1>7 DEF ProbeAccept, ProbeReject, RejectFails, RejectDiscards, TranscodeFails, UpsertOriginal,
              FailsClip, FinalizeStamps, FinalizePublishes, AnnounceCheck, Settle, BumpFailsClip,
              ProbeErrs, TranscodeErrs, FinalizeErrs, DiscardErrs, MarkErrs, At, AtWork, WorkerPhases
<1>8. ASSUME NEW w \in Workers, Transcode(w) \/ PersistFile(w) \/ PersistRow(w) \/ FailDropsRows(w) \/ FailUnlinks(w)
                                  \/ DropErrs(w) \/ UnlinkErrs(w)
      PROVE  \E p \in WorkerPhases : pc' = [pc EXCEPT ![w] = p] /\ UNCHANGED <<run, up>> /\ AtWork(w)
  BY <1>8 DEF Transcode, PersistFile, PersistRow, FailDropsRows, FailUnlinks, DropErrs, UnlinkErrs, At, AtWork,
              Elsewhere, WorkerPhases
<1>9. ASSUME UNCHANGED <<run, pc, up>>
      PROVE  Coming(u)' <= Coming(u) /\ Busy(u)' \subseteq Busy(u)
  <2>1. Coming(u)' = Coming(u) /\ Busy(u)' = Busy(u)
    BY <1>9 DEF Coming, Busy, AtWork, Clip
  <2> QED BY <2>1, BudgetTypes
<1>10. AccountDelete \/ AccountStep \/ GcStep \/ (\E f \in Files : Ages(f)) \/ UNCHANGED vars
         => UNCHANGED <<run, pc, up>>
  BY DEF AccountDelete, AccountStep, AccountSelect, AccountUnlink, AccountErase, AccountFrame, GcStep,
         GcReferenced, GcSelect, GcDropRow, GcWalk, GcEnd, GcLook, GcUnlink, SweepFrame, Ages, vars, worker
<1>11. Coming(u)' <= Coming(u) /\ Busy(u)' \subseteq Busy(u)
  BY <1>2, <1>4, <1>5, <1>6, <1>7, <1>8, <1>9, <1>10
<1> QED BY <1>1, <1>11, Quiet

\* At the start every clip has its one upload to come.
LEMMA InitBudget == Init => Budget
<1> SUFFICES ASSUME Init, NEW u \in Uploads PROVE BudgetKept(u)
  BY DEF Budget
<1>1. Waiting(queued, u) = {} /\ Waiting(abandoned, u) = {}
  <2>1. \A j \in Jobs : queued[j] = 0 /\ abandoned[j] = 0
    BY DEF Init
  <2> QED BY <2>1 DEF Waiting
<1>2. Busy(u) = {}
  BY DEF Init, Busy, AtWork
<1>3. announced[u] = 0 /\ losses[u] = 0 /\ Coming(u) = 1
  BY DEF Init, Coming
<1> QED BY <1>1, <1>2, <1>3, FS_EmptySet DEF BudgetKept

\* The account of every clip stays in balance.
LEMMA BudgetStep == TypeInv /\ Budget /\ [Next]_vars => Budget'
<1> SUFFICES ASSUME TypeInv, Budget, [Next]_vars, NEW u \in Uploads PROVE BudgetKept(u)'
  BY DEF Budget
<1>1. TypeInv'
  BY TypeStep
<1> QED BY <1>1, EnqueueNextBudget, AnnounceBudget, UploadEnqueueBudget, ClaimBudget, SettleErrsBudget,
           TimesOutBudget, ReapBudget, CrashBudget, QuietSteps DEF Next, UploadStep, WorkerStep

-----------------------------------------------------------------------------
(* The theorems.                                                           *)

\* TypeOK: the clips, the assets, the store, the queue and the local state
\* of every request and worker stay well-formed.
THEOREM TypeCorrect == Spec => []TypeOK
<1>1. TypeInv => TypeOK
  BY DEF TypeInv
<1> QED BY <1>1, InitType, TypeStep, PTL DEF Spec

\* AnnounceBound: process_finalize announces a clip once, and once more at
\* most for each run that job_timeout, a failed mark_done or a restart lost.
THEOREM AnnouncementsBounded == Spec => []AnnounceBound
<1>1. TypeInv /\ Budget => AnnounceBound
  <2> SUFFICES ASSUME TypeInv, Budget, NEW u \in Uploads PROVE announced[u] <= 1 + losses[u]
    BY DEF AnnounceBound
  <2> QED BY BudgetTypes
<1> QED BY <1>1, InitType, TypeStep, InitBudget, BudgetStep, PTL DEF Spec

=============================================================================
