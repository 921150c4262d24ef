----------------------------- MODULE InboxProofs -----------------------------
(***************************************************************************)
(* The safety properties of Inbox, for any number of activities, notes,    *)
(* actors, concurrent handlers and faults.                                 *)
(***************************************************************************)
EXTENDS Inbox, TLAPS

Busy(h) == pc[h] # "idle"

\* A handler works on an activity it has inserted into the activities table.
HasRow ==
  /\ processed \subseteq received
  /\ \A h \in Handlers : Busy(h) => act[h] \in received

\* A note that was tombstoned when the handler began still is.
LateIsTombed == \A h \in Handlers : late[h] => Busy(h) /\ Object[act[h]] \in tombs

\* The INSERT is reached by a Create of the actor the note is attributed to, and
\* the other writes by the actor of the row, which is there.
Authorised(h) ==
  /\ pc[h] = "resolving" => Kind[act[h]] = "Create" /\ ByAttributed(h)
  /\ pc[h] \in {"owned", "marking", "editing"} => clip[Note(h)] # "none" /\ ByOwner(h)
  /\ pc[h] \in {"owned", "marking"} => Kind[act[h]] = "Delete"

WritersAuthorised == \A h \in Handlers : Authorised(h)

\* The inductive invariant.
IInv ==
  /\ TypeOK
  /\ HasRow
  /\ AtMostOnce
  /\ LateIsTombed
  /\ LateCreateSwallowed
  /\ WritersAuthorised
  /\ OnlyOwnerSpeaks

-----------------------------------------------------------------------------

\* The cases a step is split into.
NextCases ==
  \/ \E h \in Handlers, a \in Acts : InboundBegin(h, a)
  \/ \E h \in Handlers : CreateCheck(h)
  \/ \E h \in Handlers : CreateGivesUp(h)
  \/ \E h \in Handlers : CreateInsert(h)
  \/ \E h \in Handlers : DeleteLookup(h)
  \/ \E h \in Handlers : DeleteTombstone(h)
  \/ \E h \in Handlers : DeleteMark(h)
  \/ \E h \in Handlers : UpdateLookup(h)
  \/ \E h \in Handlers : UpdateWrite(h)
  \/ \E h \in Handlers : LogOnly(h)
  \/ \E h \in Handlers : InboundFinish(h)
  \/ \E h \in Handlers : HandlerFails(h)
  \/ \E b \in Backfilled : BackfillFetch(b)
  \/ BackfillIngest
  \/ Crash
  \/ UNCHANGED vars

\* Next is the disjunction of its actions.
LEMMA SplitNext ==
  ASSUME [Next]_vars
  PROVE  NextCases
  BY DEF Next, HandlerStep, NextCases

\* create_remote writes a well-formed row or none.
LEMMA PutClipType ==
  ASSUME TypeOK, NEW n \in Notes, NEW o \in Actors, NEW a \in Acts \cup {NoAct}, PutClip(n, o, a)
  PROVE  /\ clip' \in [Notes -> {"none", "live", "deleted"}]
         /\ owner' \in [Notes -> Actors \cup {NoActor}]
         /\ text' \in [Notes -> Acts \cup {NoAct}]
  BY DEF TypeOK, PutClip

\* The empty database with no request under way satisfies the invariant.
LEMMA InitIInv ==
  ASSUME Init
  PROVE  IInv
  BY ConstantAssumption
  DEF Init, IInv, TypeOK, Phases, HasRow, Busy, AtMostOnce, LateIsTombed, LateCreateSwallowed,
      WritersAuthorised, Authorised, OnlyOwnerSpeaks

\* Every handler step keeps the tables and the handlers well-formed.
LEMMA TypeStep ==
  ASSUME TypeOK, HasRow, [Next]_vars
  PROVE  TypeOK'
<1> USE ConstantAssumption DEF TypeOK, Phases, tables, vars
<1>0. \A h \in Handlers : pc[h] # "idle" => act[h] \in Acts
  BY DEF HasRow, Busy
<1>1. CASE \E h \in Handlers, a \in Acts : InboundBegin(h, a)
  BY <1>1 DEF InboundBegin, FirstDelivery
<1>2. CASE \E h \in Handlers : CreateCheck(h)
  BY <1>2 DEF CreateCheck, At, Goes
<1>3. CASE \E h \in Handlers : CreateGivesUp(h)
  BY <1>3 DEF CreateGivesUp, At, Goes
<1>4. CASE \E h \in Handlers : CreateInsert(h)
  <2> PICK h \in Handlers : CreateInsert(h)
    BY <1>4
  <2>1. Note(h) \in Notes /\ act[h] \in Acts /\ Sender[act[h]] \in Actors
    BY <1>0 DEF CreateInsert, At, Note
  <2>2. QED
    BY <2>1, PutClipType DEF CreateInsert, At, Goes
<1>5. CASE \E h \in Handlers : DeleteLookup(h)
  BY <1>5 DEF DeleteLookup, At, Goes, DeleteTarget
<1>6. CASE \E h \in Handlers : DeleteTombstone(h)
  BY <1>6, <1>0 DEF DeleteTombstone, Note, Goes
<1>7. CASE \E h \in Handlers : DeleteMark(h)
  BY ZenonT(60), <1>7 DEF DeleteMark, Goes
<1>8. CASE \E h \in Handlers : UpdateLookup(h)
  BY <1>8 DEF UpdateLookup, At, Goes
<1>9. CASE \E h \in Handlers : UpdateWrite(h)
  BY ZenonT(60), <1>9 DEF UpdateWrite, Goes
<1>10. CASE \E h \in Handlers : LogOnly(h)
  BY <1>10 DEF LogOnly, At, Goes
<1>11. CASE \E h \in Handlers : InboundFinish(h)
  BY <1>11, <1>0 DEF InboundFinish, Leaves
<1>12. CASE \E h \in Handlers : HandlerFails(h)
  BY <1>12 DEF HandlerFails, Leaves
<1>13. CASE \E b \in Backfilled : BackfillFetch(b)
  BY <1>13 DEF BackfillFetch
<1>14. CASE BackfillIngest
  <2>1. fetched[1] \in Actors /\ fetched[2] \in Notes
    BY <1>14 DEF BackfillIngest
  <2>2. QED
    BY <1>14, <2>1, PutClipType DEF BackfillIngest
<1>15. CASE Crash
  BY <1>15 DEF Crash
<1>16. CASE UNCHANGED vars
  BY <1>16
<1>17. QED
  BY SplitNext, <1>1, <1>2, <1>3, <1>4, <1>5, <1>6, <1>7, <1>8, <1>9, <1>10, <1>11, <1>12, <1>13,
     <1>14, <1>15, <1>16 DEF NextCases

\* What all the steps of a handler that has its row, its end excepted, share:
\* they keep the activity and leave the activities table alone.
Continues(h) ==
  /\ h \in Handlers /\ Busy(h)
  /\ pc' = [pc EXCEPT ![h] = pc'[h]] /\ pc'[h] # "idle"
  /\ UNCHANGED <<act, late, received, processed>>
  /\ tombs \subseteq tombs'

\* The steps between the gate and the end continue.
LEMMA MiddleContinues ==
  ASSUME TypeOK, NEW h \in Handlers,
         \/ CreateCheck(h) \/ CreateGivesUp(h) \/ CreateInsert(h)
         \/ DeleteLookup(h) \/ DeleteTombstone(h) \/ DeleteMark(h)
         \/ UpdateLookup(h) \/ UpdateWrite(h) \/ LogOnly(h)
  PROVE  Continues(h)
<1> USE DEF TypeOK, Continues, Busy, Goes, At, tables
<1>1. CASE CreateCheck(h)
  BY <1>1 DEF CreateCheck
<1>2. CASE CreateGivesUp(h)
  BY <1>2 DEF CreateGivesUp
<1>3. CASE CreateInsert(h)
  BY <1>3 DEF CreateInsert
<1>4. CASE DeleteLookup(h)
  BY <1>4 DEF DeleteLookup, DeleteTarget
<1>5. CASE DeleteTombstone(h)
  BY <1>5 DEF DeleteTombstone
<1>6. CASE DeleteMark(h)
  BY <1>6 DEF DeleteMark
<1>7. CASE UpdateLookup(h)
  BY <1>7 DEF UpdateLookup
<1>8. CASE UpdateWrite(h)
  BY <1>8 DEF UpdateWrite
<1>9. CASE LogOnly(h)
  BY <1>9 DEF LogOnly
<1>10. QED
  BY <1>1, <1>2, <1>3, <1>4, <1>5, <1>6, <1>7, <1>8, <1>9

\* The shapes of a step, as far as the activities and their handlers go.
LEMMA Shapes ==
  ASSUME TypeOK, [Next]_vars
  PROVE  \/ \E h \in Handlers, a \in Acts : InboundBegin(h, a)
         \/ \E h \in Handlers : Continues(h)
         \/ \E h \in Handlers : InboundFinish(h)
         \/ \E h \in Handlers : HandlerFails(h)
         \/ Crash
         \/ UNCHANGED <<received, processed, tombs, pc, act, late>>
  BY SplitNext, MiddleContinues
  DEF NextCases, BackfillFetch, BackfillIngest, tables, vars

\* The gate: the rows stay with their handlers, one handler per row.
LEMMA GateStep ==
  ASSUME TypeOK, HasRow, AtMostOnce, [Next]_vars
  PROVE  HasRow' /\ AtMostOnce'
<1> USE DEF TypeOK, HasRow, AtMostOnce, Busy
<1>1. CASE \E h \in Handlers, a \in Acts : InboundBegin(h, a)
  BY <1>1 DEF InboundBegin, FirstDelivery
<1>2. CASE \E h \in Handlers : Continues(h)
  BY <1>2 DEF Continues
<1>3. CASE \E h \in Handlers : InboundFinish(h)
  BY <1>3 DEF InboundFinish, Leaves
<1>4. CASE \E h \in Handlers : HandlerFails(h)
  BY <1>4 DEF HandlerFails, Leaves, tables
<1>5. CASE Crash
  BY <1>5 DEF Crash, tables
<1>6. CASE UNCHANGED <<received, processed, tombs, pc, act, late>>
  BY <1>6
<1>7. QED
  BY Shapes, <1>1, <1>2, <1>3, <1>4, <1>5, <1>6

\* Tombstones are never removed, so a note that was late stays so.
LEMMA LateStep ==
  ASSUME TypeOK, LateIsTombed, [Next]_vars
  PROVE  LateIsTombed'
<1> USE DEF TypeOK, LateIsTombed, Busy
<1>1. CASE \E h \in Handlers, a \in Acts : InboundBegin(h, a)
  BY <1>1 DEF InboundBegin
<1>2. CASE \E h \in Handlers : Continues(h)
  BY <1>2 DEF Continues
<1>3. CASE \E h \in Handlers : InboundFinish(h)
  BY <1>3 DEF InboundFinish, Leaves
<1>4. CASE \E h \in Handlers : HandlerFails(h)
  BY <1>4 DEF HandlerFails, Leaves, tables
<1>5. CASE Crash
  BY <1>5 DEF Crash, tables
<1>6. CASE UNCHANGED <<received, processed, tombs, pc, act, late>>
  BY <1>6
<1>7. QED
  BY Shapes, <1>1, <1>2, <1>3, <1>4, <1>5, <1>6

\* A late Create is turned away by the tombstone check, and nothing else
\* leads to the fetch and the INSERT.
LEMMA SwallowStep ==
  ASSUME TypeOK, LateIsTombed, LateCreateSwallowed, [Next]_vars
  PROVE  LateCreateSwallowed'
<1> USE DEF TypeOK, LateCreateSwallowed
<1>1. CASE \E h \in Handlers, a \in Acts : InboundBegin(h, a)
  BY <1>1 DEF InboundBegin
<1>2. CASE \E h \in Handlers : CreateCheck(h)
  BY <1>2 DEF CreateCheck, At, Goes, Tombstoned, Note, LateIsTombed
<1>3. CASE \E h \in Handlers : CreateGivesUp(h)
  BY <1>3 DEF CreateGivesUp, Goes
<1>4. CASE \E h \in Handlers : CreateInsert(h)
  BY <1>4 DEF CreateInsert, Goes
<1>5. CASE \E h \in Handlers : DeleteLookup(h)
  BY <1>5 DEF DeleteLookup, Goes, DeleteTarget
<1>6. CASE \E h \in Handlers : DeleteTombstone(h)
  BY <1>6 DEF DeleteTombstone, Goes
<1>7. CASE \E h \in Handlers : DeleteMark(h)
  BY <1>7 DEF DeleteMark, Goes
<1>8. CASE \E h \in Handlers : UpdateLookup(h)
  BY <1>8 DEF UpdateLookup, Goes
<1>9. CASE \E h \in Handlers : UpdateWrite(h)
  BY <1>9 DEF UpdateWrite, Goes
<1>10. CASE \E h \in Handlers : LogOnly(h)
  BY <1>10 DEF LogOnly, Goes
<1>11. CASE \E h \in Handlers : InboundFinish(h)
  BY <1>11 DEF InboundFinish, Leaves
<1>12. CASE \E h \in Handlers : HandlerFails(h)
  BY <1>12 DEF HandlerFails, Leaves
<1>13. CASE Crash
  BY <1>13 DEF Crash
<1>14. CASE UNCHANGED <<pc, late>>
  BY <1>14
<1>15. QED
  BY SplitNext, <1>1, <1>2, <1>3, <1>4, <1>5, <1>6, <1>7, <1>8, <1>9, <1>10, <1>11, <1>12, <1>13, <1>14
  DEF NextCases, BackfillFetch, BackfillIngest, vars

\* Rows of the activities table are never removed.
LEMMA ReceivedGrows ==
  ASSUME TypeOK, [Next]_vars
  PROVE  received \subseteq received'
  BY Shapes DEF InboundBegin, Continues, InboundFinish, HandlerFails, Crash, tables

\* The writes to clips: an INSERT by a Create or by the backfill, the deletion
\* and the edit.
LEMMA ClipWrites ==
  ASSUME TypeOK, [Next]_vars
  PROVE  \/ \E h \in Handlers : CreateInsert(h)
         \/ \E h \in Handlers : DeleteMark(h)
         \/ \E h \in Handlers : UpdateWrite(h)
         \/ BackfillIngest
         \/ UNCHANGED <<clip, owner, text>>
  BY SplitNext
  DEF NextCases, InboundBegin, CreateCheck, CreateGivesUp, DeleteLookup, DeleteTombstone,
      UpdateLookup, LogOnly, InboundFinish, HandlerFails, BackfillFetch, Crash, tables, vars

\* A row stays, and stays with the actor whose Create or feed inserted it.
RowStays(n) == clip[n] # "none" => clip'[n] # "none" /\ owner'[n] = owner[n]

LEMMA RowsStay ==
  ASSUME TypeOK, [Next]_vars, NEW n \in Notes
  PROVE  RowStays(n)
<1> USE DEF TypeOK, RowStays
<1>1. CASE \E h \in Handlers : CreateInsert(h)
  BY <1>1 DEF CreateInsert, PutClip
<1>2. CASE \E h \in Handlers : DeleteMark(h)
  BY <1>2 DEF DeleteMark
<1>3. CASE \E h \in Handlers : UpdateWrite(h)
  BY <1>3 DEF UpdateWrite
<1>4. CASE BackfillIngest
  BY <1>4 DEF BackfillIngest, PutClip
<1>5. CASE UNCHANGED <<clip, owner, text>>
  BY <1>5
<1>6. QED
  BY ClipWrites, <1>1, <1>2, <1>3, <1>4, <1>5

\* A handler that is where it was, with the same activity, keeps its right.
LEMMA StillAuthorised ==
  ASSUME TypeOK, HasRow, [Next]_vars, NEW h \in Handlers, Authorised(h),
         act'[h] = act[h], pc'[h] = pc[h]
  PROVE  Authorised(h)'
<1>1. CASE ~Busy(h)
  BY <1>1 DEF Authorised, Busy
<1>2. CASE Busy(h)
  <2>1. Note(h) \in Notes
    BY <1>2, ConstantAssumption DEF HasRow, TypeOK, Note
  <2>2. RowStays(Note(h))
    BY <2>1, RowsStay
  <2>3. QED
    BY <2>2 DEF Authorised, ByOwner, ByAttributed, Note, RowStays
<1>3. QED
  BY <1>1, <1>2

\* Every check of the sender stands before the phase that writes, and what it
\* found still holds when the phase is reached.
LEMMA WritersStep ==
  ASSUME TypeOK, HasRow, WritersAuthorised, [Next]_vars
  PROVE  WritersAuthorised'
<1> SUFFICES ASSUME NEW g \in Handlers
             PROVE  Authorised(g)'
  BY DEF WritersAuthorised
<1>0. Authorised(g)
  BY DEF WritersAuthorised
<1>a. CASE act'[g] = act[g] /\ pc'[g] = pc[g]
  BY <1>0, <1>a, StillAuthorised
<1>b. CASE pc'[g] \in {"idle", "begun", "finishing", "unknown"}
  BY <1>b DEF Authorised
<1> USE DEF TypeOK, Goes
<1>1. CASE \E h \in Handlers, a \in Acts : InboundBegin(h, a)
  BY <1>1, <1>a, <1>b DEF InboundBegin
<1>2. CASE \E h \in Handlers : CreateCheck(h)
  <2> PICK h \in Handlers : CreateCheck(h)
    BY <1>2
  <2>1. CASE g = h /\ ByAttributed(h)
    BY <2>1 DEF CreateCheck, At, Authorised, ByAttributed
  <2>2. CASE g # h \/ ~ByAttributed(h)
    BY <2>2, <1>a, <1>b DEF CreateCheck
  <2>3. QED
    BY <2>1, <2>2
<1>3. CASE \E h \in Handlers : CreateGivesUp(h)
  BY <1>3, <1>a, <1>b DEF CreateGivesUp
<1>4. CASE \E h \in Handlers : CreateInsert(h)
  BY <1>4, <1>a, <1>b DEF CreateInsert
<1>5. CASE \E h \in Handlers : DeleteLookup(h)
  <2> PICK h \in Handlers : DeleteLookup(h)
    BY <1>5
  <2>1. CASE g = h /\ DeleteTarget(h) = "owned"
    BY <2>1 DEF DeleteLookup, DeleteTarget, At, Authorised, ByOwner, Note, tables
  <2>2. CASE g # h \/ DeleteTarget(h) # "owned"
    BY <2>2, <1>a, <1>b DEF DeleteLookup, DeleteTarget
  <2>3. QED
    BY <2>1, <2>2
<1>6. CASE \E h \in Handlers : DeleteTombstone(h)
  <2> PICK h \in Handlers : DeleteTombstone(h)
    BY <1>6
  <2>1. CASE g = h /\ pc[h] = "owned"
    BY <2>1, <1>0 DEF DeleteTombstone, Authorised, ByOwner, Note
  <2>2. CASE g # h \/ pc[h] # "owned"
    BY <2>2, <1>a, <1>b DEF DeleteTombstone
  <2>3. QED
    BY <2>1, <2>2
<1>7. CASE \E h \in Handlers : DeleteMark(h)
  BY <1>7, <1>a, <1>b DEF DeleteMark
<1>8. CASE \E h \in Handlers : UpdateLookup(h)
  <2> PICK h \in Handlers : UpdateLookup(h)
    BY <1>8
  <2>1. CASE g = h /\ clip[Note(h)] = "live" /\ ByOwner(h)
    BY <2>1 DEF UpdateLookup, At, Authorised, ByOwner, Note, tables
  <2>2. CASE g # h \/ clip[Note(h)] # "live" \/ ~ByOwner(h)
    BY <2>2, <1>a, <1>b DEF UpdateLookup
  <2>3. QED
    BY <2>1, <2>2
<1>9. CASE \E h \in Handlers : UpdateWrite(h)
  BY <1>9, <1>a, <1>b DEF UpdateWrite
<1>10. CASE \E h \in Handlers : LogOnly(h)
  BY <1>10, <1>a, <1>b DEF LogOnly
<1>11. CASE \E h \in Handlers : InboundFinish(h)
  BY <1>11, <1>a, <1>b DEF InboundFinish, Leaves
<1>12. CASE \E h \in Handlers : HandlerFails(h)
  BY <1>12, <1>a, <1>b DEF HandlerFails, Leaves
<1>13. CASE Crash
  BY <1>13, <1>b DEF Crash
<1>14. CASE UNCHANGED <<pc, act>>
  BY <1>14, <1>a
<1>15. QED
  BY SplitNext, <1>1, <1>2, <1>3, <1>4, <1>5, <1>6, <1>7, <1>8, <1>9, <1>10, <1>11, <1>12, <1>13, <1>14
  DEF NextCases, BackfillFetch, BackfillIngest, vars

\* What OnlyOwnerSpeaks says of one note.
Owned(n) ==
  clip[n] # "none" =>
    /\ Claimed(n, owner[n])
    /\ text[n] # NoAct => text[n] \in received /\ Object[text[n]] = n /\ Sender[text[n]] = owner[n]
    /\ clip[n] = "deleted" =>
         \E a \in received : Kind[a] = "Delete" /\ Object[a] = n /\ Sender[a] = owner[n]

\* A note whose row is not touched stays owned while activities arrive.
LEMMA StillOwned ==
  ASSUME NEW n \in Notes, Owned(n), received \subseteq received',
         clip'[n] = clip[n], owner'[n] = owner[n], text'[n] = text[n]
  PROVE  Owned(n)'
  BY DEF Owned, Claimed

\* Only the owner writes.
LEMMA OwnerStep ==
  ASSUME TypeOK, HasRow, WritersAuthorised, OnlyOwnerSpeaks, [Next]_vars
  PROVE  OnlyOwnerSpeaks'
<1> SUFFICES ASSUME NEW n \in Notes
             PROVE  Owned(n)'
  BY DEF OnlyOwnerSpeaks, Owned
<1>0. Owned(n) /\ received \subseteq received'
  BY ReceivedGrows DEF OnlyOwnerSpeaks, Owned
<1>a. CASE clip'[n] = clip[n] /\ owner'[n] = owner[n] /\ text'[n] = text[n]
  BY <1>0, <1>a, StillOwned
<1> USE DEF TypeOK
<1>1. CASE \E h \in Handlers : CreateInsert(h)
  <2> PICK h \in Handlers : CreateInsert(h)
    BY <1>1
  <2>1. /\ act[h] \in received /\ Kind[act[h]] = "Create"
        /\ Attributed[act[h]] = Sender[act[h]] /\ Sender[act[h]] \notin Locals
    BY DEF CreateInsert, At, WritersAuthorised, Authorised, ByAttributed, HasRow, Busy
  <2>2. CASE Note(h) = n /\ clip[n] = "none"
    <3>1. clip'[n] = "live" /\ owner'[n] = Sender[act[h]] /\ text'[n] = act[h]
      BY <2>2 DEF CreateInsert, PutClip
    <3>2. QED
      BY <3>1, <2>1, <2>2, <1>0 DEF Owned, Claimed, Note
  <2>3. CASE Note(h) # n \/ clip[n] # "none"
    BY <2>3, <1>a DEF CreateInsert, PutClip
  <2>4. QED
    BY <2>2, <2>3
<1>2. CASE \E h \in Handlers : DeleteMark(h)
  <2> PICK h \in Handlers : DeleteMark(h)
    BY <1>2
  <2>1. /\ Sender[act[h]] = owner[Object[act[h]]]
        /\ clip[Object[act[h]]] # "none"
        /\ Kind[act[h]] = "Delete"
        /\ act[h] \in received
    BY DEF DeleteMark, WritersAuthorised, Authorised, ByOwner, Note, HasRow, Busy
  <2>2. CASE Object[act[h]] = n
    BY <2>1, <2>2, <1>0 DEF DeleteMark, Note, Owned, Claimed
  <2>3. CASE Object[act[h]] # n
    BY <2>3, <1>a DEF DeleteMark, Note
  <2>4. QED
    BY <2>2, <2>3
<1>3. CASE \E h \in Handlers : UpdateWrite(h)
  <2> PICK h \in Handlers : UpdateWrite(h)
    BY <1>3
  <2>1. /\ Sender[act[h]] = owner[Object[act[h]]]
        /\ clip[Object[act[h]]] # "none"
        /\ act[h] \in received
    BY DEF UpdateWrite, WritersAuthorised, Authorised, ByOwner, Note, HasRow, Busy
  <2>2. CASE Object[act[h]] = n
    BY <2>1, <2>2, <1>0 DEF UpdateWrite, Note, Owned, Claimed
  <2>3. CASE Object[act[h]] # n
    BY <2>3, <1>a DEF UpdateWrite, Note
  <2>4. QED
    BY <2>2, <2>3
<1>4. CASE BackfillIngest
  <2>1. fetched \in Backfilled
    BY <1>4 DEF BackfillIngest
  <2>2. CASE fetched[2] = n /\ fetched[3] = fetched[1] /\ clip[n] = "none"
    <3>1. clip'[n] = "live" /\ owner'[n] = fetched[1] /\ text'[n] = NoAct
      BY <1>4, <2>2 DEF BackfillIngest, PutClip
    <3>2. <<fetched[1], n, fetched[1]>> \in Backfilled
      BY <2>1, <2>2, ConstantAssumption
    <3>3. QED
      BY <3>1, <3>2 DEF Owned, Claimed
  <2>3. CASE ~(fetched[2] = n /\ fetched[3] = fetched[1] /\ clip[n] = "none")
    BY <1>4, <2>3, <1>a DEF BackfillIngest, PutClip
  <2>4. QED
    BY <2>2, <2>3
<1>5. CASE UNCHANGED <<clip, owner, text>>
  BY <1>5, <1>a
<1>6. QED
  BY ClipWrites, <1>1, <1>2, <1>3, <1>4, <1>5

\* The invariant is inductive.
LEMMA IInvStep ==
  ASSUME IInv, [Next]_vars
  PROVE  IInv'
  BY TypeStep, GateStep, LateStep, SwallowStep, WritersStep, OwnerStep DEF IInv

-----------------------------------------------------------------------------

\* The inductive invariant holds in every state the handlers can reach.
THEOREM Invariance == Spec => []IInv
<1>1. Init => IInv
  BY InitIInv
<1>2. IInv /\ [Next]_vars => IInv'
  BY IInvStep
<1>3. QED
  BY <1>1, <1>2, PTL DEF Spec

\* Type correctness of the tables and the handlers.
THEOREM TypeCorrect == Spec => []TypeOK
<1>1. IInv => TypeOK
  BY DEF IInv
<1>2. QED
  BY <1>1, Invariance, PTL

\* inbound_begin is a gate: no activity is handled twice at the same time, or
\* again once processed, however many handlers run.
THEOREM GateCorrect == Spec => []AtMostOnce
<1>1. IInv => AtMostOnce
  BY DEF IInv
<1>2. QED
  BY <1>1, Invariance, PTL

\* A Create that begins after the Delete of its note never inserts a clip.
THEOREM SwallowCorrect == Spec => []LateCreateSwallowed
<1>1. IInv => LateCreateSwallowed
  BY DEF IInv
<1>2. QED
  BY <1>1, Invariance, PTL

\* A clip has one owner, who claimed its note; it shows what that actor said
\* and is deleted by that actor only.
THEOREM OwnershipCorrect == Spec => []OnlyOwnerSpeaks
<1>1. IInv => OnlyOwnerSpeaks
  BY DEF IInv
<1>2. QED
  BY <1>1, Invariance, PTL

\* A deleted clip is never live again: create_remote inserts where there is
\* no row, and no other statement writes "live".
THEOREM DeletionCorrect == Spec => DeletedStaysDeleted
<1>1. ASSUME TypeOK, [Next]_vars
      PROVE  \A n \in Notes : clip[n] = "deleted" => clip'[n] = "deleted"
  BY <1>1, ClipWrites DEF TypeOK, CreateInsert, DeleteMark, UpdateWrite, BackfillIngest, PutClip
<1>2. QED
  BY <1>1, TypeCorrect, PTL DEF Spec, DeletedStaysDeleted

=============================================================================
