---------------------------- MODULE FollowsProofs ----------------------------
(***************************************************************************)
(* The safety properties of Follows and the refinement of FollowRelation,  *)
(* for any actors, pairs, activity ids, requests, arrivals and faults.     *)
(***************************************************************************)
EXTENDS Follows, TLAPS

InboxPhases == {"begun", "recording", "accepting", "answering", "settling", "backfilling", "removing",
                "finishing"}

\* A row carries the id of a Follow of its own pair; a row that is there has one.
RowsNamed ==
  \A p \in Pairs :
    /\ act[p] \in Ids => pair[act[p]] = p
    /\ state[p] # "none" <=> act[p] \in Ids

\* A request under way is about a Follow that somebody made, and what it holds
\* fits the statement it stands at.
Holds(h) ==
  /\ pc[h] # "idle" => msg[h] \in Msgs /\ pair[Id(h)] \in Pairs
  /\ pc[h] \in {"dropping", "settling", "backfilling", "removing"} => found[h] = pair[Id(h)]
  /\ pc[h] \in InboxPhases => msg[h] \in received
  /\ pc[h] \in InboxPhases /\ msg[h][1] = "Follow" => Inbound(pair[Id(h)])
  /\ pc[h] \in {"upserted", "dropping", "dropped"} => Follower(pair[Id(h)]) \in Locals
  /\ pc[h] = "removing" => msg[h][1] = "Undo"
  /\ pc[h] \in {"dropping", "dropped"} => msg[h][1] = "Undo"
  /\ pc[h] = "dropping" => Id(h) \in unfollowed
  /\ pc[h] = "upserted" => msg[h][1] = "Follow"
  /\ pc[h] = "accepting" => Target(pair[Id(h)]) \notin Locked

RequestsHold == \A h \in Requests : Holds(h)

\* Whatever is received, sent or recorded names a Follow that was made.
NamesKnown ==
  /\ processed \subseteq received
  /\ \A m \in received : pair[m[2]] \in Pairs
  /\ \A m \in sent : pair[m[2]] \in Pairs
  /\ \A f \in recorded : pair[f] \in Pairs

\* The invariant of the table and of what requests hold.
TableInv == TypeOK /\ RowsNamed /\ RequestsHold /\ NamesKnown

-----------------------------------------------------------------------------

\* The cases a step is split into.
NextCases ==
  \/ \E a \in Locals : DeleteActor(a)
  \/ \E p \in Pairs, f \in Ids : RemoteFollows(p, f)
  \/ \E p \in Pairs, f \in Ids : FollowLocally(p, f)
  \/ \E h \in Requests, p \in Pairs, f \in Ids : FollowRemotely(h, p, f)
  \/ \E h \in Requests, p \in Pairs : UnfollowReads(h, p)
  \/ \E h \in Requests : UnfollowDeletes(h)
  \/ \E h \in Requests : ApiEnqueues(h)
  \/ \E h \in Requests, m \in Msgs : InboundBegin(h, m)
  \/ \E h \in Requests : FollowChecks(h)
  \/ \E h \in Requests : FollowRecords(h)
  \/ \E h \in Requests : FollowAccepts(h)
  \/ \E h \in Requests : FollowAnswers(h)
  \/ \E h \in Requests : AnswerLooksUp(h)
  \/ \E h \in Requests : AcceptSettles(h)
  \/ \E h \in Requests : AcceptBackfills(h)
  \/ \E h \in Requests : RejectSettles(h)
  \/ \E h \in Requests : UndoLooksUp(h)
  \/ \E h \in Requests : UndoRemoves(h)
  \/ \E h \in Requests : InboundFinish(h)
  \/ \E h \in Requests : RequestFails(h)
  \/ UNCHANGED vars

\* Next is the disjunction of its actions.
LEMMA SplitNext ==
  ASSUME [Next]_vars
  PROVE  NextCases
  BY DEF Next, HandlerStep, NextCases

\* The empty tables with no request under way satisfy the invariant.
LEMMA InitTable ==
  ASSUME Init
  PROVE  TableInv
  BY ConstantAssumption
  DEF Init, TableInv, TypeOK, States, Phases, RowsNamed, RequestsHold, Holds, InboxPhases, NamesKnown

\* Who is at either end of a pair: an inbound one has its target here.
LEMMA Ends ==
  ASSUME NEW p \in Pairs
  PROVE  /\ Inbound(p) => Target(p) \in Locals /\ Follower(p) \notin Locals
         /\ Outbound(p) => Target(p) \notin Locals
         /\ Target(p) \in Locals \cup Remotes
  BY ConstantAssumption DEF Inbound, Outbound, Target, Follower

\* A message of Msgs is a kind and an id.
LEMMA MsgParts ==
  ASSUME NEW m \in Msgs
  PROVE  /\ m[2] \in Ids /\ m[1] \in {"Follow", "Undo", "Accept", "Reject"}
         /\ m = <<m[1], m[2]>>
  BY DEF Msgs

\* Every kind and id make a message.
LEMMA MsgMade ==
  ASSUME NEW k \in {"Follow", "Undo", "Accept", "Reject"}, NEW f \in Ids
  PROVE  <<k, f>> \in Msgs /\ <<k, f>>[1] = k /\ <<k, f>>[2] = f
  BY DEF Msgs

\* The rows of an id are those of the pair that made it.
LEMMA RowOfPair ==
  ASSUME RowsNamed, NEW f \in Ids, NEW p \in RowOf(f)
  PROVE  p = pair[f] /\ p \in Pairs /\ act[p] = f
  BY DEF RowsNamed, RowOf

\* Every step keeps the tables and the requests well-formed.
LEMMA TypeStep ==
  ASSUME TableInv, [Next]_vars
  PROVE  TypeOK'
<1> USE ConstantAssumption DEF TableInv, TypeOK, Phases, States, table, log, local, history, vars
<1>0. \A h \in Requests : pc[h] # "idle" =>
        msg[h] \in Msgs /\ Id(h) \in Ids /\ pair[Id(h)] \in Pairs
  BY MsgParts DEF RequestsHold, Holds, Id
<1>a. \A h \in Requests : OtherRow(h) \subseteq Ids \/ found[h] \notin Pairs
  BY DEF OtherRow
<1>1. CASE \E a \in Locals : DeleteActor(a)
  BY <1>1 DEF DeleteActor
<1>2. CASE \E p \in Pairs, f \in Ids : RemoteFollows(p, f)
  BY <1>2 DEF RemoteFollows
<1>3. CASE \E p \in Pairs, f \in Ids : FollowLocally(p, f)
  BY <1>3 DEF FollowLocally, Upsert
<1>4. CASE \E h \in Requests, p \in Pairs, f \in Ids : FollowRemotely(h, p, f)
  <2> PICK h \in Requests, p \in Pairs, f \in Ids : FollowRemotely(h, p, f)
    BY <1>4
  <2>1. <<"Follow", f>> \in Msgs
    BY MsgMade
  <2>2. QED
    BY <2>1 DEF FollowRemotely, Upsert, Starts
<1>5. CASE \E h \in Requests, p \in Pairs : UnfollowReads(h, p)
  <2> PICK h \in Requests, p \in Pairs : UnfollowReads(h, p)
    BY <1>5
  <2>1. act[p] \in Ids /\ <<"Undo", act[p]>> \in Msgs
    BY MsgMade DEF UnfollowReads, RowsNamed
  <2>2. QED
    BY <2>1 DEF UnfollowReads, Starts
<1>6. CASE \E h \in Requests : UnfollowDeletes(h)
  <2> PICK h \in Requests : UnfollowDeletes(h)
    BY <1>6
  <2>1. found[h] \in Pairs
    BY <1>0 DEF UnfollowDeletes, RequestsHold, Holds
  <2>2. raced' \subseteq Ids
    BY <2>1, <1>a DEF UnfollowDeletes
  <2>3. faults' \in 0..MaxEvents
    BY DEF UnfollowDeletes, Bounded
  <2>4. state' \in [Pairs -> States] /\ act' \in [Pairs -> Ids \cup {NoId}]
    BY <2>1 DEF UnfollowDeletes, DeletePair
  <2>5. QED
    BY <2>2, <2>3, <2>4 DEF UnfollowDeletes, Goes
<1>7. CASE \E h \in Requests : ApiEnqueues(h)
  BY <1>7, <1>0 DEF ApiEnqueues, Enqueue, Leaves
<1>8. CASE \E h \in Requests, m \in Msgs : InboundBegin(h, m)
  BY <1>8 DEF InboundBegin, Starts, Bounded
<1>9. CASE \E h \in Requests : FollowChecks(h)
  BY <1>9 DEF FollowChecks, Goes
<1>10. CASE \E h \in Requests : FollowRecords(h)
  <2> PICK h \in Requests : FollowRecords(h)
    BY <1>10
  <2>1. Id(h) \in Ids /\ pair[Id(h)] \in Pairs
    BY <1>0 DEF FollowRecords, At
  <2>2. QED
    BY <2>1 DEF FollowRecords, At, Upsert, Goes
<1>11. CASE \E h \in Requests : FollowAccepts(h)
  BY <1>11, <1>0 DEF FollowAccepts, At, SetState, Goes
<1>12. CASE \E h \in Requests : FollowAnswers(h)
  <2> PICK h \in Requests : FollowAnswers(h)
    BY <1>12
  <2>1. <<"Accept", Id(h)>> \in Msgs
    BY <1>0, MsgMade DEF FollowAnswers, At
  <2>2. QED
    BY <2>1 DEF FollowAnswers, At, Enqueue, Goes
<1>13. CASE \E h \in Requests : AnswerLooksUp(h)
  BY <1>13 DEF AnswerLooksUp, Lookup, RowOf
<1>14. CASE \E h \in Requests : AcceptSettles(h)
  <2> PICK h \in Requests : AcceptSettles(h)
    BY <1>14
  <2>1. found[h] \in Pairs
    BY <1>0 DEF AcceptSettles, At, RequestsHold, Holds
  <2>2. mistaken' \subseteq Ids
    BY <2>1, <1>a DEF AcceptSettles
  <2>3. QED
    BY <2>1, <2>2 DEF AcceptSettles, SetState, Goes
<1>b. CASE \E h \in Requests : AcceptBackfills(h)
  <2> PICK h \in Requests : AcceptBackfills(h)
    BY <1>b
  <2>1. found[h] \in Pairs /\ Target(found[h]) \in Locals \cup Remotes
    BY <1>0, Ends DEF AcceptBackfills, At, RequestsHold, Holds
  <2>2. QED
    BY <2>1 DEF AcceptBackfills, Goes, Bounded
<1>15. CASE \E h \in Requests : RejectSettles(h)
  <2> PICK h \in Requests : RejectSettles(h)
    BY <1>15
  <2>1. found[h] \in Pairs
    BY <1>0 DEF RejectSettles, At, RequestsHold, Holds
  <2>2. mistaken' \subseteq Ids
    BY <2>1, <1>a DEF RejectSettles
  <2>3. QED
    BY <2>1, <2>2 DEF RejectSettles, SetState, Goes
<1>16. CASE \E h \in Requests : UndoLooksUp(h)
  <2> PICK h \in Requests : UndoLooksUp(h)
    BY <1>16
  <2>1. Id(h) \in Ids
    BY <1>0 DEF UndoLooksUp, At
  <2>2. overtaken' \subseteq Ids
    BY <2>1 DEF UndoLooksUp
  <2>3. QED
    BY <2>2 DEF UndoLooksUp, Lookup, RowOf
<1>17. CASE \E h \in Requests : UndoRemoves(h)
  <2> PICK h \in Requests : UndoRemoves(h)
    BY <1>17
  <2>1. found[h] \in Pairs
    BY <1>0 DEF UndoRemoves, At, RequestsHold, Holds
  <2>2. QED
    BY <2>1, <1>a DEF UndoRemoves, DeletePair, Goes
<1>18. CASE \E h \in Requests : InboundFinish(h)
  BY <1>18, <1>0 DEF InboundFinish, Leaves
<1>19. CASE \E h \in Requests : RequestFails(h)
  BY <1>19 DEF RequestFails, Leaves, Bounded
<1>20. CASE UNCHANGED vars
  BY <1>20
<1>21. QED
  BY SplitNext, <1>1, <1>2, <1>3, <1>4, <1>5, <1>6, <1>7, <1>8, <1>9, <1>10, <1>11,
     <1>12, <1>13, <1>14, <1>b, <1>15, <1>16, <1>17, <1>18, <1>19, <1>20 DEF NextCases

\* The id of a new Follow had no pair before, so no row, message or request
\* names it.
LEMMA FreshUnused ==
  ASSUME TableInv, NEW p \in Pairs, NEW f \in Ids, Fresh(p, f)
  PROVE  /\ pair[f] \notin Pairs
         /\ \A q \in Pairs : act[q] # f
         /\ \A m \in received \cup sent : m[2] # f
         /\ \A h \in Requests : pc[h] # "idle" => Id(h) # f
         /\ f \notin recorded
  BY ConstantAssumption DEF TableInv, RowsNamed, RequestsHold, Holds, NamesKnown, Fresh

\* Every step keeps the names on the rows.
LEMMA RowsStep ==
  ASSUME TableInv, [Next]_vars
  PROVE  RowsNamed'
<1> USE ConstantAssumption DEF TableInv, TypeOK, RowsNamed, table, log, local, history, vars
<1>0. \A h \in Requests : pc[h] # "idle" =>
        msg[h] \in Msgs /\ Id(h) \in Ids /\ pair[Id(h)] \in Pairs
  BY MsgParts DEF RequestsHold, Holds, Id
<1>1. CASE \E p \in Pairs, f \in Ids : RemoteFollows(p, f)
  BY <1>1, FreshUnused DEF RemoteFollows
<1>2. CASE \E p \in Pairs, f \in Ids : FollowLocally(p, f)
  BY <1>2, FreshUnused DEF FollowLocally, Upsert
<1>3. CASE \E h \in Requests, p \in Pairs, f \in Ids : FollowRemotely(h, p, f)
  BY <1>3, FreshUnused DEF FollowRemotely, Upsert
<1>4. CASE \E h \in Requests : UnfollowDeletes(h)
  BY <1>4 DEF UnfollowDeletes, DeletePair
<1>5. CASE \E h \in Requests : FollowRecords(h)
  <2> PICK h \in Requests : FollowRecords(h)
    BY <1>5
  <2>1. Id(h) \in Ids /\ pair[Id(h)] \in Pairs
    BY <1>0 DEF FollowRecords, At
  <2>2. QED
    BY <2>1 DEF FollowRecords, Upsert
<1>6. CASE \E h \in Requests : FollowAccepts(h)
  BY <1>6 DEF FollowAccepts, SetState
<1>7. CASE \E h \in Requests : AcceptSettles(h)
  BY <1>7 DEF AcceptSettles, SetState
<1>8. CASE \E h \in Requests : RejectSettles(h)
  BY <1>8 DEF RejectSettles, SetState
<1>9. CASE \E h \in Requests : UndoRemoves(h)
  BY <1>9 DEF UndoRemoves, DeletePair
<1>10. CASE UNCHANGED <<state, act, pair>>
  BY <1>10
<1>11. QED
  BY SplitNext, <1>1, <1>2, <1>3, <1>4, <1>5, <1>6, <1>7, <1>8, <1>9, <1>10
  DEF NextCases, DeleteActor, UnfollowReads, ApiEnqueues, InboundBegin, FollowChecks, FollowAnswers,
      AnswerLooksUp, AcceptBackfills, UndoLooksUp, InboundFinish, RequestFails

\* Every step keeps the names in the logs known.
LEMMA KnownStep ==
  ASSUME TableInv, [Next]_vars
  PROVE  NamesKnown'
<1> USE ConstantAssumption DEF TableInv, TypeOK, NamesKnown, table, log, local, history, vars
<1>0. \A h \in Requests : pc[h] # "idle" =>
        msg[h] \in Msgs /\ Id(h) \in Ids /\ pair[Id(h)] \in Pairs
  BY MsgParts DEF RequestsHold, Holds, Id
<1>a. \A m \in Msgs : m[2] \in Ids
  BY MsgParts
<1>1. CASE \E p \in Pairs, f \in Ids : RemoteFollows(p, f)
  BY <1>1, <1>a DEF RemoteFollows
<1>2. CASE \E p \in Pairs, f \in Ids : FollowLocally(p, f)
  BY <1>2, <1>a DEF FollowLocally
<1>3. CASE \E h \in Requests, p \in Pairs, f \in Ids : FollowRemotely(h, p, f)
  BY <1>3, <1>a DEF FollowRemotely
<1>4. CASE \E h \in Requests : ApiEnqueues(h)
  BY <1>4, <1>0 DEF ApiEnqueues, Enqueue, Id
<1>5. CASE \E h \in Requests, m \in Msgs : InboundBegin(h, m)
  <2> PICK h \in Requests, m \in Msgs : InboundBegin(h, m)
    BY <1>5
  <2>1. pair[m[2]] \in Pairs
    BY <1>a DEF InboundBegin, MayArrive
  <2>2. QED
    BY <2>1 DEF InboundBegin
<1>6. CASE \E h \in Requests : FollowRecords(h)
  BY <1>6, <1>0 DEF FollowRecords, At
<1>7. CASE \E h \in Requests : FollowAnswers(h)
  <2> PICK h \in Requests : FollowAnswers(h)
    BY <1>7
  <2>1. Id(h) \in Ids /\ pair[Id(h)] \in Pairs
    BY <1>0 DEF FollowAnswers, At
  <2>2. \A m \in sent' : pair[m[2]] \in Pairs
    BY <2>1, MsgMade DEF FollowAnswers, Enqueue
  <2>3. QED
    BY <2>2 DEF FollowAnswers
<1>8. CASE \E h \in Requests : InboundFinish(h)
  <2> PICK h \in Requests : InboundFinish(h)
    BY <1>8
  <2>1. msg[h] \in received
    BY DEF InboundFinish, RequestsHold, Holds, InboxPhases
  <2>2. QED
    BY <2>1 DEF InboundFinish, history
<1>9. CASE UNCHANGED <<pair, received, processed, sent, recorded>>
  BY <1>9
<1>10. QED
  BY SplitNext, <1>1, <1>2, <1>3, <1>4, <1>5, <1>6, <1>7, <1>8, <1>9
  DEF NextCases, DeleteActor, UnfollowReads, UnfollowDeletes, FollowChecks, FollowAccepts,
      AnswerLooksUp, AcceptSettles, AcceptBackfills, RejectSettles, UndoLooksUp, UndoRemoves,
      RequestFails

\* Pairs are given once, and what was received or unfollowed stays.
LEMMA Monotone ==
  ASSUME TableInv, [Next]_vars
  PROVE  /\ \A f \in Ids : pair[f] \in Pairs => pair'[f] = pair[f]
         /\ received \subseteq received' /\ unfollowed \subseteq unfollowed'
<1> USE DEF TableInv, TypeOK, table, log, local, history, vars
<1>1. CASE \E p \in Pairs, f \in Ids : RemoteFollows(p, f)
  BY <1>1, FreshUnused DEF RemoteFollows
<1>2. CASE \E p \in Pairs, f \in Ids : FollowLocally(p, f)
  BY <1>2, FreshUnused DEF FollowLocally
<1>3. CASE \E h \in Requests, p \in Pairs, f \in Ids : FollowRemotely(h, p, f)
  BY <1>3, FreshUnused DEF FollowRemotely
<1>4. CASE \E h \in Requests, m \in Msgs : InboundBegin(h, m)
  BY <1>4 DEF InboundBegin
<1>5. CASE UNCHANGED <<pair, received>> /\ unfollowed \subseteq unfollowed'
  BY <1>5
<1>6. QED
  BY SplitNext, <1>1, <1>2, <1>3, <1>4, <1>5
  DEF NextCases, DeleteActor, UnfollowReads, UnfollowDeletes, ApiEnqueues, FollowChecks, FollowRecords,
      FollowAccepts, FollowAnswers, AnswerLooksUp, AcceptSettles, AcceptBackfills, RejectSettles,
      UndoLooksUp, UndoRemoves, InboundFinish, RequestFails

\* A step of one request leaves what the others hold.
LEMMA OthersHold ==
  ASSUME TableInv, [Next]_vars, NEW g \in Requests,
         pc'[g] = pc[g], msg'[g] = msg[g], found'[g] = found[g]
  PROVE  Holds(g)'
<1>1. /\ \A f \in Ids : pair[f] \in Pairs => pair'[f] = pair[f]
      /\ received \subseteq received' /\ unfollowed \subseteq unfollowed'
  BY Monotone
<1>2. CASE pc[g] = "idle"
  BY <1>2 DEF Holds, InboxPhases
<1>3. CASE pc[g] # "idle"
  <2>1. msg[g] \in Msgs /\ Id(g) \in Ids /\ pair[Id(g)] \in Pairs /\ Holds(g)
    BY <1>3, MsgParts DEF TableInv, RequestsHold, Holds, Id
  <2>2. Id(g)' = Id(g) /\ pair'[Id(g)] = pair[Id(g)]
    BY <1>1, <2>1 DEF Id
  <2>3. QED
    BY <1>1, <2>1, <2>2 DEF Holds
<1>4. QED
  BY <1>2, <1>3

\* A request that ends holds nothing.
LEMMA LeavesHold ==
  ASSUME TableInv, [Next]_vars, NEW h \in Requests, Leaves(h)
  PROVE  RequestsHold'
<1> USE DEF TableInv, TypeOK
<1>1. \A g \in Requests : g # h => Holds(g)'
  BY OthersHold DEF Leaves
<1>2. Holds(h)'
  BY DEF Leaves, Holds, InboxPhases
<1>3. QED
  BY <1>1, <1>2 DEF RequestsHold

\* Moving on within a handler.
LEMMA GoesHold ==
  ASSUME TableInv, [Next]_vars, NEW h \in Requests, NEW ph, Goes(h, ph), pc[h] # "idle",
         \/ pc[h] \in InboxPhases /\ ph \in {"recording", "answering", "finishing"}
         \/ ph = "accepting" /\ pc[h] = "recording" /\ Target(pair[Id(h)]) \notin Locked
         \/ ph = "backfilling" /\ pc[h] = "settling"
         \/ ph = "dropped" /\ pc[h] = "dropping"
  PROVE  RequestsHold'
<1> USE DEF TableInv, TypeOK
<1>1. \A g \in Requests : g # h => Holds(g)'
  BY OthersHold DEF Goes
<1>2. Holds(h)'
  <2>1. msg[h] \in Msgs /\ Id(h) \in Ids /\ pair[Id(h)] \in Pairs /\ Holds(h)
    BY MsgParts DEF RequestsHold, Holds, Id
  <2>2. Id(h)' = Id(h) /\ pair'[Id(h)] = pair[Id(h)] /\ received \subseteq received'
    BY Monotone, <2>1 DEF Goes, Id
  <2>3. pc'[h] = ph /\ msg'[h] = msg[h] /\ found'[h] = found[h]
    BY DEF Goes
  <2>4. QED
    BY <2>1, <2>2, <2>3 DEF Holds, InboxPhases
<1>3. QED
  BY <1>1, <1>2 DEF RequestsHold

\* A request that comes in holds what it is about.
LEMMA StartsHold ==
  ASSUME TableInv, [Next]_vars, NEW h \in Requests, NEW ph, NEW m \in Msgs, NEW p,
         Starts(h, ph, m, p), pair'[m[2]] \in Pairs,
         \/ ph = "upserted" /\ m[1] = "Follow" /\ Follower(pair'[m[2]]) \in Locals
         \/ ph = "dropping" /\ m[1] = "Undo" /\ Follower(pair'[m[2]]) \in Locals /\ p = pair'[m[2]]
            /\ m[2] \in unfollowed'
         \/ ph = "begun" /\ m \in received' /\ (m[1] = "Follow" => Inbound(pair'[m[2]]))
  PROVE  RequestsHold'
<1> USE DEF TableInv, TypeOK
<1>1. \A g \in Requests : g # h => Holds(g)'
  BY OthersHold DEF Starts
<1>2. pc'[h] = ph /\ msg'[h] = m /\ found'[h] = p
  BY DEF Starts
<1>3. Holds(h)'
  BY <1>2 DEF Holds, Id, InboxPhases
<1>4. QED
  BY <1>1, <1>3 DEF RequestsHold

\* The row a request found by an activity id is that of the pair.
LEMMA LookupHolds ==
  ASSUME TableInv, [Next]_vars, NEW h \in Requests, NEW ph, Lookup(h, ph), pc[h] = "begun",
         \/ ph = "settling"
         \/ ph = "removing" /\ msg[h][1] = "Undo"
  PROVE  RequestsHold'
<1> USE DEF TableInv, TypeOK
<1>1. \A g \in Requests : g # h => Holds(g)'
  BY OthersHold DEF Lookup
<1>2. Holds(h)'
  <2>1. msg[h] \in Msgs /\ Id(h) \in Ids /\ pair[Id(h)] \in Pairs /\ Holds(h)
    BY MsgParts DEF RequestsHold, Holds, Id
  <2>2. Id(h)' = Id(h) /\ pair'[Id(h)] = pair[Id(h)] /\ received \subseteq received'
    BY Monotone, <2>1 DEF Lookup, Id
  <2>3. msg'[h] = msg[h]
    BY DEF Lookup
  <2>4. CASE RowOf(Id(h)) = {}
    <3>1. pc'[h] = "finishing"
      BY <2>4 DEF Lookup
    <3>2. QED
      BY <2>1, <2>2, <2>3, <3>1 DEF Holds, InboxPhases
  <2>5. CASE RowOf(Id(h)) # {}
    <3>1. pc'[h] = ph /\ found'[h] = pair[Id(h)]
      BY <2>1, <2>5, RowOfPair DEF Lookup
    <3>2. QED
      BY <2>1, <2>2, <2>3, <3>1 DEF Holds, InboxPhases
  <2>6. QED
    BY <2>4, <2>5
<1>3. QED
  BY <1>1, <1>2 DEF RequestsHold

\* Every step keeps what requests hold in order.
LEMMA HoldsStep ==
  ASSUME TableInv, [Next]_vars
  PROVE  RequestsHold'
<1> USE DEF TableInv, TypeOK
<1>1. CASE \E h \in Requests, p \in Pairs, f \in Ids : FollowRemotely(h, p, f)
  <2> PICK h \in Requests, p \in Pairs, f \in Ids : FollowRemotely(h, p, f)
    BY <1>1
  <2>1. pair'[f] = p /\ Follower(p) \in Locals
    BY DEF FollowRemotely, Outbound
  <2>2. QED
    BY <2>1, MsgMade, StartsHold DEF FollowRemotely
<1>2. CASE \E h \in Requests, p \in Pairs : UnfollowReads(h, p)
  <2> PICK h \in Requests, p \in Pairs : UnfollowReads(h, p)
    BY <1>2
  <2>1. /\ act[p] \in Ids /\ pair[act[p]] = p /\ pair' = pair /\ Follower(p) \in Locals
        /\ act[p] \in unfollowed'
    BY DEF UnfollowReads, RowsNamed
  <2>2. QED
    BY <2>1, MsgMade, StartsHold DEF UnfollowReads
<1>3. CASE \E h \in Requests, m \in Msgs : InboundBegin(h, m)
  <2> PICK h \in Requests, m \in Msgs : InboundBegin(h, m)
    BY <1>3
  <2>1. pair' = pair /\ m \in received' /\ pair'[m[2]] \in Pairs
    BY KnownStep DEF InboundBegin, NamesKnown
  <2>2. m[1] = "Follow" => Inbound(pair'[m[2]])
    BY <2>1 DEF InboundBegin, MayArrive
  <2>3. QED
    BY <2>1, <2>2, StartsHold DEF InboundBegin
<1>4. CASE \E h \in Requests : UnfollowDeletes(h)
  BY <1>4, GoesHold DEF UnfollowDeletes
<1>5. CASE \E h \in Requests : FollowChecks(h)
  BY <1>5, GoesHold DEF FollowChecks, At, InboxPhases
<1>6. CASE \E h \in Requests : FollowRecords(h)
  BY <1>6, GoesHold DEF FollowRecords, At, InboxPhases
<1>7. CASE \E h \in Requests : FollowAccepts(h)
  BY <1>7, GoesHold DEF FollowAccepts, At, InboxPhases
<1>8. CASE \E h \in Requests : FollowAnswers(h)
  BY <1>8, GoesHold DEF FollowAnswers, At, InboxPhases
<1>9. CASE \E h \in Requests : AnswerLooksUp(h)
  BY <1>9, LookupHolds DEF AnswerLooksUp, At
<1>10. CASE \E h \in Requests : AcceptSettles(h)
  BY <1>10, GoesHold DEF AcceptSettles, At, InboxPhases
<1>a. CASE \E h \in Requests : AcceptBackfills(h)
  BY <1>a, GoesHold DEF AcceptBackfills, At, InboxPhases
<1>11. CASE \E h \in Requests : RejectSettles(h)
  BY <1>11, GoesHold DEF RejectSettles, At, InboxPhases
<1>12. CASE \E h \in Requests : UndoLooksUp(h)
  BY <1>12, LookupHolds DEF UndoLooksUp, At
<1>13. CASE \E h \in Requests : UndoRemoves(h)
  BY <1>13, GoesHold DEF UndoRemoves, At, InboxPhases
<1>14. CASE \E h \in Requests : ApiEnqueues(h) \/ InboundFinish(h) \/ RequestFails(h)
  BY <1>14, LeavesHold DEF ApiEnqueues, InboundFinish, RequestFails
<1>15. CASE UNCHANGED <<pc, msg, found>>
  BY <1>15, OthersHold DEF RequestsHold
<1>16. QED
  BY SplitNext, <1>1, <1>2, <1>3, <1>4, <1>5, <1>6, <1>7, <1>8, <1>9, <1>10, <1>a,
     <1>11, <1>12, <1>13, <1>14, <1>15
  DEF NextCases, DeleteActor, RemoteFollows, FollowLocally, local, vars

\* Every step keeps the invariant.
LEMMA TableStep ==
  ASSUME TableInv, [Next]_vars
  PROVE  TableInv'
  BY TypeStep, RowsStep, HoldsStep, KnownStep DEF TableInv

\* The invariant holds throughout.
LEMMA TableAlways == Spec => []TableInv
<1>1. Init => TableInv
  BY InitTable
<1>2. TableInv /\ [Next]_vars => TableInv'
  BY TableStep
<1>3. QED
  BY <1>1, <1>2, PTL DEF Spec

\* TYPES (api_unfollow's 404 and the inbox handlers): the table, the logs and
\* what requests hold keep their types in every run.
THEOREM TypeCorrect == Spec => []TypeOK
<1>1. TableInv => TypeOK
  BY DEF TableInv
<1>2. QED
  BY <1>1, TableAlways, PTL

-----------------------------------------------------------------------------
(* The refinement.                                                         *)

\* The abstract answers and ends change only with what arrives and what an
\* unfollow reads.
LEMMA MappingKept ==
  /\ received' = received => Answers' = Answers
  /\ UNCHANGED <<received, unfollowed>> => Ended' = Ended
  BY DEF Answers, Ended

\* The follow a row stands for is an id, and there is none without a row.
LEMMA Standing ==
  ASSUME TableInv, NEW p \in Pairs
  PROVE  /\ state[p] = "none" => act[p] = NoId
         /\ state[p] # "none" => act[p] \in Ids /\ act[p] # NoId
  BY ConstantAssumption DEF TableInv, TypeOK, RowsNamed

\* An answer to f writes the row of f's pair: it settles f, or the follow that
\* took its place.
LEMMA AnswerSettles ==
  ASSUME TableInv, NEW p \in Pairs, NEW f \in Ids, pair[f] = p, NEW d \in {"accepted", "rejected"},
         <<f, d>> \in Answers, SetState(p, d), mistaken' = mistaken \cup ({act[p]} \ {NoId, f}),
         UNCHANGED <<pair, received, unfollowed, raced>>
  PROVE  [Relation!Next]_(Relation!vars)
<1>1. Answers' = Answers /\ Ended' = Ended
  BY MappingKept
<1>2. CASE state[p] = "none"
  <2>1. state' = state /\ act' = act /\ mistaken' = mistaken
    BY <1>2, Standing DEF SetState, TableInv, TypeOK
  <2>2. QED
    BY <1>1, <2>1 DEF Relation!vars
<1>3. CASE state[p] # "none"
  <2>1. state' = [state EXCEPT ![p] = d] /\ act' = [act EXCEPT ![p] = act[p]]
    BY <1>3 DEF SetState, TableInv, TypeOK
  <2>2. Relation!Writes(p, act[p], d)
    BY <1>1, <2>1 DEF Relation!Writes
  <2>3. CASE act[p] = f
    <3>1. Relation!Settle(p, d)
      BY <1>3, <2>2, <2>3 DEF Relation!Settle
    <3>2. QED
      BY <3>1 DEF Relation!Next, Relation!Decisions
  <2>4. CASE act[p] # f
    <3>1. mistaken' = mistaken \cup {act[p]}
      BY <1>3, <2>4, Standing
    <3>2. Relation!SettleAnother(p, f, d)
      BY <1>3, <2>2, <2>4, <3>1 DEF Relation!SettleAnother
    <3>3. QED
      BY <3>2 DEF Relation!Next, Relation!Decisions
  <2>5. QED
    BY <2>3, <2>4
<1>4. QED
  BY <1>2, <1>3

\* An automatic target accepts whichever follow its row stands for.
LEMMA AutomaticSettles ==
  ASSUME TableInv, NEW p \in Automatic, SetState(p, "accepted"),
         UNCHANGED <<pair, received, unfollowed, raced, mistaken>>
  PROVE  [Relation!Next]_(Relation!vars)
<1>1. Answers' = Answers /\ Ended' = Ended /\ p \in Pairs
  BY MappingKept DEF Automatic
<1>2. CASE state[p] = "none"
  <2>1. state' = state /\ act' = act
    BY <1>1, <1>2 DEF SetState, TableInv, TypeOK
  <2>2. QED
    BY <1>1, <2>1 DEF Relation!vars
<1>3. CASE state[p] # "none"
  <2>1. state' = [state EXCEPT ![p] = "accepted"] /\ act' = [act EXCEPT ![p] = act[p]]
    BY <1>1, <1>3 DEF SetState, TableInv, TypeOK
  <2>2. Relation!Settle(p, "accepted")
    BY <1>1, <1>3, <2>1 DEF Relation!Settle, Relation!Writes
  <2>3. QED
    BY <1>1, <2>2 DEF Relation!Next, Relation!Decisions
<1>4. QED
  BY <1>2, <1>3

\* The end of f deletes the row of f's pair: it drops f, or the follow that took
\* its place.
LEMMA EndDrops ==
  ASSUME TableInv, NEW p \in Pairs, NEW f \in Ids, pair[f] = p,
         f \in Ended, DeletePair(p), raced' = raced \cup ({act[p]} \ {NoId, f}),
         UNCHANGED <<pair, received, unfollowed, mistaken>>
  PROVE  [Relation!Next]_(Relation!vars)
<1>1. Answers' = Answers /\ Ended' = Ended
  BY MappingKept
<1>2. CASE state[p] = "none"
  <2>1. state' = state /\ act' = act /\ raced' = raced
    BY <1>2, Standing DEF DeletePair, TableInv, TypeOK
  <2>2. QED
    BY <1>1, <2>1 DEF Relation!vars
<1>3. CASE state[p] # "none"
  <2>1. Relation!Writes(p, NoId, "none")
    BY <1>1 DEF DeletePair, Relation!Writes
  <2>2. CASE act[p] = f
    <3>1. Relation!Drop(p)
      BY <1>3, <2>1, <2>2 DEF Relation!Drop
    <3>2. QED
      BY <3>1 DEF Relation!Next
  <2>3. CASE act[p] # f
    <3>1. raced' = raced \cup {act[p]}
      BY <1>3, <2>3, Standing
    <3>2. Relation!DropAnother(p, f)
      BY <1>3, <2>1, <2>3, <3>1 DEF Relation!DropAnother
    <3>3. QED
      BY <3>2 DEF Relation!Next
  <2>4. QED
    BY <2>2, <2>3
<1>4. QED
  BY <1>2, <1>3

\* A step that changes none of what the mapping looks at.
LEMMA Stutters ==
  ASSUME UNCHANGED <<state, act, pair, received, unfollowed, raced, mistaken>>
  PROVE  [Relation!Next]_(Relation!vars)
  BY MappingKept DEF Relation!vars

\* What arrives is an answer to the follow it names, the end of it, or a Follow.
LEMMA ArrivalMaps ==
  ASSUME TableInv, NEW m \in Msgs, pair[m[2]] \in Pairs, received' = received \cup {m},
         UNCHANGED <<state, act, pair, unfollowed, raced, mistaken>>
  PROVE  [Relation!Next]_(Relation!vars)
<1>1. m[2] \in Ids /\ m = <<m[1], m[2]>> /\ pair[m[2]] # NoPair
  BY MsgParts, ConstantAssumption
<1>2. CASE m[1] = "Follow"
  <2>1. Answers' = Answers /\ Ended' = Ended
    BY <1>1, <1>2 DEF Answers, Ended
  <2>2. QED
    BY <2>1 DEF Relation!vars
<1>3. CASE m[1] = "Undo"
  <2>1. Answers' = Answers /\ Ended' = Ended \cup {m[2]}
    BY <1>1, <1>3 DEF Answers, Ended
  <2>2. Relation!End(m[2])
    BY <1>1, <2>1 DEF Relation!End
  <2>3. QED
    BY <1>1, <2>2 DEF Relation!Next
<1>4. CASE m[1] = "Accept"
  <2>1. Ended' = Ended /\ Answers' = Answers \cup {<<m[2], "accepted">>}
    BY <1>1, <1>4 DEF Answers, Ended
  <2>2. Relation!Answer(m[2], "accepted")
    BY <1>1, <2>1 DEF Relation!Answer
  <2>3. QED
    BY <1>1, <2>2 DEF Relation!Next, Relation!Decisions
<1>5. CASE m[1] = "Reject"
  <2>1. Ended' = Ended /\ Answers' = Answers \cup {<<m[2], "rejected">>}
    BY <1>1, <1>5 DEF Answers, Ended
  <2>2. Relation!Answer(m[2], "rejected")
    BY <1>1, <2>1 DEF Relation!Answer
  <2>3. QED
    BY <1>1, <2>2 DEF Relation!Next, Relation!Decisions
<1>6. QED
  BY <1>2, <1>3, <1>4, <1>5, MsgParts

\* Every step of the protocol is a step of the relation or leaves it alone.
LEMMA RelationStep ==
  ASSUME TableInv, [Next]_vars
  PROVE  [Relation!Next]_(Relation!vars)
<1> USE DEF table, log, local, history, vars
<1>0. \A h \in Requests : pc[h] # "idle" =>
        /\ msg[h] \in Msgs /\ Id(h) \in Ids /\ pair[Id(h)] \in Pairs /\ Holds(h)
        /\ msg[h] = <<msg[h][1], Id(h)>>
  BY MsgParts DEF TableInv, RequestsHold, Holds, Id
<1>a. \A p \in Pairs, f \in Ids : Fresh(p, f) => pair[f] = NoPair
  BY DEF Fresh
<1>1. CASE \E p \in Pairs, f \in Ids : RemoteFollows(p, f)
  <2> PICK p \in Pairs, f \in Ids : RemoteFollows(p, f)
    BY <1>1
  <2>1. Relation!Ask(p, f)
    BY MappingKept, <1>a DEF RemoteFollows, Relation!Ask, Relation!Asks
  <2>2. QED
    BY <2>1 DEF Relation!Next
<1>2. CASE \E p \in Pairs, f \in Ids : FollowLocally(p, f)
  <2> PICK p \in Pairs, f \in Ids : FollowLocally(p, f)
    BY <1>2
  <2>1. Relation!AskDirectly(p, f)
    BY MappingKept, <1>a
    DEF FollowLocally, Upsert, Relation!AskDirectly, Relation!Asks, Relation!Writes
  <2>2. QED
    BY <2>1 DEF Relation!Next
<1>3. CASE \E h \in Requests, p \in Pairs, f \in Ids : FollowRemotely(h, p, f)
  <2> PICK h \in Requests, p \in Pairs, f \in Ids : FollowRemotely(h, p, f)
    BY <1>3
  <2>1. Relation!AskAndRecord(p, f)
    BY MappingKept, <1>a
    DEF FollowRemotely, Upsert, Relation!AskAndRecord, Relation!Asks, Relation!Writes
  <2>2. QED
    BY <2>1 DEF Relation!Next
<1>4. CASE \E h \in Requests, p \in Pairs : UnfollowReads(h, p)
  <2> PICK h \in Requests, p \in Pairs : UnfollowReads(h, p)
    BY <1>4
  <2>1. act[p] \in Ids /\ pair[act[p]] = p /\ p # NoPair
    BY ConstantAssumption DEF UnfollowReads, TableInv, RowsNamed
  <2>2. Ended' = Ended \cup {act[p]}
    BY <2>1 DEF UnfollowReads, Ended
  <2>3. Relation!End(act[p])
    BY <2>1, <2>2, MappingKept DEF UnfollowReads, Relation!End
  <2>4. QED
    BY <2>1, <2>3 DEF Relation!Next
<1>5. CASE \E h \in Requests : UnfollowDeletes(h)
  <2> PICK h \in Requests : UnfollowDeletes(h)
    BY <1>5
  <2>1. found[h] \in Pairs /\ Id(h) \in Ids /\ pair[Id(h)] = found[h] /\ Id(h) \in Ended
    BY <1>0 DEF UnfollowDeletes, Holds, Ended
  <2>2. CASE UNCHANGED <<table, raced>>
    BY <2>2, Stutters DEF UnfollowDeletes
  <2>3. CASE DeletePair(found[h]) /\ raced' = raced \cup OtherRow(h)
    BY <2>1, <2>3, EndDrops DEF UnfollowDeletes, OtherRow
  <2>4. QED
    BY <2>2, <2>3 DEF UnfollowDeletes
<1>6. CASE \E h \in Requests, m \in Msgs : InboundBegin(h, m)
  <2> PICK h \in Requests, m \in Msgs : InboundBegin(h, m)
    BY <1>6
  <2>1. pair[m[2]] \in Pairs
    BY MsgParts DEF InboundBegin, MayArrive, TableInv, TypeOK
  <2>2. QED
    BY <2>1, ArrivalMaps DEF InboundBegin
<1>7. CASE \E h \in Requests : FollowRecords(h)
  <2> PICK h \in Requests : FollowRecords(h)
    BY <1>7
  <2>1. Id(h) \in Ids /\ pair[Id(h)] \in Pairs
    BY <1>0 DEF FollowRecords, At
  <2>2. Relation!Record(pair[Id(h)], Id(h))
    BY <2>1, MappingKept DEF FollowRecords, Upsert, Relation!Record, Relation!Writes
  <2>3. QED
    BY <2>1, <2>2 DEF Relation!Next
<1>8. CASE \E h \in Requests : FollowAccepts(h)
  <2> PICK h \in Requests : FollowAccepts(h)
    BY <1>8
  <2>1. /\ pair[Id(h)] \in Pairs /\ Target(pair[Id(h)]) \notin Locked
        /\ Inbound(pair[Id(h)])
    BY <1>0 DEF FollowAccepts, At, Holds, InboxPhases
  <2>2. pair[Id(h)] \in Automatic
    BY <2>1, Ends DEF Automatic
  <2>3. QED
    BY <2>2, AutomaticSettles DEF FollowAccepts
<1>9. CASE \E h \in Requests : AcceptSettles(h)
  <2> PICK h \in Requests : AcceptSettles(h)
    BY <1>9
  <2>1. /\ found[h] \in Pairs /\ pair[Id(h)] = found[h] /\ Id(h) \in Ids
        /\ <<"Accept", Id(h)>> \in received
    BY <1>0 DEF AcceptSettles, At, Holds, InboxPhases
  <2>2. <<Id(h), "accepted">> \in Answers
    BY <2>1 DEF Answers
  <2>3. QED
    BY <2>1, <2>2, AnswerSettles DEF AcceptSettles, OtherRow
<1>10. CASE \E h \in Requests : RejectSettles(h)
  <2> PICK h \in Requests : RejectSettles(h)
    BY <1>10
  <2>1. /\ found[h] \in Pairs /\ pair[Id(h)] = found[h] /\ Id(h) \in Ids
        /\ <<"Reject", Id(h)>> \in received
    BY <1>0 DEF RejectSettles, At, Holds, InboxPhases
  <2>2. <<Id(h), "rejected">> \in Answers
    BY <2>1 DEF Answers
  <2>3. QED
    BY <2>1, <2>2, AnswerSettles DEF RejectSettles, OtherRow
<1>11. CASE \E h \in Requests : UndoRemoves(h)
  <2> PICK h \in Requests : UndoRemoves(h)
    BY <1>11
  <2>1. /\ found[h] \in Pairs /\ pair[Id(h)] = found[h] /\ Id(h) \in Ids
        /\ <<"Undo", Id(h)>> \in received
    BY <1>0 DEF UndoRemoves, At, Holds, InboxPhases
  <2>2. Id(h) \in Ended
    BY <2>1 DEF Ended
  <2>3. QED
    BY <2>1, <2>2, EndDrops DEF UndoRemoves, OtherRow
<1>12. CASE UNCHANGED <<state, act, pair, received, unfollowed, raced, mistaken>>
  BY <1>12, Stutters
<1>13. QED
  BY SplitNext, <1>1, <1>2, <1>3, <1>4, <1>5, <1>6, <1>7, <1>8, <1>9, <1>10, <1>11, <1>12
  DEF NextCases, DeleteActor, ApiEnqueues, FollowChecks, FollowAnswers, AnswerLooksUp,
      AcceptBackfills, UndoLooksUp, InboundFinish, RequestFails

\* Nobody has asked, answered or ended anything at the start.
LEMMA RelationInit ==
  ASSUME Init
  PROVE  Relation!Init
  BY DEF Init, Relation!Init, Answers, Ended

\* REFINEMENT (api_follow, api_unfollow and the inbox handlers of Follow, Accept,
\* Reject and Undo): the follows table behaves as the follow relation, however
\* requests and messages interleave and whoever sends them.
THEOREM RelationImplemented == Spec => ImplementsRelation
<1>1. Init => Relation!Init
  BY RelationInit
<1>2. TableInv /\ [Next]_vars => [Relation!Next]_(Relation!vars)
  BY RelationStep
<1>3. QED
  BY <1>1, <1>2, TableAlways, PTL DEF Spec, ImplementsRelation, Relation!Spec

-----------------------------------------------------------------------------
(* Undone follows stay undone.                                             *)

\* One handler at a time works on a Follow.
GateExclusive ==
  \A g, h \in Requests :
    /\ pc[g] \in InboxPhases /\ pc[h] \in InboxPhases
    /\ msg[g] = msg[h] /\ msg[g][1] = "Follow"
    => g = h

\* A Follow whose row was written will not be written again.
RecordedOnce ==
  \A f \in recorded :
    /\ Inbound(pair[f]) => <<"Follow", f>> \in received
    /\ \A h \in Requests : pc[h] \in {"begun", "recording"} => msg[h] # <<"Follow", f>>

\* An Undo that has passed its DELETE.
Undoing(f) ==
  \/ <<"Undo", f>> \in processed
  \/ \E h \in Requests : pc[h] = "finishing" /\ msg[h] = <<"Undo", f>>

\* It came too early, or the row was there and is not any more.
UndoSettled ==
  /\ \A f \in Ids : Undoing(f) => f \in overtaken \/ (f \in recorded /\ act[pair[f]] # f)
  /\ \A h \in Requests : pc[h] = "removing" => Id(h) \in overtaken \cup recorded

UndoInv == TableInv /\ GateExclusive /\ RecordedOnce /\ UndoSettled

\* The gate: only a first delivery starts a handler.
LEMMA GateStep ==
  ASSUME TableInv, GateExclusive, [Next]_vars
  PROVE  GateExclusive'
<1> USE DEF TableInv, TypeOK, GateExclusive, InboxPhases
<1>1. CASE \E h \in Requests, m \in Msgs : InboundBegin(h, m)
  <2> PICK h \in Requests, m \in Msgs : InboundBegin(h, m)
    BY <1>1
  <2>1. \A g \in Requests : m[1] = "Follow" /\ pc[g] \in InboxPhases => msg[g] # m
    BY DEF InboundBegin, FirstDelivery, RequestsHold, Holds
  <2>2. QED
    BY <2>1 DEF InboundBegin, Starts
<1>2. CASE \E h \in Requests : Leaves(h)
  BY <1>2 DEF Leaves
<1>3. CASE \E h \in Requests : pc[h] \in InboxPhases /\ \E ph : Goes(h, ph)
  BY <1>3 DEF Goes
<1>4. CASE \E h \in Requests : pc[h] \in InboxPhases /\ \E ph : Lookup(h, ph)
  BY <1>4 DEF Lookup
<1>5. CASE \E h \in Requests : Goes(h, "dropped")
  BY <1>5 DEF Goes
<1>6. CASE \E h \in Requests, m \in Msgs \cup {<<"Undo", NoId>>}, p \in Pairs \cup {NoPair} :
             Starts(h, "upserted", m, p) \/ Starts(h, "dropping", m, p)
  BY <1>6 DEF Starts
<1>7. CASE UNCHANGED <<pc, msg>>
  BY <1>7
<1>8. ASSUME NEW h \in Requests, NEW p \in Pairs, UnfollowReads(h, p)
      PROVE  <<"Undo", act[p]>> \in Msgs
  BY <1>8, MsgMade DEF UnfollowReads, RowsNamed
<1>9. \A f \in Ids : <<"Follow", f>> \in Msgs
  BY MsgMade
<1>10. QED
  BY SplitNext, <1>1, <1>2, <1>3, <1>4, <1>5, <1>6, <1>7, <1>8, <1>9
  DEF NextCases, DeleteActor, RemoteFollows, FollowLocally, FollowRemotely, UnfollowReads,
      UnfollowDeletes, ApiEnqueues, FollowChecks, FollowRecords, FollowAccepts, FollowAnswers,
      AnswerLooksUp, AcceptSettles, AcceptBackfills, RejectSettles, UndoLooksUp, UndoRemoves,
      InboundFinish, RequestFails, At, local, vars

\* Every step keeps a recorded Follow out of the handlers' hands.
LEMMA RecordedStep ==
  ASSUME UndoInv, [Next]_vars
  PROVE  RecordedOnce'
<1> USE DEF UndoInv, TableInv, TypeOK
<1>0. \A f \in recorded : f \in Ids /\ pair[f] \in Pairs /\ pair'[f] = pair[f]
  BY Monotone DEF NamesKnown
<1>a. received \subseteq received'
  BY Monotone
<1>1. CASE \E p \in Pairs, f \in Ids : FollowLocally(p, f)
  <2> PICK p \in Pairs, f \in Ids : FollowLocally(p, f)
    BY <1>1
  <2>1. \A h \in Requests : pc[h] # "idle" => msg[h] # <<"Follow", f>>
    BY FreshUnused DEF FollowLocally, Id
  <2>2. pair'[f] = p /\ ~Inbound(p)
    BY ConstantAssumption DEF FollowLocally, SameInstance, Inbound
  <2>3. QED
    BY <1>0, <1>a, <2>1, <2>2 DEF RecordedOnce, FollowLocally, local
<1>2. CASE \E h \in Requests, p \in Pairs, f \in Ids : FollowRemotely(h, p, f)
  <2> PICK h \in Requests, p \in Pairs, f \in Ids : FollowRemotely(h, p, f)
    BY <1>2
  <2>1. \A g \in Requests : pc[g] # "idle" => msg[g] # <<"Follow", f>>
    BY FreshUnused DEF FollowRemotely, Id
  <2>2. pair'[f] = p /\ ~Inbound(p)
    BY ConstantAssumption DEF FollowRemotely, Outbound, Inbound
  <2>3. QED
    BY <1>0, <1>a, <2>1, <2>2 DEF RecordedOnce, FollowRemotely, Starts
<1>3. CASE \E h \in Requests : FollowRecords(h)
  <2> PICK h \in Requests : FollowRecords(h)
    BY <1>3
  <2>1. /\ msg[h] = <<"Follow", Id(h)>> /\ msg[h] \in received
        /\ Id(h) \in Ids /\ pair[Id(h)] \in Pairs
    BY MsgParts DEF FollowRecords, At, RequestsHold, Holds, InboxPhases, Id
  <2>2. \A g \in Requests : g # h /\ pc[g] \in {"begun", "recording"} => msg[g] # msg[h]
    BY DEF GateExclusive, FollowRecords, At, InboxPhases
  <2>3. recorded' = recorded \cup {Id(h)} /\ pair' = pair
    BY DEF FollowRecords
  <2>4. /\ \A g \in Requests : g # h => pc'[g] = pc[g] /\ msg'[g] = msg[g]
        /\ pc'[h] \notin {"begun", "recording"}
    BY DEF FollowRecords, Goes
  <2>5. QED
    BY <1>a, <2>1, <2>2, <2>3, <2>4 DEF RecordedOnce
<1>4. CASE \E h \in Requests, m \in Msgs : InboundBegin(h, m)
  <2> PICK h \in Requests, m \in Msgs : InboundBegin(h, m)
    BY <1>4
  <2>1. \A f \in recorded : m # <<"Follow", f>>
    BY <1>0, MsgMade DEF RecordedOnce, InboundBegin, MayArrive, FirstDelivery
  <2>2. QED
    BY <1>0, <1>a, <2>1 DEF RecordedOnce, InboundBegin, Starts, history
<1>5. CASE /\ recorded' = recorded
           /\ \A h \in Requests : \/ pc'[h] \notin {"begun", "recording"}
                                  \/ pc[h] \in {"begun", "recording"} /\ msg'[h] = msg[h]
  BY <1>0, <1>a, <1>5 DEF RecordedOnce
<1>6. CASE \E h \in Requests :
             /\ recorded' = recorded
             /\ Leaves(h) \/ (\E ph \in Phases : Goes(h, ph) /\ (ph = "recording" => pc[h] = "begun")
                                                             /\ ph # "begun")
  <2> PICK h \in Requests :
             /\ recorded' = recorded
             /\ Leaves(h) \/ (\E ph \in Phases : Goes(h, ph) /\ (ph = "recording" => pc[h] = "begun")
                                                             /\ ph # "begun")
    BY <1>6
  <2>1. \A g \in Requests : \/ pc'[g] \notin {"begun", "recording"}
                            \/ pc[g] \in {"begun", "recording"} /\ msg'[g] = msg[g]
    BY DEF Leaves, Goes
  <2>2. QED
    BY <1>5, <2>1
<1>7. CASE \E h \in Requests :
             /\ recorded' = recorded
             /\ \E ph \in {"settling", "removing"} : Lookup(h, ph)
  <2> PICK h \in Requests : recorded' = recorded /\ \E ph \in {"settling", "removing"} : Lookup(h, ph)
    BY <1>7
  <2>1. \A g \in Requests : \/ pc'[g] \notin {"begun", "recording"}
                            \/ pc[g] \in {"begun", "recording"} /\ msg'[g] = msg[g]
    BY DEF Lookup
  <2>2. QED
    BY <1>5, <2>1
<1>8. CASE \E h \in Requests, p \in Pairs : UnfollowReads(h, p)
  <2> PICK h \in Requests, p \in Pairs : UnfollowReads(h, p)
    BY <1>8
  <2>1. \A g \in Requests : \/ pc'[g] \notin {"begun", "recording"}
                            \/ pc[g] \in {"begun", "recording"} /\ msg'[g] = msg[g]
    BY DEF UnfollowReads, Starts
  <2>2. QED
    BY <1>5, <2>1 DEF UnfollowReads, history
<1>9. CASE UNCHANGED <<pc, msg, recorded>>
  BY <1>5, <1>9
<1>10. QED
  BY SplitNext, <1>1, <1>2, <1>3, <1>4, <1>6, <1>7, <1>8, <1>9
  DEF NextCases, DeleteActor, RemoteFollows, UnfollowDeletes, ApiEnqueues, FollowChecks,
      FollowAccepts, FollowAnswers, AnswerLooksUp, AcceptSettles, AcceptBackfills, RejectSettles,
      UndoLooksUp, UndoRemoves, InboundFinish, RequestFails, At, Phases, local, history, vars

\* Every step keeps settled Undos settled.
LEMMA SettledStep ==
  ASSUME UndoInv, [Next]_vars
  PROVE  UndoSettled'
<1> USE DEF UndoInv, TableInv, TypeOK
<1>0. \A f \in Ids : Undoing(f) => pair[f] \in Pairs /\ pair'[f] = pair[f]
  <2>1. \A f \in Ids : <<"Undo", f>> \in received => pair[f] \in Pairs
    BY MsgMade DEF NamesKnown
  <2>2. \A f \in Ids : Undoing(f) => <<"Undo", f>> \in received
    BY DEF Undoing, NamesKnown, RequestsHold, Holds, InboxPhases
  <2>3. QED
    BY <2>1, <2>2, Monotone
<1>a. \A h \in Requests : pc[h] # "idle" =>
        msg[h] \in Msgs /\ Id(h) \in Ids /\ pair[Id(h)] \in Pairs /\ msg[h] = <<msg[h][1], Id(h)>>
  BY MsgParts DEF RequestsHold, Holds, Id
\* Most steps leave the Undos and the row of an undone Follow alone.
<1>1. ASSUME \A f \in Ids : Undoing(f)' => Undoing(f),
             \A h \in Requests : pc'[h] = "removing" => pc[h] = "removing" /\ msg'[h] = msg[h],
             recorded \subseteq recorded', overtaken \subseteq overtaken',
             \A f \in recorded : pair[f] \in Pairs /\ act[pair[f]] # f => act'[pair[f]] # f
      PROVE  UndoSettled'
  BY <1>0, <1>1 DEF UndoSettled, Id
<1>2. CASE \E p \in Pairs, f \in Ids : FollowLocally(p, f)
  <2> PICK p \in Pairs, f \in Ids : FollowLocally(p, f)
    BY <1>2
  <2>1. f \notin recorded
    BY FreshUnused DEF FollowLocally
  <2>2. \A g \in Ids : Undoing(g)' => Undoing(g)
    BY DEF FollowLocally, log, local, Undoing
  <2>3. \A g \in recorded : pair[g] \in Pairs /\ act[pair[g]] # g => act'[pair[g]] # g
    BY <2>1 DEF FollowLocally, Upsert
  <2>4. QED
    BY <1>1, <2>2, <2>3 DEF FollowLocally, local
<1>3. CASE \E h \in Requests, p \in Pairs, f \in Ids : FollowRemotely(h, p, f)
  <2> PICK h \in Requests, p \in Pairs, f \in Ids : FollowRemotely(h, p, f)
    BY <1>3
  <2>1. f \notin recorded
    BY FreshUnused DEF FollowRemotely
  <2>2. \A g \in Requests : g # h => pc'[g] = pc[g] /\ msg'[g] = msg[g]
    BY DEF FollowRemotely, Starts
  <2>3. pc'[h] = "upserted"
    BY DEF FollowRemotely, Starts
  <2>4. \A g \in Ids : Undoing(g)' => Undoing(g)
    BY <2>2, <2>3 DEF FollowRemotely, log, Undoing
  <2>5. \A g \in recorded : pair[g] \in Pairs /\ act[pair[g]] # g => act'[pair[g]] # g
    BY <2>1 DEF FollowRemotely, Upsert
  <2>6. QED
    BY <1>1, <2>2, <2>3, <2>4, <2>5 DEF FollowRemotely
<1>4. CASE \E h \in Requests : FollowRecords(h)
  <2> PICK h \in Requests : FollowRecords(h)
    BY <1>4
  <2>1. Id(h) \notin recorded /\ pair[Id(h)] \in Pairs
    BY <1>a DEF RecordedOnce, FollowRecords, At
  <2>2. \A g \in Requests : g # h => pc'[g] = pc[g]
    BY DEF FollowRecords, Goes
  <2>3. msg' = msg /\ pc'[h] \in {"finishing", "accepting"} /\ msg[h][1] = "Follow"
    BY DEF FollowRecords, Goes, At
  <2>4. \A g \in Ids : Undoing(g)' => Undoing(g)
    BY <2>2, <2>3 DEF FollowRecords, log, Undoing
  <2>5. \A g \in recorded : pair[g] \in Pairs /\ act[pair[g]] # g => act'[pair[g]] # g
    BY <2>1 DEF FollowRecords, Upsert
  <2>6. QED
    BY <1>1, <2>2, <2>3, <2>4, <2>5 DEF FollowRecords
<1>5. CASE \E h \in Requests : UndoLooksUp(h)
  <2> PICK h \in Requests : UndoLooksUp(h)
    BY <1>5
  <2>1. /\ Id(h) \in Ids /\ pair[Id(h)] \in Pairs /\ msg[h] = <<"Undo", Id(h)>>
        /\ Id(h) \in recorded \cup overtaken'
    BY <1>a DEF UndoLooksUp, At
  <2>2. /\ \A g \in Requests : g # h => pc'[g] = pc[g]
        /\ msg' = msg /\ UNCHANGED <<act, pair, processed, recorded>> /\ overtaken \subseteq overtaken'
    BY DEF UndoLooksUp, Lookup, table, log
  <2>3. pc'[h] = "finishing" => act[pair[Id(h)]] # Id(h)
    BY <2>1 DEF UndoLooksUp, Lookup, RowOf
  <2>4. pc'[h] \in {"finishing", "removing"}
    BY DEF UndoLooksUp, Lookup
  <2>5. \A f \in Ids : Undoing(f)' => Undoing(f) \/ (f = Id(h) /\ pc'[h] = "finishing")
    BY <2>1, <2>2 DEF Undoing
  <2>6. QED
    BY <2>1, <2>2, <2>3, <2>4, <2>5 DEF UndoSettled, Id
<1>6. CASE \E h \in Requests : UndoRemoves(h)
  <2> PICK h \in Requests : UndoRemoves(h)
    BY <1>6
  <2>1. /\ Id(h) \in Ids /\ pair[Id(h)] \in Pairs /\ msg[h] = <<"Undo", Id(h)>>
        /\ found[h] = pair[Id(h)] /\ Id(h) \in recorded \cup overtaken
    BY <1>a DEF UndoRemoves, At, RequestsHold, Holds, UndoSettled
  <2>2. /\ \A g \in Requests : g # h => pc'[g] = pc[g]
        /\ pc'[h] = "finishing"
        /\ msg' = msg /\ UNCHANGED <<pair, processed, recorded, overtaken>>
    BY DEF UndoRemoves, Goes, log, history
  <2>3. act' = [act EXCEPT ![pair[Id(h)]] = NoId]
    BY <2>1 DEF UndoRemoves, DeletePair
  <2>4. \A f \in Ids : Undoing(f)' => Undoing(f) \/ f = Id(h)
    BY <2>1, <2>2 DEF Undoing
  <2>5. QED
    BY ConstantAssumption, <1>0, <2>1, <2>2, <2>3, <2>4 DEF UndoSettled, Id
<1>7. CASE \E h \in Requests : InboundFinish(h)
  <2> PICK h \in Requests : InboundFinish(h)
    BY <1>7
  <2>1. \A f \in Ids : Undoing(f)' => Undoing(f)
    BY DEF InboundFinish, Leaves, Undoing
  <2>2. QED
    BY <1>1, <2>1 DEF InboundFinish, Leaves, table, history
<1>8. CASE \E h \in Requests : UnfollowDeletes(h)
  <2> PICK h \in Requests : UnfollowDeletes(h)
    BY <1>8
  <2>1. \A f \in Ids : Undoing(f)' => Undoing(f)
    BY DEF UnfollowDeletes, Goes, Undoing, log
  <2>2. \A g \in recorded : pair[g] \in Pairs /\ act[pair[g]] # g => act'[pair[g]] # g
    BY ConstantAssumption DEF UnfollowDeletes, DeletePair, table
  <2>3. QED
    BY <1>1, <2>1, <2>2 DEF UnfollowDeletes, Goes
<1>9. CASE \E h \in Requests : ApiEnqueues(h) \/ RequestFails(h)
  <2> PICK h \in Requests : ApiEnqueues(h) \/ RequestFails(h)
    BY <1>9
  <2>1. \A f \in Ids : Undoing(f)' => Undoing(f)
    BY DEF ApiEnqueues, RequestFails, Leaves, Undoing, log
  <2>2. QED
    BY <1>1, <2>1 DEF ApiEnqueues, RequestFails, Leaves, table, history
<1>10. CASE \E h \in Requests : \E ph : /\ msg[h][1] # "Undo" /\ Goes(h, ph) /\ ph # "removing"
                                        /\ UNCHANGED <<act, processed, recorded, overtaken>>
  <2> PICK h \in Requests : \E ph : /\ msg[h][1] # "Undo" /\ Goes(h, ph) /\ ph # "removing"
                                    /\ UNCHANGED <<act, processed, recorded, overtaken>>
    BY <1>10
  <2>1. \A f \in Ids : Undoing(f)' => Undoing(f)
    BY DEF Goes, Undoing
  <2>2. QED
    BY <1>1, <2>1 DEF Goes
<1>11. CASE \E h \in Requests : AnswerLooksUp(h)
  <2> PICK h \in Requests : AnswerLooksUp(h)
    BY <1>11
  <2>1. msg[h][1] # "Undo"
    BY DEF AnswerLooksUp, At
  <2>2. \A f \in Ids : Undoing(f)' => Undoing(f)
    BY <2>1 DEF AnswerLooksUp, Lookup, Undoing, log
  <2>3. QED
    BY <1>1, <2>2 DEF AnswerLooksUp, Lookup, table, history
<1>12. CASE \E h \in Requests, m \in Msgs : InboundBegin(h, m)
  <2> PICK h \in Requests, m \in Msgs : InboundBegin(h, m)
    BY <1>12
  <2>1. \A f \in Ids : Undoing(f)' => Undoing(f)
    BY DEF InboundBegin, Starts, Undoing
  <2>2. QED
    BY <1>1, <2>1 DEF InboundBegin, Starts, table, history
<1>13. CASE \E h \in Requests, p \in Pairs : UnfollowReads(h, p)
  <2> PICK h \in Requests, p \in Pairs : UnfollowReads(h, p)
    BY <1>13
  <2>1. \A f \in Ids : Undoing(f)' => Undoing(f)
    BY DEF UnfollowReads, Starts, Undoing, log
  <2>2. QED
    BY <1>1, <2>1 DEF UnfollowReads, Starts, table, history
<1>14. CASE UNCHANGED <<act, processed, recorded, overtaken, pc, msg>>
  <2>1. \A f \in Ids : Undoing(f)' => Undoing(f)
    BY <1>14 DEF Undoing
  <2>2. QED
    BY <1>1, <1>14, <2>1
<1>15. CASE \E h \in Requests : \/ FollowChecks(h) \/ FollowAccepts(h) \/ FollowAnswers(h)
                                \/ AcceptSettles(h) \/ AcceptBackfills(h) \/ RejectSettles(h)
  BY <1>10, <1>15
  DEF FollowChecks, FollowAccepts, FollowAnswers, AcceptSettles, AcceptBackfills, RejectSettles, At,
      SetState, table, log, history
<1>16. QED
  BY SplitNext, <1>2, <1>3, <1>4, <1>5, <1>6, <1>7, <1>8, <1>9, <1>11, <1>12, <1>13, <1>14, <1>15
  DEF NextCases, DeleteActor, RemoteFollows, table, log, local, history, vars

\* The empty tables satisfy the invariant.
LEMMA UndoInit ==
  ASSUME Init
  PROVE  UndoInv
<1>1. TableInv
  BY InitTable
<1>2. GateExclusive /\ RecordedOnce /\ UndoSettled
  BY DEF Init, GateExclusive, RecordedOnce, UndoSettled, Undoing, InboxPhases
<1>3. QED
  BY <1>1, <1>2 DEF UndoInv

\* UNDO WINS (Undo::receive_inbound): a follow whose Undo was processed does not
\* stand, unless the Undo overtook the Follow.
THEOREM UndoCorrect == Spec => []UndoneStaysUndone
<1>1. Init => UndoInv
  BY UndoInit
<1>2. UndoInv /\ [Next]_vars => UndoInv'
  BY TableStep, GateStep, RecordedStep, SettledStep DEF UndoInv
<1>3. UndoInv => UndoneStaysUndone
  BY DEF UndoInv, UndoSettled, Undoing, UndoneStaysUndone
<1>4. QED
  BY <1>1, <1>2, <1>3, PTL DEF Spec

-----------------------------------------------------------------------------
(* Nobody is left behind.                                                  *)

\* Ids are drawn in order.
DrawnInOrder ==
  \A f, g \in Ids : pair[f] \in Pairs /\ g < f => pair[g] \in Pairs

\* A Follow that is or will be sent had its row written.
SentIsRecorded ==
  /\ \A f \in Ids : <<"Follow", f>> \in sent => f \in recorded
  /\ \A h \in Requests : pc[h] = "upserted" => Id(h) \in recorded

\* A follow of ours that is not in the table was undone or is about to be, or
\* another took its place.
Accounted(f) ==
  \/ <<"Undo", f>> \in sent \cup received
  \/ \E h \in Requests : pc[h] = "dropped" /\ msg[h] = <<"Undo", f>>
  \/ \E g \in Ids : g > f /\ pair[g] = pair[f]
  \/ f \in raced

DropAccounted ==
  faults = 0 => \A f \in recorded : Outbound(pair[f]) /\ act[pair[f]] # f => Accounted(f)

DropInv == TableInv /\ DrawnInOrder /\ SentIsRecorded /\ DropAccounted

\* Of two ids one was drawn first.
LEMMA Trichotomy ==
  ASSUME NEW f \in Nat, NEW g \in Nat, g # f, ~(f < g)
  PROVE  g < f
  OBVIOUS

\* The next id is drawn when all the smaller ones are.
LEMMA DrawsNext ==
  ASSUME TableInv, DrawnInOrder, NEW p \in Pairs, NEW f \in Ids, Fresh(p, f),
         pair' = [pair EXCEPT ![f] = p]
  PROVE  DrawnInOrder'
<1> USE DEF TableInv, TypeOK
<1>1. \A g \in Ids : g < f => pair[g] \in Pairs
  BY DEF Fresh
<1>2. \A g \in Ids : pair'[g] = IF g = f THEN p ELSE pair[g]
  OBVIOUS
<1>3. ASSUME NEW a \in Ids, NEW b \in Ids, pair'[a] \in Pairs, b < a
      PROVE  pair'[b] \in Pairs
  <2>1. CASE a = f
    BY <1>1, <1>2, <1>3, <2>1
  <2>2. CASE a # f
    <3>1. pair[a] \in Pairs
      BY <1>2, <1>3, <2>2
    <3>2. pair[b] \in Pairs
      BY <1>3, <3>1 DEF DrawnInOrder
    <3>3. QED
      BY <1>2, <3>2
  <2>3. QED
    BY <2>1, <2>2
<1>4. QED
  BY <1>3 DEF DrawnInOrder

\* Drawing the next id keeps the order.
LEMMA DrawnStep ==
  ASSUME TableInv, DrawnInOrder, [Next]_vars
  PROVE  DrawnInOrder'
<1>1. CASE \E p \in Pairs, f \in Ids : RemoteFollows(p, f)
  BY <1>1, DrawsNext DEF RemoteFollows
<1>2. CASE \E p \in Pairs, f \in Ids : FollowLocally(p, f)
  BY <1>2, DrawsNext DEF FollowLocally
<1>3. CASE \E h \in Requests, p \in Pairs, f \in Ids : FollowRemotely(h, p, f)
  BY <1>3, DrawsNext DEF FollowRemotely
<1>4. CASE UNCHANGED pair
  BY <1>4 DEF DrawnInOrder
<1>5. QED
  BY SplitNext, <1>1, <1>2, <1>3, <1>4
  DEF NextCases, DeleteActor, UnfollowReads, UnfollowDeletes, ApiEnqueues, InboundBegin, FollowChecks,
      FollowRecords, FollowAccepts, FollowAnswers, AnswerLooksUp, AcceptSettles, AcceptBackfills,
      RejectSettles, UndoLooksUp, UndoRemoves, InboundFinish, RequestFails, vars

\* api_follow writes the row before it enqueues the Follow.
LEMMA SentStep ==
  ASSUME TableInv, SentIsRecorded, [Next]_vars
  PROVE  SentIsRecorded'
<1> USE DEF TableInv, TypeOK, SentIsRecorded, Id
<1>1. CASE \E h \in Requests, p \in Pairs, f \in Ids : FollowRemotely(h, p, f)
  BY <1>1, MsgMade DEF FollowRemotely, Starts
<1>2. CASE \E h \in Requests : ApiEnqueues(h)
  <2> PICK h \in Requests : ApiEnqueues(h)
    BY <1>2
  <2>1. \A f \in Ids : msg[h] = <<"Follow", f>> => f \in recorded
    BY DEF ApiEnqueues, RequestsHold, Holds
  <2>2. QED
    BY <2>1 DEF ApiEnqueues, Enqueue, Leaves, history
<1>3. CASE \E h \in Requests : FollowAnswers(h)
  BY <1>3 DEF FollowAnswers, Enqueue, Goes, history
<1>4. CASE \E h \in Requests : /\ sent' = sent /\ recorded \subseteq recorded'
                               /\ \E ph \in Phases : ph # "upserted" /\ Goes(h, ph)
  BY <1>4 DEF Goes
<1>5. CASE \E h \in Requests : sent' = sent /\ recorded' = recorded /\ Leaves(h)
  BY <1>5 DEF Leaves
<1>6. CASE \E h \in Requests : /\ sent' = sent /\ recorded' = recorded
                               /\ \E ph \in {"settling", "removing"} : Lookup(h, ph)
  BY <1>6 DEF Lookup
<1>7. CASE \E h \in Requests, p \in Pairs : UnfollowReads(h, p)
  BY <1>7 DEF UnfollowReads, Starts, history
<1>8. CASE \E h \in Requests, m \in Msgs : InboundBegin(h, m)
  BY <1>8 DEF InboundBegin, Starts, history
<1>9. CASE UNCHANGED <<sent, pc, msg>> /\ recorded \subseteq recorded'
  BY <1>9
<1>10. QED
  BY SplitNext, <1>1, <1>2, <1>3, <1>4, <1>5, <1>6, <1>7, <1>8, <1>9
  DEF NextCases, DeleteActor, RemoteFollows, FollowLocally, UnfollowDeletes, FollowChecks,
      FollowRecords, FollowAccepts, AnswerLooksUp, AcceptSettles, AcceptBackfills, RejectSettles,
      UndoLooksUp, UndoRemoves, InboundFinish, RequestFails, Phases, local, history, vars

\* Every step keeps the accounts.
LEMMA AccountedStep ==
  ASSUME DropInv, [Next]_vars
  PROVE  DropAccounted'
<1> USE ConstantAssumption DEF DropInv, TableInv, TypeOK
<1>0. \A f \in recorded : f \in Ids /\ pair[f] \in Pairs /\ pair'[f] = pair[f]
  BY Monotone DEF NamesKnown
<1>a. \A h \in Requests : pc[h] # "idle" =>
        msg[h] \in Msgs /\ Id(h) \in Ids /\ pair[Id(h)] \in Pairs /\ msg[h] = <<msg[h][1], Id(h)>>
  BY MsgParts DEF RequestsHold, Holds, Id
<1>b. received \subseteq received'
  BY Monotone
\* What is accounted for stays so while its request goes on.
<1>1. ASSUME sent \subseteq sent', raced \subseteq raced',
             \A h \in Requests : pc[h] = "dropped" =>
               \/ msg[h] \in sent'
               \/ pc'[h] = "dropped" /\ msg'[h] = msg[h],
             NEW f \in recorded, Accounted(f)
      PROVE  Accounted(f)'
  <2>1. \A g \in Ids : pair[g] = pair[f] => pair'[g] = pair'[f]
    BY <1>0, Monotone
  <2>2. QED
    BY <1>0, <1>b, <1>1, <2>1 DEF Accounted
<1>2. ASSUME sent \subseteq sent', raced \subseteq raced', recorded' = recorded, faults' = faults,
             \A h \in Requests : pc[h] = "dropped" =>
               \/ msg[h] \in sent'
               \/ pc'[h] = "dropped" /\ msg'[h] = msg[h],
             \A p \in Pairs : Outbound(p) => act'[p] = act[p]
      PROVE  DropAccounted'
  BY <1>0, <1>1, <1>2 DEF DropAccounted
<1>3. CASE \E p \in Pairs, f \in Ids : FollowLocally(p, f)
  <2> PICK p \in Pairs, f \in Ids : FollowLocally(p, f)
    BY <1>3
  <2>1. /\ \A q \in Pairs : Outbound(q) => act'[q] = act[q]
        /\ pair'[f] = p /\ ~Outbound(p) /\ recorded' = recorded \cup {f}
        /\ UNCHANGED <<sent, raced, pc, msg, faults>>
    BY DEF FollowLocally, Upsert, SameInstance, Outbound, local
  <2>2. QED
    BY <1>0, <1>1, <2>1 DEF DropAccounted
<1>4. CASE \E h \in Requests, p \in Pairs, f \in Ids : FollowRemotely(h, p, f)
  <2> PICK h \in Requests, p \in Pairs, f \in Ids : FollowRemotely(h, p, f)
    BY <1>4
  <2>1. /\ act' = [act EXCEPT ![p] = f] /\ pair'[f] = p /\ recorded' = recorded \cup {f}
        /\ UNCHANGED <<sent, raced, faults>>
        /\ \A g \in Requests : pc[g] = "dropped" => pc'[g] = "dropped" /\ msg'[g] = msg[g]
    BY DEF FollowRemotely, Upsert, Starts
  <2>2. \A g \in recorded : g < f
    <3>1. \A g \in recorded : g # f /\ pair[f] \notin Pairs
      BY FreshUnused DEF FollowRemotely
    <3>2. \A g \in recorded : ~(f < g)
      BY <3>1, <1>0 DEF DrawnInOrder
    <3>3. ASSUME NEW g \in recorded PROVE g < f
      <4>1. g \in Nat /\ f \in Nat
        BY <1>0
      <4>2. QED
        BY <3>1, <3>2, <4>1, Trichotomy
    <3>4. QED
      BY <3>3
  <2>3. \A g \in recorded : pair[g] = p => Accounted(g)'
    BY <1>0, <2>1, <2>2 DEF Accounted
  <2>4. \A g \in recorded : pair[g] # p => act'[pair[g]] = act[pair[g]]
    BY <1>0, <2>1
  <2>5. \A g \in recorded : Accounted(g) => Accounted(g)'
    BY <1>1, <2>1
  <2>6. act'[pair'[f]] = f
    BY <2>1
  <2>7. QED
    BY <1>0, <2>1, <2>3, <2>4, <2>5, <2>6 DEF DropAccounted
<1>5. CASE \E h \in Requests : UnfollowDeletes(h)
  <2> PICK h \in Requests : UnfollowDeletes(h)
    BY <1>5
  <2>1. /\ found[h] \in Pairs /\ Id(h) \in Ids /\ msg[h] = <<"Undo", Id(h)>>
    BY <1>a DEF UnfollowDeletes, RequestsHold, Holds
  <2>2. /\ pc' = [pc EXCEPT ![h] = "dropped"] /\ msg' = msg /\ pc[h] = "dropping"
        /\ UNCHANGED <<pair, sent, recorded>>
    BY DEF UnfollowDeletes, Goes
  <2>3. CASE faults' = faults + 1
    BY <2>3 DEF DropAccounted
  <2>4. CASE /\ DeletePair(found[h]) /\ UNCHANGED faults
             /\ raced' = raced \cup OtherRow(h)
    <3>1. act' = [act EXCEPT ![found[h]] = NoId] /\ raced \subseteq raced'
      BY <2>4 DEF DeletePair
    <3>2. \A f \in recorded : Accounted(f) => Accounted(f)'
      BY <1>1, <2>2, <3>1
    <3>3. ASSUME NEW f \in recorded, pair[f] = found[h], act[found[h]] = f
          PROVE  Accounted(f)'
      <4>1. f \in Ids
        BY <1>0
      <4>2. CASE f = Id(h)
        BY <2>1, <2>2, <4>2 DEF Accounted
      <4>3. CASE f # Id(h)
        <5>1. f \in raced'
          BY <2>4, <3>3, <4>1, <4>3 DEF OtherRow
        <5>2. QED
          BY <5>1 DEF Accounted
      <4>4. QED
        BY <4>2, <4>3
    <3>4. ASSUME NEW f \in recorded, pair[f] # found[h]
          PROVE  act'[pair[f]] = act[pair[f]]
      BY <1>0, <3>1, <3>4
    <3>5. QED
      BY <1>0, <2>1, <2>2, <2>4, <3>2, <3>3, <3>4 DEF DropAccounted
  <2>5. QED
    BY <2>3, <2>4 DEF UnfollowDeletes
<1>6. CASE \E h \in Requests : ApiEnqueues(h)
  <2> PICK h \in Requests : ApiEnqueues(h)
    BY <1>6
  <2>1. \A g \in Requests : pc[g] = "dropped" =>
          msg[g] \in sent' \/ (pc'[g] = "dropped" /\ msg'[g] = msg[g])
    BY DEF ApiEnqueues, Enqueue, Leaves
  <2>2. QED
    BY <1>2, <2>1 DEF ApiEnqueues, Enqueue, table, history
<1>7. CASE \E h \in Requests : FollowRecords(h)
  <2> PICK h \in Requests : FollowRecords(h)
    BY <1>7
  <2>1. /\ Id(h) \in Ids /\ pair[Id(h)] \in Pairs /\ ~Outbound(pair[Id(h)])
    BY <1>a, Ends DEF FollowRecords, At, RequestsHold, Holds, InboxPhases, Outbound
  <2>2. /\ act' = [act EXCEPT ![pair[Id(h)]] = Id(h)] /\ recorded' = recorded \cup {Id(h)}
        /\ UNCHANGED <<pair, sent, raced, faults>>
        /\ \A g \in Requests : pc[g] = "dropped" => pc'[g] = "dropped" /\ msg'[g] = msg[g]
    BY DEF FollowRecords, At, Upsert, Goes
  <2>3. \A p \in Pairs : Outbound(p) => act'[p] = act[p]
    BY <2>1, <2>2
  <2>4. \A f \in recorded : Accounted(f) => Accounted(f)'
    BY <1>1, <2>2
  <2>5. QED
    BY <1>0, <2>1, <2>2, <2>3, <2>4 DEF DropAccounted
<1>8. CASE \E h \in Requests : UndoRemoves(h)
  <2> PICK h \in Requests : UndoRemoves(h)
    BY <1>8
  <2>1. /\ found[h] \in Pairs /\ Id(h) \in Ids /\ <<"Undo", Id(h)>> \in received
    BY <1>a DEF UndoRemoves, At, RequestsHold, Holds, InboxPhases
  <2>2. /\ \A g \in Requests : pc[g] = "dropped" => pc'[g] = "dropped" /\ msg'[g] = msg[g]
        /\ UNCHANGED <<pair, sent, recorded, faults>> /\ raced' = raced \cup OtherRow(h)
        /\ act' = [act EXCEPT ![found[h]] = NoId]
    BY DEF UndoRemoves, At, Goes, DeletePair
  <2>3. \A f \in recorded : Accounted(f) => Accounted(f)'
    BY <1>1, <2>2
  <2>4. ASSUME NEW f \in recorded, pair[f] = found[h], act[found[h]] = f
        PROVE  Accounted(f)'
    <3>1. f \in Ids
      BY <1>0
    <3>2. CASE f = Id(h)
      BY <1>b, <2>1, <3>2 DEF Accounted
    <3>3. CASE f # Id(h)
      <4>1. f \in raced'
        BY <2>2, <2>4, <3>1, <3>3 DEF OtherRow
      <4>2. QED
        BY <4>1 DEF Accounted
    <3>4. QED
      BY <3>2, <3>3
  <2>5. ASSUME NEW f \in recorded, pair[f] # found[h]
        PROVE  act'[pair[f]] = act[pair[f]]
    BY <1>0, <2>2, <2>5
  <2>6. QED
    BY <1>0, <2>1, <2>2, <2>3, <2>4, <2>5 DEF DropAccounted
<1>9. CASE \E h \in Requests : RequestFails(h)
  BY <1>9 DEF RequestFails, DropAccounted
<1>10. ASSUME UNCHANGED <<act, raced, recorded, faults>>, sent \subseteq sent',
              \A h \in Requests : pc[h] = "dropped" => pc'[h] = "dropped" /\ msg'[h] = msg[h]
       PROVE  DropAccounted'
  BY <1>2, <1>10
<1>11. CASE \E h \in Requests :
              /\ UNCHANGED <<act, raced, recorded, faults>> /\ sent \subseteq sent'
              /\ pc[h] # "dropped"
              /\ Leaves(h) \/ (\E ph \in Phases : Goes(h, ph) \/ Lookup(h, ph))
  <2>1. \A h \in Requests : pc[h] = "dropped" => pc'[h] = "dropped" /\ msg'[h] = msg[h]
    BY ZenonT(60), <1>11 DEF Leaves, Goes, Lookup
  <2>2. QED
    BY <1>10, <1>11, <2>1
<1>12. CASE \E h \in Requests, p \in Pairs : UnfollowReads(h, p)
  <2>1. \A h \in Requests : pc[h] = "dropped" => pc'[h] = "dropped" /\ msg'[h] = msg[h]
    BY <1>12 DEF UnfollowReads, Starts
  <2>2. QED
    BY <1>10, <1>12, <2>1 DEF UnfollowReads, table, history
<1>13. CASE \E h \in Requests, m \in Msgs : InboundBegin(h, m)
  <2>1. \A h \in Requests : pc[h] = "dropped" => pc'[h] = "dropped" /\ msg'[h] = msg[h]
    BY <1>13 DEF InboundBegin, Starts
  <2>2. QED
    BY <1>10, <1>13, <2>1 DEF InboundBegin, table, history
<1>14. CASE UNCHANGED <<act, raced, recorded, faults, sent, pc, msg>>
  BY <1>10, <1>14
<1>15. CASE \E h \in Requests : \/ FollowChecks(h) \/ FollowAccepts(h) \/ FollowAnswers(h)
                                \/ AnswerLooksUp(h) \/ AcceptSettles(h) \/ RejectSettles(h)
                                \/ UndoLooksUp(h) \/ InboundFinish(h)
  BY <1>11, <1>15
  DEF FollowChecks, FollowAccepts, FollowAnswers, AnswerLooksUp, AcceptSettles, RejectSettles,
      UndoLooksUp, InboundFinish, At, SetState, Enqueue, Phases, table, history
<1>c. CASE \E h \in Requests : AcceptBackfills(h)
  <2> PICK h \in Requests : AcceptBackfills(h)
    BY <1>c
  <2>1. /\ \A g \in Requests : pc[g] = "dropped" => pc'[g] = "dropped" /\ msg'[g] = msg[g]
        /\ UNCHANGED <<act, raced, recorded, sent>>
    BY DEF AcceptBackfills, At, Goes, table, history
  <2>2. CASE faults' = faults + 1
    BY <2>2 DEF DropAccounted
  <2>3. CASE faults' = faults
    BY <1>10, <2>1, <2>3
  <2>4. QED
    BY <2>2, <2>3 DEF AcceptBackfills
<1>16. QED
  BY SplitNext, <1>3, <1>4, <1>5, <1>6, <1>7, <1>8, <1>9, <1>c, <1>12, <1>13, <1>14, <1>15
  DEF NextCases, DeleteActor, RemoteFollows, table, local, history, vars

\* NOBODY IS LEFT BEHIND (api_unfollow): with no request under way and no fault,
\* a Follow that was sent and has no row was undone, named by an Undo somebody
\* sent or replaced, or its row was deleted by a request that had read another.
THEOREM DropCorrect == Spec => []DroppedIsUndone
<1>1. Init => DropInv
  BY InitTable, ConstantAssumption DEF Init, DropInv, DrawnInOrder, SentIsRecorded, DropAccounted
<1>2. DropInv /\ [Next]_vars => DropInv'
  BY TableStep, DrawnStep, SentStep, AccountedStep DEF DropInv
<1>3. DropInv => DroppedIsUndone
  BY DEF DropInv, SentIsRecorded, DropAccounted, Accounted, DroppedIsUndone
<1>4. QED
  BY <1>1, <1>2, <1>3, PTL DEF Spec

=============================================================================
