------------------------------ MODULE Follows ------------------------------
(***************************************************************************)
(* The follow protocol: the follow API of crates/server/src/federation.rs, *)
(* the inbox handlers of Follow, Accept, Reject and Undo(Follow) in        *)
(* crates/federation/src/activity.rs, and the table they share             *)
(* (crates/db/src/follow.rs, one row per pair of actors).                  *)
(*                                                                         *)
(* Requests and inbox deliveries run concurrently, each as the sequence of *)
(* its SQL statements.  Deliveries to remote servers are jobs of the queue *)
(* (module JobQueue): they are retried with a backoff, so they arrive in   *)
(* any order or are given up.  Remote servers answer when they like and    *)
(* deliver what they send any number of times.                             *)
(*                                                                         *)
(* An Accept, a Reject or an Undo names a follow by its id.  No handler    *)
(* compares its sender with the follower or the target, so who sent it is  *)
(* not part of the message: it may come from any remote actor, for any     *)
(* follow, and again under another activity id.                            *)
(***************************************************************************)
EXTENDS Integers, FiniteSets

CONSTANTS
  Locals, Remotes, \* actors of this instance and of others
  Locked,          \* the local actors with is_locked
  Pairs,           \* <<follower, target>>: the pairs that may follow
  Ids,             \* ids of Follow activities, in the order they are drawn
  Requests,        \* requests being handled at the same time, numbered
  NoId, NoPair, NoMsg,
  MaxPairs,        \* bound: pairs that follow in one behaviour
  MaxEvents        \* bound: activities that arrive from remote servers, requests that
                   \* fail half-way and statements that fail, together

ASSUME ConstantAssumption ==
  /\ Pairs \subseteq {p \in (Locals \cup Remotes) \X (Locals \cup Remotes) :
                        p[1] # p[2] /\ (p[1] \in Locals \/ p[2] \in Locals)}
  /\ Locals \cap Remotes = {}
  /\ Ids \subseteq Nat /\ Requests \subseteq Nat /\ NoId \notin Ids
  /\ NoPair \notin Pairs
  /\ NoMsg \notin {"Follow", "Undo", "Accept", "Reject"} \X Ids
  /\ MaxEvents \in Nat /\ MaxPairs \in Nat

VARIABLES
  state,      \* follows.state, or "none" where there is no row
  act,        \* follows.ap_activity_id
  pair,       \* pair[f]: who follows whom in the Follow activity f
  received,   \* activities: what the rows inserted by the inbox say
  arrived,    \* activities: their number
  processed,  \* activities: what those with processed_at say
  tombs,      \* tombstones of local actors
  backfills,  \* backfill jobs: the actors they are for
  pc, msg, found, \* local state of a request: its activity, the row it read
  sent,       \* the delivery jobs (deliver, deliver_follow) ever enqueued
  recorded,   \* history: the follows whose row was written
  overtaken,  \* history: the follows that were undone before that
  unfollowed, \* history: the follows whose row an unfollow has read
  raced,      \* history: the follows whose row was deleted by a request that read another
  mistaken,   \* history: the follows whose row was settled by an answer to another
  faults

table == <<state, act>>
log == <<received, arrived, processed>>
local == <<pc, msg, found>>
history == <<recorded, overtaken, unfollowed, raced, mistaken>>
vars == <<table, pair, log, tombs, sent, backfills, local, history, faults>>

States == {"none", "requested", "accepted", "rejected"}
Msgs == {"Follow", "Undo", "Accept", "Reject"} \X Ids

\* upserted / dropped: the API wrote the table and has yet to enqueue;
\* dropping: unfollow read the row; begun: the inbox inserted the activity;
\* recording, accepting, answering: Follow's statements; settling, removing:
\* Accept or Reject, and Undo, have read the row; backfilling: Accept's last
\* call; finishing: the last stamp.
Phases == {"idle", "upserted", "dropping", "dropped", "begun", "recording", "accepting",
           "answering", "settling", "backfilling", "removing", "finishing"}

Follower(p) == p[1]
Target(p) == p[2]
Outbound(p) == Follower(p) \in Locals /\ Target(p) \in Remotes
Inbound(p) == Follower(p) \in Remotes
SameInstance(p) == Follower(p) \in Locals /\ Target(p) \in Locals

Init ==
  /\ state = [p \in Pairs |-> "none"] /\ act = [p \in Pairs |-> NoId]
  /\ pair = [f \in Ids |-> NoPair]
  /\ received = {} /\ arrived = 0 /\ processed = {} /\ tombs = {}
  /\ sent = {} /\ backfills = {}
  /\ pc = [h \in Requests |-> "idle"] /\ msg = [h \in Requests |-> NoMsg]
  /\ found = [h \in Requests |-> NoPair]
  /\ recorded = {} /\ overtaken = {} /\ unfollowed = {} /\ raced = {} /\ mistaken = {}
  /\ faults = 0

-----------------------------------------------------------------------------
(* The table.                                                              *)

\* Follow::upsert, with an activity id.
Upsert(p, f, s) == state' = [state EXCEPT ![p] = s] /\ act' = [act EXCEPT ![p] = f]

\* Mutant: the UPDATE of set_state becomes an upsert and brings a row back.
SetStateCreates(p, s) == state' = [state EXCEPT ![p] = s] /\ UNCHANGED act

\* Follow::set_state: an UPDATE, nothing happens without a row.
SetState(p, s) ==
  /\ state' = [state EXCEPT ![p] = IF @ = "none" THEN "none" ELSE s]
  /\ UNCHANGED act

\* Follow::delete, by the pair, whatever the row's activity id.
DeletePair(p) == state' = [state EXCEPT ![p] = "none"] /\ act' = [act EXCEPT ![p] = NoId]

\* Follow::fetch_by_activity_id.
RowOf(f) == {p \in Pairs : act[p] = f}

\* Job::create of a delivery.
Enqueue(m) == sent' = sent \cup {m}

\* activity_id: a new id for every Follow.
Fresh(p, f) ==
  /\ pair[f] = NoPair /\ \A g \in Ids : g < f => pair[g] # NoPair
  /\ Cardinality({p} \cup {pair[g] : g \in {i \in Ids : pair[i] # NoPair}}) <= MaxPairs

Bounded == arrived + faults < MaxEvents

Goes(h, ph) == pc' = [pc EXCEPT ![h] = ph] /\ UNCHANGED <<msg, found>>
Leaves(h) ==
  /\ pc' = [pc EXCEPT ![h] = "idle"] /\ msg' = [msg EXCEPT ![h] = NoMsg]
  /\ found' = [found EXCEPT ![h] = NoPair]
\* A request takes the first free number.
Starts(h, ph, m, p) ==
  /\ pc[h] = "idle" /\ \A g \in Requests : g < h => pc[g] # "idle"
  /\ pc' = [pc EXCEPT ![h] = ph] /\ msg' = [msg EXCEPT ![h] = m]
  /\ found' = [found EXCEPT ![h] = p]

Id(h) == msg[h][2]

\* The follow whose row a request is about to write by its pair, when it is not
\* the one whose row it read.
OtherRow(h) == {act[found[h]]} \ {NoId, Id(h)}

At(h, ph, kind) == pc[h] = ph /\ msg[h][1] = kind

-----------------------------------------------------------------------------
(* The follow API.                                                         *)

\* api_follow of an actor of this instance: accepted at once, no delivery.
FollowLocally(p, f) ==
  /\ SameInstance(p) /\ Fresh(p, f)
  /\ pair' = [pair EXCEPT ![f] = p]
  /\ Upsert(p, f, "accepted")
  /\ recorded' = recorded \cup {f}
  /\ UNCHANGED <<log, tombs, sent, backfills, local, overtaken, unfollowed, raced, mistaken, faults>>

\* api_follow of a remote actor: the row, whatever it said before, becomes a
\* new request.
FollowRemotely(h, p, f) ==
  /\ Outbound(p) /\ Fresh(p, f)
  /\ pair' = [pair EXCEPT ![f] = p]
  /\ Upsert(p, f, "requested")
  /\ recorded' = recorded \cup {f}
  /\ Starts(h, "upserted", <<"Follow", f>>, NoPair)
  /\ UNCHANGED <<log, tombs, sent, backfills, overtaken, unfollowed, raced, mistaken, faults>>

\* Mutant: no 404 when there is no row.
UnfollowReadsNothing(h, p) ==
  /\ Follower(p) \in Locals
  /\ Starts(h, "dropping", <<"Undo", act[p]>>, p)
  /\ unfollowed' = unfollowed \cup {act[p]}
  /\ UNCHANGED <<table, pair, log, tombs, sent, backfills, recorded, overtaken, raced, mistaken, faults>>

\* api_unfollow reads the row for the id to undo; 404 when there is none.
UnfollowReads(h, p) ==
  /\ Follower(p) \in Locals /\ state[p] # "none"
  /\ Starts(h, "dropping", <<"Undo", act[p]>>, p)
  /\ unfollowed' = unfollowed \cup {act[p]}
  /\ UNCHANGED <<table, pair, log, tombs, sent, backfills, recorded, overtaken, raced, mistaken, faults>>

\* The DELETE; a failure of it is not looked at.
UnfollowDeletes(h) ==
  /\ pc[h] = "dropping"
  /\ Goes(h, "dropped")
  /\ \/ /\ DeletePair(found[h])
        /\ raced' = raced \cup OtherRow(h)
        /\ UNCHANGED faults
     \/ /\ Bounded /\ faults' = faults + 1
        /\ UNCHANGED <<table, raced>>
  /\ UNCHANGED <<pair, log, tombs, sent, backfills, recorded, overtaken, unfollowed, mistaken>>

\* Mutant: unfollowing stays a local matter.
ApiEnqueuesFollows(h) ==
  /\ pc[h] \in {"upserted", "dropped"}
  /\ IF pc[h] = "upserted" THEN Enqueue(msg[h]) ELSE UNCHANGED sent
  /\ Leaves(h)
  /\ UNCHANGED <<table, pair, log, tombs, backfills, history, faults>>

\* The job that tells the target, also when the target is on this instance.
ApiEnqueues(h) ==
  /\ pc[h] \in {"upserted", "dropped"}
  /\ Enqueue(msg[h])
  /\ Leaves(h)
  /\ UNCHANGED <<table, pair, log, tombs, backfills, history, faults>>

-----------------------------------------------------------------------------
(* The inbox.                                                              *)

\* Mutant: the activity_id gate lets a repeated activity through.
FirstDeliveryOpen(m) == TRUE

\* INSERT ... ON CONFLICT (activity_id) DO NOTHING gave a row.  The activity id
\* of a Follow is the id of the follow.  An answer or an Undo has one of its own:
\* the same one is refused, without any effect, but not another one that names
\* the same follow.
FirstDelivery(m) == m[1] = "Follow" => m \notin received

\* What may arrive, any number of times and in any order: the Follows of remote
\* actors, and, from any of them, an Accept, Reject or Undo of any follow there is.
MayArrive(m) ==
  /\ pair[m[2]] # NoPair
  /\ m[1] = "Follow" => Inbound(pair[m[2]])

InboundBegin(h, m) ==
  /\ MayArrive(m) /\ FirstDelivery(m)
  /\ Bounded /\ arrived' = arrived + 1
  /\ received' = received \cup {m}
  /\ Starts(h, "begun", m, NoPair)
  /\ UNCHANGED <<table, pair, processed, tombs, sent, backfills, history, faults>>

\* Follow: the target's tombstone swallows it.
FollowChecks(h) ==
  /\ At(h, "begun", "Follow")
  /\ Goes(h, IF Target(pair[Id(h)]) \in tombs THEN "finishing" ELSE "recording")
  /\ UNCHANGED <<table, pair, log, tombs, sent, backfills, history, faults>>

FollowRecords(h) ==
  /\ At(h, "recording", "Follow")
  /\ Upsert(pair[Id(h)], Id(h), "requested")
  /\ recorded' = recorded \cup {Id(h)}
  /\ Goes(h, IF Target(pair[Id(h)]) \in Locked THEN "finishing" ELSE "accepting")
  /\ UNCHANGED <<pair, log, tombs, sent, backfills, overtaken, unfollowed, raced, mistaken, faults>>

\* Mutant: without a row to accept the handler gives up.
FollowAcceptsRow(h) ==
  /\ At(h, "accepting", "Follow")
  /\ SetState(pair[Id(h)], "accepted")
  /\ Goes(h, IF state[pair[Id(h)]] = "none" THEN "finishing" ELSE "answering")
  /\ UNCHANGED <<pair, log, tombs, sent, backfills, history, faults>>

FollowAccepts(h) ==
  /\ At(h, "accepting", "Follow")
  /\ SetState(pair[Id(h)], "accepted")
  /\ Goes(h, "answering")
  /\ UNCHANGED <<pair, log, tombs, sent, backfills, history, faults>>

FollowAnswers(h) ==
  /\ At(h, "answering", "Follow")
  /\ Enqueue(<<"Accept", Id(h)>>)
  /\ Goes(h, "finishing")
  /\ UNCHANGED <<table, pair, log, tombs, backfills, history, faults>>

\* The row of an activity id is read and remembered by its pair.
Lookup(h, ph) ==
  /\ IF RowOf(Id(h)) = {}
       THEN pc' = [pc EXCEPT ![h] = "finishing"] /\ UNCHANGED found
       ELSE /\ pc' = [pc EXCEPT ![h] = ph]
            /\ \E p \in RowOf(Id(h)) : found' = [found EXCEPT ![h] = p]
  /\ UNCHANGED msg

AnswerLooksUp(h) ==
  /\ At(h, "begun", "Accept") \/ At(h, "begun", "Reject")
  /\ Lookup(h, "settling")
  /\ UNCHANGED <<table, pair, log, tombs, sent, backfills, history, faults>>

AcceptSettles(h) ==
  /\ At(h, "settling", "Accept")
  /\ SetState(found[h], "accepted")
  /\ mistaken' = mistaken \cup OtherRow(h)
  /\ Goes(h, "backfilling")
  /\ UNCHANGED <<pair, log, tombs, sent, backfills, recorded, overtaken, unfollowed, raced, faults>>

\* Accept also queues a backfill of the actor that is now followed; it goes on
\* when that fails.
AcceptBackfills(h) ==
  /\ At(h, "backfilling", "Accept")
  /\ Goes(h, "finishing")
  /\ \/ backfills' = backfills \cup {Target(found[h])} /\ UNCHANGED faults
     \/ Bounded /\ faults' = faults + 1 /\ UNCHANGED backfills
  /\ UNCHANGED <<table, pair, log, tombs, sent, history>>

RejectSettles(h) ==
  /\ At(h, "settling", "Reject")
  /\ SetState(found[h], "rejected")
  /\ mistaken' = mistaken \cup OtherRow(h)
  /\ Goes(h, "finishing")
  /\ UNCHANGED <<pair, log, tombs, sent, backfills, recorded, overtaken, unfollowed, raced, faults>>

UndoLooksUp(h) ==
  /\ At(h, "begun", "Undo")
  /\ Lookup(h, "removing")
  /\ overtaken' = IF Id(h) \in recorded THEN overtaken ELSE overtaken \cup {Id(h)}
  /\ UNCHANGED <<table, pair, log, tombs, sent, backfills, recorded, unfollowed, raced, mistaken, faults>>

UndoRemoves(h) ==
  /\ At(h, "removing", "Undo")
  /\ DeletePair(found[h])
  /\ raced' = raced \cup OtherRow(h)
  /\ Goes(h, "finishing")
  /\ UNCHANGED <<pair, log, tombs, sent, backfills, recorded, overtaken, unfollowed, mistaken, faults>>

InboundFinish(h) ==
  /\ pc[h] = "finishing"
  /\ processed' = processed \cup {msg[h]}
  /\ Leaves(h)
  /\ UNCHANGED <<table, pair, received, arrived, tombs, sent, backfills, history, faults>>

\* A statement fails, or the server stops: what is written stays.
RequestFails(h) ==
  /\ pc[h] # "idle" /\ Bounded /\ faults' = faults + 1
  /\ Leaves(h)
  /\ UNCHANGED <<table, pair, log, tombs, sent, backfills, history>>

\* delete_me tombstones a local actor; only the tombstones of those that a
\* remote actor asked to follow are looked at.
DeleteActor(a) ==
  /\ \E f \in Ids : pair[f] # NoPair /\ Inbound(pair[f]) /\ Target(pair[f]) = a
  /\ tombs' = tombs \cup {a}
  /\ UNCHANGED <<table, pair, log, sent, backfills, local, history, faults>>

\* A remote actor follows a local one.
RemoteFollows(p, f) ==
  /\ Inbound(p) /\ Fresh(p, f)
  /\ pair' = [pair EXCEPT ![f] = p]
  /\ UNCHANGED <<table, log, tombs, sent, backfills, local, history, faults>>

-----------------------------------------------------------------------------
HandlerStep(h) ==
  \/ ApiEnqueues(h) \/ UnfollowDeletes(h)
  \/ FollowChecks(h) \/ FollowRecords(h) \/ FollowAccepts(h) \/ FollowAnswers(h)
  \/ AnswerLooksUp(h) \/ AcceptSettles(h) \/ AcceptBackfills(h) \/ RejectSettles(h)
  \/ UndoLooksUp(h) \/ UndoRemoves(h) \/ InboundFinish(h)

Next ==
  \/ \E a \in Locals : DeleteActor(a)
  \/ \E p \in Pairs, f \in Ids : RemoteFollows(p, f) \/ FollowLocally(p, f)
  \/ \E h \in Requests :
       \/ HandlerStep(h) \/ RequestFails(h)
       \/ \E p \in Pairs : UnfollowReads(h, p) \/ \E f \in Ids : FollowRemotely(h, p, f)
       \/ \E m \in Msgs : InboundBegin(h, m)

Spec == Init /\ [][Next]_vars

\* A request that runs is not put off for ever.
FairSpec == Spec /\ \A h \in Requests : WF_vars(HandlerStep(h))

-----------------------------------------------------------------------------
(* Properties.                                                             *)

\* The table, the logs and what the requests hold keep their types: an unfollow
\* never holds an activity id that is none (api_unfollow's 404).
TypeOK ==
  /\ state \in [Pairs -> States] /\ act \in [Pairs -> Ids \cup {NoId}]
  /\ pair \in [Ids -> Pairs \cup {NoPair}]
  /\ received \subseteq Msgs /\ processed \subseteq Msgs /\ tombs \subseteq Locals
  /\ arrived \in 0..MaxEvents
  /\ sent \subseteq Msgs
  /\ backfills \subseteq Locals \cup Remotes
  /\ pc \in [Requests -> Phases] /\ msg \in [Requests -> Msgs \cup {NoMsg}]
  /\ found \in [Requests -> Pairs \cup {NoPair}]
  /\ recorded \subseteq Ids /\ overtaken \subseteq Ids /\ unfollowed \subseteq Ids
  /\ raced \subseteq Ids /\ mistaken \subseteq Ids
  /\ faults \in 0..MaxEvents

\* A local actor that is not locked accepts whoever asks, and so does every
\* actor towards its own instance.
Automatic == {p \in Pairs : Target(p) \in Locals /\ (SameInstance(p) \/ Target(p) \notin Locked)}

\* The answers that arrived, and the follows that an unfollow or an Undo named.
Answers == {a \in Ids \X {"accepted", "rejected"} :
              <<IF a[2] = "accepted" THEN "Accept" ELSE "Reject", a[1]>> \in received}
Ended == {f \in Ids : f \in unfollowed \/ <<"Undo", f>> \in received}

Relation == INSTANCE FollowRelation WITH
  Direct <- {p \in Pairs : SameInstance(p)},
  rel <- state, standing <- act, asked <- pair, answers <- Answers, ended <- Ended

\* REFINEMENT (the whole protocol): however requests, handlers, lost, late and
\* repeated messages interleave, and whoever sends them, the table behaves as a
\* follow relation: rows appear only when the follower asked, stand for the
\* follow that made them, change only by an answer and go only by an Undo or
\* unfollow that named that follow - or another follow of the same pair, when
\* the row was replaced between the SELECT by activity id and the write by pair.
ImplementsRelation == Relation!Spec

\* UNDO WINS (Undo::receive_inbound): once the Undo of a follow is processed
\* that follow does not stand, unless the Undo overtook its Follow; a Follow
\* delivered again does not revive it.
UndoneStaysUndone ==
  \A f \in Ids :
    /\ <<"Undo", f>> \in processed /\ pair[f] # NoPair /\ act[pair[f]] = f
    => f \in overtaken

\* NOBODY IS LEFT BEHIND (api_unfollow): when no request is under way, every
\* Follow that was sent out and is not in the table was undone too, or somebody
\* sent an Undo that names it, or a later Follow of the same pair took its
\* place, unless its row was deleted by a request that had read an earlier one.
DroppedIsUndone ==
  (faults = 0 /\ \A h \in Requests : pc[h] = "idle") =>
    \A f \in Ids :
      /\ pair[f] # NoPair /\ Outbound(pair[f]) /\ <<"Follow", f>> \in sent /\ act[pair[f]] # f
      => \/ <<"Undo", f>> \in sent \cup received
         \/ \E g \in Ids : g > f /\ pair[g] = pair[f]
         \/ f \in raced

\* PROGRESS (Follow::receive_inbound): every Follow that the inbox took is
\* answered, also when its row is gone by then, unless the target is locked
\* or deleted or the handler failed.
FollowIsAnswered ==
  \A f \in Ids :
    <<"Follow", f>> \in received ~>
      \/ <<"Accept", f>> \in sent
      \/ pair[f] # NoPair /\ Target(pair[f]) \in Locked \cup tombs
      \/ faults > 0

=============================================================================
