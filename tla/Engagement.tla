----------------------------- MODULE Engagement -----------------------------
(***************************************************************************)
(* Likes, boosts and comments of one clip, with the counters beside them   *)
(* and the notifications they cause (crates/server/src/social.rs).  A      *)
(* handler is a sequence of statements that commit one by one: the row,    *)
(* the counter, the notification.  Handlers of the same or of different    *)
(* users run at the same time; the clip may be deleted at any moment.      *)
(***************************************************************************)
EXTENDS Integers, FiniteSets

CONSTANTS
  Actors,       \* signed-in users
  Author,       \* the author of the clip
  Admins,       \* users with is_admin
  Comments,     \* ids of comments
  Requests,     \* requests being handled at the same time
  NoOne, NoItem,
  CommentsOff,  \* clips.comments_disabled
  MaxRequests,  \* bound: requests in one behaviour
  MaxFaults     \* bound: requests that fail half-way

ASSUME ConstantAssumption ==
  /\ IsFiniteSet(Actors) /\ IsFiniteSet(Comments) /\ IsFiniteSet(Requests)
  /\ Author \in Actors /\ Admins \subseteq Actors
  /\ NoOne \notin Actors /\ NoItem \notin Actors \cup Comments /\ Actors \cap Comments = {}
  /\ CommentsOff \in BOOLEAN /\ MaxRequests \in Nat /\ MaxFaults \in Nat

VARIABLES
  gone,       \* clips.deleted_at is set
  rows,       \* rows[k]: likes and announces by actor, live comments by id
  count,      \* clips.like_count, share_count, comment_count
  writer,     \* comments.actor_id
  marks,      \* bookmarks of the clip
  notes,      \* notes[k, i]: notifications of the author about row i of kind k
  unread,     \* those of which one has no read_at
  op, pc, who, item, \* a request: handler, statement it stands at, user, row
  made,       \* history: made[k, i]: insertions of row i of kind k
  floored,    \* history: how often GREATEST(count - 1, 0) stopped at 0
  overlapped, \* history: the kinds of which two requests have run at once
  started, faults

tables == <<rows, count, writer, marks, notes, unread>>
request == <<op, pc, who, item>>
history == <<made, floored, overlapped>>
vars == <<gone, tables, request, history, started, faults>>

Kinds == {"like", "boost", "comment"}
Ops == {"like", "unlike", "announce", "unannounce", "comment", "uncomment", "bookmark"}
Items == Actors \cup Comments
KindOf(o) ==
  CASE o \in {"like", "unlike"} -> "like"
    [] o \in {"announce", "unannounce"} -> "boost"
    [] o \in {"comment", "uncomment"} -> "comment"
    [] OTHER -> "bookmark"
Busy(k) == {h \in Requests : pc[h] # "idle" /\ KindOf(op[h]) = k}

\* adding, removing: the row is to be written; counting, discounting: the
\* counter; notifying: the notification.
Phases == {"idle", "adding", "counting", "notifying", "removing", "discounting"}

Init ==
  /\ gone = FALSE
  /\ rows = [k \in Kinds |-> {}] /\ count = [k \in Kinds |-> 0]
  /\ writer = [c \in Comments |-> NoOne]
  /\ marks = {} /\ notes = [n \in Kinds \X Items |-> 0] /\ unread = {}
  /\ op = [h \in Requests |-> "like"] /\ pc = [h \in Requests |-> "idle"]
  /\ who = [h \in Requests |-> NoOne] /\ item = [h \in Requests |-> NoItem]
  /\ made = [n \in Kinds \X Items |-> 0] /\ floored = [k \in Kinds |-> 0] /\ overlapped = {}
  /\ started = 0 /\ faults = 0

-----------------------------------------------------------------------------
(* The statements.                                                         *)

\* A request that got past authentication and fetch_live_clip.
Begins(h, o, a, i, ph) ==
  /\ pc[h] = "idle" /\ started < MaxRequests /\ started' = started + 1
  /\ op' = [op EXCEPT ![h] = o] /\ pc' = [pc EXCEPT ![h] = ph]
  /\ who' = [who EXCEPT ![h] = a] /\ item' = [item EXCEPT ![h] = i]
  /\ overlapped' = IF Busy(KindOf(o)) = {} THEN overlapped ELSE overlapped \cup {KindOf(o)}
  /\ UNCHANGED <<gone, rows, count, marks, notes, unread, made, floored, faults>>

Goes(h, ph) == pc' = [pc EXCEPT ![h] = ph] /\ UNCHANGED <<op, who, item>>
At(h, o, ph) == op[h] = o /\ pc[h] = ph
Frame == UNCHANGED <<gone, marks, overlapped, started, faults>>

\* Mutant: a like that is already there goes on to the counter.
InsertRowAgain(h, k) ==
  /\ rows' = [rows EXCEPT ![k] = @ \cup {item[h]}]
  /\ made' = IF item[h] \in rows[k] THEN made ELSE [made EXCEPT ![<<k, item[h]>>] = @ + 1]
  /\ Goes(h, "counting")
  /\ UNCHANGED <<count, notes, unread, floored>> /\ Frame

\* INSERT ... ON CONFLICT DO NOTHING; without a new row the request is done.
InsertRow(h, k) ==
  /\ rows' = [rows EXCEPT ![k] = @ \cup {item[h]}]
  /\ made' = IF item[h] \in rows[k] THEN made ELSE [made EXCEPT ![<<k, item[h]>>] = @ + 1]
  /\ Goes(h, IF item[h] \in rows[k] THEN "idle" ELSE "counting")
  /\ UNCHANGED <<count, notes, unread, floored>> /\ Frame

\* UPDATE clips SET count = count + 1; the author is not told of his own.
CountRow(h, k) ==
  /\ count' = [count EXCEPT ![k] = @ + 1]
  /\ Goes(h, IF who[h] = Author THEN "idle" ELSE "notifying")
  /\ UNCHANGED <<rows, notes, unread, made, floored>> /\ Frame

NotifyAuthor(h, k) ==
  /\ notes' = [notes EXCEPT ![<<k, item[h]>>] = @ + 1]
  /\ unread' = unread \cup {<<k, item[h]>>}
  /\ Goes(h, "idle")
  /\ UNCHANGED <<rows, count, made, floored>> /\ Frame

\* Mutant: the counter goes down also when there was nothing to remove.
RemoveRowAlways(h, k) ==
  /\ rows' = [rows EXCEPT ![k] = @ \ {item[h]}]
  /\ Goes(h, "discounting")
  /\ UNCHANGED <<count, notes, unread, made, floored>> /\ Frame

\* DELETE, or UPDATE comments SET deleted_at ... WHERE deleted_at IS NULL.
RemoveRow(h, k) ==
  /\ rows' = [rows EXCEPT ![k] = @ \ {item[h]}]
  /\ Goes(h, IF item[h] \in rows[k] THEN "discounting" ELSE "idle")
  /\ UNCHANGED <<count, notes, unread, made, floored>> /\ Frame

\* Mutant: without GREATEST.
DiscountRowBelowZero(h, k) ==
  /\ count' = [count EXCEPT ![k] = @ - 1]
  /\ Goes(h, "idle")
  /\ UNCHANGED <<rows, notes, unread, made, floored>> /\ Frame

\* UPDATE clips SET count = GREATEST(count - 1, 0).
DiscountRow(h, k) ==
  /\ count' = [count EXCEPT ![k] = IF @ = 0 THEN 0 ELSE @ - 1]
  /\ floored' = IF count[k] = 0 THEN [floored EXCEPT ![k] = @ + 1] ELSE floored
  /\ Goes(h, "idle")
  /\ UNCHANGED <<rows, notes, unread, made>> /\ Frame

\* The guarded UPDATE of a deleted clip changes nothing and ends the request.
Refused(h) ==
  /\ gone
  /\ Goes(h, "idle")
  /\ UNCHANGED <<rows, count, notes, unread, made, floored>> /\ Frame

-----------------------------------------------------------------------------
(* The handlers, after fetch_live_clip: one disjunct per statement.        *)

LikeClip(h) ==
  \/ At(h, "like", "adding") /\ InsertRow(h, "like")
  \/ At(h, "like", "counting") /\ (Refused(h) \/ (~gone /\ CountRow(h, "like")))
  \/ At(h, "like", "notifying") /\ NotifyAuthor(h, "like")

UnlikeClip(h) ==
  \/ At(h, "unlike", "removing") /\ RemoveRow(h, "like")
  \/ At(h, "unlike", "discounting") /\ (Refused(h) \/ (~gone /\ DiscountRow(h, "like")))

AnnounceClip(h) ==
  \/ At(h, "announce", "adding") /\ InsertRow(h, "boost")
  \/ At(h, "announce", "counting") /\ (Refused(h) \/ (~gone /\ CountRow(h, "boost")))
  \/ At(h, "announce", "notifying") /\ NotifyAuthor(h, "boost")

UnannounceClip(h) ==
  \/ At(h, "unannounce", "removing") /\ RemoveRow(h, "boost")
  \/ At(h, "unannounce", "discounting") /\ (Refused(h) \/ (~gone /\ DiscountRow(h, "boost")))

\* The counter of comments is written whether or not the clip is deleted.
CreateComment(h) ==
  \/ At(h, "comment", "adding") /\ InsertRow(h, "comment")
  \/ At(h, "comment", "counting") /\ CountRow(h, "comment")
  \/ At(h, "comment", "notifying") /\ NotifyAuthor(h, "comment")

DeleteComment(h) ==
  \/ At(h, "uncomment", "removing") /\ RemoveRow(h, "comment")
  \/ At(h, "uncomment", "discounting") /\ DiscountRow(h, "comment")

\* bookmark::add.
BookmarkClip(h) ==
  /\ At(h, "bookmark", "adding")
  /\ marks' = marks \cup {who[h]}
  /\ Goes(h, "idle")
  /\ UNCHANGED <<gone, rows, count, writer, notes, unread, history, started, faults>>

\* bookmark::remove, also of a deleted clip.
UnbookmarkClip(a) ==
  /\ a \in marks /\ marks' = marks \ {a}
  /\ UNCHANGED <<gone, rows, count, writer, notes, unread, request, history, started, faults>>

\* mark_read: the rows of the given ids, or all of them.
MarkRead(S) ==
  /\ unread' = unread \ S
  /\ UNCHANGED <<gone, rows, count, writer, marks, notes, request, history, started, faults>>

-----------------------------------------------------------------------------
(* Requests arrive.                                                        *)

FetchLiveClip(h, a) ==
  /\ ~gone
  /\ \/ Begins(h, "like", a, a, "adding") \/ Begins(h, "unlike", a, a, "removing")
     \/ Begins(h, "announce", a, a, "adding") \/ Begins(h, "unannounce", a, a, "removing")
     \/ Begins(h, "bookmark", a, NoItem, "adding")
  /\ UNCHANGED writer

\* create_comment draws a new id.
CommentReads(h, a, c) ==
  /\ ~gone /\ ~CommentsOff
  /\ writer[c] = NoOne /\ writer' = [writer EXCEPT ![c] = a]
  /\ Begins(h, "comment", a, c, "adding")

\* delete_comment, by its author or an admin, also of a deleted clip.
DeleteCommentReads(h, a, c) ==
  /\ c \in rows["comment"] /\ (a = writer[c] \/ a \in Admins)
  /\ Begins(h, "uncomment", a, c, "removing")
  /\ UNCHANGED writer

\* delete_me of the author, or a Delete that arrives.
ClipGoes ==
  /\ ~gone /\ gone' = TRUE
  /\ UNCHANGED <<tables, request, history, started, faults>>

\* A statement fails or the server stops; what is committed stays.
RequestFails(h) ==
  /\ pc[h] # "idle" /\ faults < MaxFaults /\ faults' = faults + 1
  /\ Goes(h, "idle")
  /\ UNCHANGED <<gone, tables, history, started>>

Next ==
  \/ ClipGoes
  \/ \E a \in Actors : UnbookmarkClip(a)
  \/ \E S \in SUBSET unread : S # {} /\ MarkRead(S)
  \/ \E h \in Requests :
       \/ RequestFails(h)
       \/ (LikeClip(h) \/ UnlikeClip(h) \/ AnnounceClip(h) \/ UnannounceClip(h)
           \/ CreateComment(h) \/ DeleteComment(h)) /\ UNCHANGED writer
       \/ BookmarkClip(h)
       \/ \E a \in Actors :
            \/ FetchLiveClip(h, a)
            \/ \E c \in Comments : CommentReads(h, a, c) \/ DeleteCommentReads(h, a, c)

Spec == Init /\ [][Next]_vars

-----------------------------------------------------------------------------
(* Properties.                                                             *)

\* The rows and the requests keep their types, and no counter goes below 0
\* (GREATEST in unlike_clip, unannounce_clip and delete_comment).
TypeOK ==
  /\ gone \in BOOLEAN
  /\ rows \in [Kinds -> SUBSET Items] /\ count \in [Kinds -> Nat]
  /\ writer \in [Comments -> Actors \cup {NoOne}] /\ marks \subseteq Actors
  /\ notes \in [Kinds \X Items -> Nat] /\ unread \subseteq Kinds \X Items
  /\ op \in [Requests -> Ops] /\ pc \in [Requests -> Phases]
  /\ who \in [Requests -> Actors \cup {NoOne}] /\ item \in [Requests -> Items \cup {NoItem}]
  /\ made \in [Kinds \X Items -> Nat] /\ floored \in [Kinds -> Nat]
  /\ overlapped \subseteq Kinds \cup {"bookmark"}
  /\ started \in 0..MaxRequests /\ faults \in 0..MaxFaults

Pending(k, ph) == {h \in Requests : pc[h] = ph /\ KindOf(op[h]) = k}

\* COUNTERS ARE ACCOUNTED FOR (like_clip ... delete_comment): whatever overlaps,
\* the counter and the rows differ by the requests that are between their two
\* statements and by the decrements that found the counter at 0, and by
\* nothing else; as long as requests of one kind do not overlap the floor of
\* GREATEST(count - 1, 0) is never met, so the counter is exact.
CounterAccounts ==
  \A k \in Kinds :
    faults = 0 /\ (k = "comment" \/ ~gone) =>
      /\ count[k] + Cardinality(Pending(k, "counting"))
           = Cardinality(rows[k]) + Cardinality(Pending(k, "discounting")) + floored[k]
      /\ k \notin overlapped => floored[k] = 0

\* NOTIFIED ONCE (like_clip, announce_clip, create_comment): the author hears
\* of a row at most once for each time it was made, and never of his own.
NotifiedOnce ==
  \A k \in Kinds, i \in Items :
    /\ notes[k, i] <= made[k, i]
    /\ (i = Author \/ (i \in Comments /\ writer[i] = Author)) => notes[k, i] = 0

=============================================================================
