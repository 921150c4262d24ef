-------------------------------- MODULE Inbox --------------------------------
(***************************************************************************)
(* Inbound federation of clips: the receive_inbound handlers of            *)
(* crates/federation/src/activity.rs for Create, Update, Delete and the    *)
(* activities that are only logged, the tombstones they consult, and the   *)
(* backfill that inserts notes by another way (backfill.rs).               *)
(*                                                                         *)
(* Every POST to the inbox runs a handler task of its own; a remote server *)
(* delivers an activity again until it is answered, late and in any order. *)
(* A handler is the sequence of its SQL statements, with the fetch of the  *)
(* actor (a network call) between the tombstone check and the INSERT.      *)
(* An error returns early and leaves what was written; the insert of the   *)
(* activity row is the first thing written.                                *)
(*                                                                         *)
(* Nothing ties the id of a note to an actor: a Create is compared with    *)
(* the attributedTo it carries itself, and every later activity with the   *)
(* actor of the row that the first accepted Create inserted.               *)
(***************************************************************************)
EXTENDS Integers, FiniteSets

CONSTANTS
  Acts,       \* ids of the activities remote servers may deliver
  Kind,       \* Kind[a]: "Create", "Update", "Delete" or "Log"
  Sender,     \* Sender[a]: the actor that signed a
  Object,     \* Object[a]: the note a is about
  Notes,      \* ap_ids of notes
  Actors,
  Locals,     \* the actors of this instance
  Attributed, \* Attributed[a]: the attributedTo of the note that a carries
  Backfilled, \* <<actor, note, attributedTo>>: what the feeds of followed actors list
  Handlers,   \* requests being handled at the same time
  NoAct,
  NoActor,
  NoNote,
  MaxReceived,\* bound: activities that arrive in one behaviour
  MaxFaults   \* bound: handlers that fail half-way, and crashes

ASSUME ConstantAssumption ==
  /\ Kind \in [Acts -> {"Create", "Update", "Delete", "Log"}]
  /\ Sender \in [Acts -> Actors]
  /\ Object \in [Acts -> Notes]
  /\ Locals \subseteq Actors
  /\ Attributed \in [Acts -> Actors]
  /\ Backfilled \subseteq (Actors \ Locals) \X Notes \X Actors
  /\ NoAct \notin Acts
  /\ NoActor \notin Actors
  /\ NoNote \notin Backfilled
  /\ MaxReceived \in Nat /\ MaxFaults \in Nat

VARIABLES
  received,   \* activities: the rows inserted
  processed,  \* activities: the rows with processed_at set
  tombs,      \* tombstones
  clip,       \* clips: "none", "live" or "deleted", by ap_id (UNIQUE)
  owner,      \* clips: actor_id
  text,       \* clips: the activity the caption comes from
  pc, act,    \* local state of the handlers
  late,       \* history: the note was tombstoned when the handler began
  fetched,    \* local state of the backfill: the note it has downloaded
  faults

tables == <<received, processed, tombs, clip, owner, text>>
vars == <<tables, pc, act, late, fetched, faults>>

\* begun: the row is inserted; resolving: tombstone check passed, the actor is
\* being dereferenced; owned / unknown: Delete found its sender's clip, or none;
\* marking: Delete wrote the tombstone of a known clip; editing: Update found
\* a live clip of its sender; finishing: only processed_at is missing.
Phases == {"idle", "begun", "resolving", "owned", "unknown", "marking", "editing", "finishing"}

Init ==
  /\ received = {} /\ processed = {} /\ tombs = {}
  /\ clip = [n \in Notes |-> "none"]
  /\ owner = [n \in Notes |-> NoActor]
  /\ text = [n \in Notes |-> NoAct]
  /\ pc = [h \in Handlers |-> "idle"]
  /\ act = [h \in Handlers |-> NoAct]
  /\ late = [h \in Handlers |-> FALSE]
  /\ fetched = NoNote
  /\ faults = 0

Note(h) == Object[act[h]]

\* The actor of the clip's row signed the activity (Update, Delete).
ByOwner(h) == Sender[act[h]] = owner[Note(h)]

\* The attributedTo of the note it carries is the remote actor that signed it
\* (Create); whether the note's id is one of that actor's is not looked at.
ByAttributed(h) == Attributed[act[h]] = Sender[act[h]] /\ Attributed[act[h]] \notin Locals

At(h, p, k) == pc[h] = p /\ Kind[act[h]] = k
Goes(h, p) == pc' = [pc EXCEPT ![h] = p] /\ UNCHANGED <<act, late, fetched, faults>>

Leaves(h) ==
  /\ pc' = [pc EXCEPT ![h] = "idle"]
  /\ act' = [act EXCEPT ![h] = NoAct]
  /\ late' = [late EXCEPT ![h] = FALSE]

-----------------------------------------------------------------------------

\* Mutant: the gate asks for processed activities, not for received ones.
FirstDeliveryUnprocessed(a) == a \notin processed

\* INSERT ... ON CONFLICT (activity_id) DO NOTHING inserts the row.
FirstDelivery(a) == a \notin received

\* A delivery reaches a handler.  A duplicate is answered and has no effect.
InboundBegin(h, a) ==
  /\ pc[h] = "idle"
  /\ FirstDelivery(a)
  /\ Cardinality(received) < MaxReceived
  /\ received' = received \cup {a}
  /\ pc' = [pc EXCEPT ![h] = "begun"]
  /\ act' = [act EXCEPT ![h] = a]
  /\ late' = [late EXCEPT ![h] = Object[a] \in tombs]
  /\ UNCHANGED <<processed, tombs, clip, owner, text, fetched, faults>>

\* Mutant: the check looks at the clip only.
SwallowsDeleted(n) == clip[n] = "deleted"

\* tombstoned().
Tombstoned(n) == n \in tombs

\* Create: tombstone check; then the note is parsed and its attributedTo
\* compared with the sender, with no effect on the tables.
CreateCheck(h) ==
  /\ At(h, "begun", "Create")
  /\ Goes(h, IF Tombstoned(Note(h)) \/ ~ByAttributed(h) THEN "finishing" ELSE "resolving")
  /\ UNCHANGED tables

\* The note is not a clip, or its actor cannot be fetched.
CreateGivesUp(h) ==
  /\ At(h, "resolving", "Create")
  /\ Goes(h, "finishing")
  /\ UNCHANGED tables

\* Mutant: the INSERT became an upsert.
PutClipUpsert(n, o, a) ==
  /\ clip' = [clip EXCEPT ![n] = "live"]
  /\ owner' = [owner EXCEPT ![n] = o]
  /\ text' = [text EXCEPT ![n] = a]

\* ClipRow::create_remote: UNIQUE(ap_id) refuses a second row, deleted or not,
\* of the same actor or of another.
PutClip(n, o, a) ==
  IF clip[n] = "none"
  THEN /\ clip' = [clip EXCEPT ![n] = "live"]
       /\ owner' = [owner EXCEPT ![n] = o]
       /\ text' = [text EXCEPT ![n] = a]
  ELSE UNCHANGED <<clip, owner, text>>

CreateInsert(h) ==
  /\ At(h, "resolving", "Create")
  /\ PutClip(Note(h), Sender[act[h]], act[h])
  /\ Goes(h, "finishing")
  /\ UNCHANGED <<received, processed, tombs>>

\* Mutant: the sender of a Delete is not compared with the owner.
DeleteTargetAnyone(h) ==
  IF clip[Note(h)] = "none" THEN "unknown" ELSE "owned"

\* Where Delete goes after it looked the clip up, deleted rows included.
DeleteTarget(h) ==
  IF clip[Note(h)] = "none" THEN "unknown" ELSE IF ByOwner(h) THEN "owned" ELSE "finishing"

DeleteLookup(h) ==
  /\ At(h, "begun", "Delete")
  /\ Goes(h, DeleteTarget(h))
  /\ UNCHANGED tables

\* TombstoneRow::upsert, then ClipRow::mark_deleted for a known clip; an
\* unknown object is taken for an actor and has no row to mark.
DeleteTombstone(h) ==
  /\ pc[h] \in {"owned", "unknown"}
  /\ tombs' = tombs \cup {Note(h)}
  /\ Goes(h, IF pc[h] = "owned" THEN "marking" ELSE "finishing")
  /\ UNCHANGED <<received, processed, clip, owner, text>>

\* Mutant: the row is given a status the schema does not have.
DeleteMarkGone(h) ==
  /\ pc[h] = "marking"
  /\ clip' = [clip EXCEPT ![Note(h)] = "gone"]
  /\ Goes(h, "finishing")
  /\ UNCHANGED <<received, processed, tombs, owner, text>>

DeleteMark(h) ==
  /\ pc[h] = "marking"
  /\ clip' = [clip EXCEPT ![Note(h)] = "deleted"]
  /\ Goes(h, "finishing")
  /\ UNCHANGED <<received, processed, tombs, owner, text>>

\* Update: a live clip of the sender, or nothing.
UpdateLookup(h) ==
  /\ At(h, "begun", "Update")
  /\ Goes(h, IF clip[Note(h)] = "live" /\ ByOwner(h) THEN "editing" ELSE "finishing")
  /\ UNCHANGED tables

\* ClipRow::update_note_fields: by id alone.
UpdateWrite(h) ==
  /\ pc[h] = "editing"
  /\ text' = [text EXCEPT ![Note(h)] = act[h]]
  /\ Goes(h, "finishing")
  /\ UNCHANGED <<received, processed, tombs, clip, owner>>

\* Move, Undo of something else than a Follow, unknown types: stored only.
LogOnly(h) ==
  /\ At(h, "begun", "Log")
  /\ Goes(h, "finishing")
  /\ UNCHANGED tables

\* Mutant: the handler answers without stamping processed_at.
InboundFinishUnstamped(h) ==
  /\ pc[h] = "finishing"
  /\ Leaves(h)
  /\ UNCHANGED <<tables, fetched, faults>>

\* inbound_finish, and the 202.
InboundFinish(h) ==
  /\ pc[h] = "finishing"
  /\ processed' = processed \cup {act[h]}
  /\ Leaves(h)
  /\ UNCHANGED <<received, tombs, clip, owner, text, fetched, faults>>

\* fetch_and_ingest_one: download a note that the feed of a followed actor
\* lists.  There is no tombstone check before the INSERT, but the attributedTo
\* is compared with the actor.
BackfillFetch(b) ==
  /\ fetched = NoNote
  /\ fetched' = b
  /\ UNCHANGED <<tables, pc, act, late, faults>>

BackfillIngest ==
  /\ fetched # NoNote
  /\ IF fetched[3] = fetched[1] THEN PutClip(fetched[2], fetched[1], NoAct)
                                ELSE UNCHANGED <<clip, owner, text>>
  /\ fetched' = NoNote
  /\ UNCHANGED <<received, processed, tombs, pc, act, late, faults>>

\* A statement of the handler fails: the request is answered with an error.
HandlerFails(h) ==
  /\ pc[h] # "idle"
  /\ faults < MaxFaults
  /\ faults' = faults + 1
  /\ Leaves(h)
  /\ UNCHANGED <<tables, fetched>>

\* The server stops and starts again.
Crash ==
  /\ faults < MaxFaults
  /\ faults' = faults + 1
  /\ pc' = [h \in Handlers |-> "idle"]
  /\ act' = [h \in Handlers |-> NoAct]
  /\ late' = [h \in Handlers |-> FALSE]
  /\ fetched' = NoNote
  /\ UNCHANGED tables

\* What a handler does once its activity has passed the gate.
HandlerStep(h) ==
  \/ CreateCheck(h) \/ CreateGivesUp(h) \/ CreateInsert(h)
  \/ DeleteLookup(h) \/ DeleteTombstone(h) \/ DeleteMark(h)
  \/ UpdateLookup(h) \/ UpdateWrite(h)
  \/ LogOnly(h)
  \/ InboundFinish(h)

Next ==
  \/ \E h \in Handlers, a \in Acts : InboundBegin(h, a)
  \/ \E h \in Handlers : HandlerStep(h) \/ HandlerFails(h)
  \/ \E b \in Backfilled : BackfillFetch(b)
  \/ BackfillIngest
  \/ Crash

Spec == Init /\ [][Next]_vars

\* A handler that began goes on: its statements and its fetch are bounded.
FairSpec == Spec /\ \A h \in Handlers : WF_vars(HandlerStep(h))

-----------------------------------------------------------------------------
(* Properties.                                                             *)

\* TYPES: the rows and the local state of the handlers stay well-formed.
TypeOK ==
  /\ received \subseteq Acts /\ processed \subseteq Acts
  /\ tombs \subseteq Notes
  /\ clip \in [Notes -> {"none", "live", "deleted"}]
  /\ owner \in [Notes -> Actors \cup {NoActor}]
  /\ text \in [Notes -> Acts \cup {NoAct}]
  /\ pc \in [Handlers -> Phases]
  /\ act \in [Handlers -> Acts \cup {NoAct}]
  /\ late \in [Handlers -> BOOLEAN]
  /\ fetched \in Backfilled \cup {NoNote}
  /\ faults \in Nat

\* IDEMPOTENCY GATE (inbound_begin): however often and however concurrently
\* an activity is delivered, one handler at a time has it, and none once it
\* is processed.
AtMostOnce ==
  \A h \in Handlers : pc[h] # "idle" =>
    /\ act[h] \notin processed
    /\ \A g \in Handlers : pc[g] # "idle" /\ act[g] = act[h] => g = h

\* DELETE BEFORE CREATE (tombstoned): a Create that arrives when its note has
\* a tombstone never gets as far as the INSERT.
LateCreateSwallowed == \A h \in Handlers : late[h] => pc[h] # "resolving"

\* o claimed the note: by a Create that it signed and that is attributed to it,
\* or by a note attributed to it that its own feed lists.
Claimed(n, o) ==
  \/ <<o, n, o>> \in Backfilled
  \/ o \notin Locals /\ \E a \in received :
       Kind[a] = "Create" /\ Object[a] = n /\ Sender[a] = o /\ Attributed[a] = o

\* OWNERSHIP: whatever is delivered about one note, by whom and in which order,
\* a clip belongs to one remote actor that claimed it; its words are that
\* actor's, and it is deleted only because that actor sent a Delete, also
\* when another actor's Create, Update or Delete runs between the check of the
\* owner and the write.
OnlyOwnerSpeaks ==
  \A n \in Notes : clip[n] # "none" =>
    /\ Claimed(n, owner[n])
    /\ text[n] # NoAct => text[n] \in received /\ Object[text[n]] = n /\ Sender[text[n]] = owner[n]
    /\ clip[n] = "deleted" =>
         \E a \in received : Kind[a] = "Delete" /\ Object[a] = n /\ Sender[a] = owner[n]

\* DELETES ARE FINAL: no Create under another activity id, backfill or Update
\* brings a deleted clip back.
DeletedStaysDeleted ==
  [][\A n \in Notes : clip[n] = "deleted" => clip'[n] = "deleted"]_vars

\* PROGRESS: every activity that passed the gate is processed, unless some
\* handler fails or the server restarts.
ProcessedUnlessFault ==
  \A a \in Acts : a \in received ~> a \in processed \/ faults > 0

\* Doc comment of the tombstones table (db/src/tombstone.rs:7): "the delete-wins gate for
\* federated objects".  Once nothing is under way, a tombstoned note has no live clip.
TombstoneWins ==
  (\A h \in Handlers : pc[h] = "idle") /\ fetched = NoNote =>
    \A n \in tombs : clip[n] # "live"

=============================================================================
