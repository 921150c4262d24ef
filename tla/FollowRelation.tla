--------------------------- MODULE FollowRelation ---------------------------
(***************************************************************************)
(* What the follow protocol promises, without requests, deliveries or the  *)
(* log of activities.  A pair of actors is related because of one follow   *)
(* that the follower asked for.  The relation is accepted or rejected by   *)
(* an answer to that follow, and ends because that follow was ended.       *)
(*                                                                         *)
(* Two steps go beyond that promise, and they are the only ones: an answer *)
(* to, or the end of, one follow of a pair may hit another follow of the   *)
(* same pair that took its place meanwhile.  They leave the follow they    *)
(* hit in mistaken or raced.  Who sends an answer or an end is not part of *)
(* the promise: nobody compares the sender with the actors of the pair.    *)
(***************************************************************************)
CONSTANTS
  Pairs,      \* <<follower, target>>
  Ids,        \* the follows
  NoId, NoPair,
  Automatic,  \* the pairs whose target accepts whoever asks
  Direct      \* the pairs on one instance: asking is being accepted

VARIABLES
  rel,      \* rel[p]: "none", "requested", "accepted" or "rejected"
  standing, \* standing[p]: the follow by which p is related
  asked,    \* asked[f]: the pair whose follower asked for f
  answers,  \* <<f, decision>>: the answers that named f
  ended,    \* the follows that somebody asked to end
  mistaken, \* the follows settled by an answer to another one
  raced     \* the follows dropped by the end of another one

vars == <<rel, standing, asked, answers, ended, mistaken, raced>>

Decisions == {"accepted", "rejected"}

Init ==
  /\ rel = [p \in Pairs |-> "none"]
  /\ standing = [p \in Pairs |-> NoId]
  /\ asked = [f \in Ids |-> NoPair]
  /\ answers = {} /\ ended = {} /\ mistaken = {} /\ raced = {}

Writes(p, f, s) ==
  /\ rel' = [rel EXCEPT ![p] = s]
  /\ standing' = [standing EXCEPT ![p] = f]
  /\ UNCHANGED <<answers, ended>>

Asks(p, f) == asked[f] = NoPair /\ asked' = [asked EXCEPT ![f] = p]

\* The follower asks; the relation may be recorded at once or later.
Ask(p, f) ==
  /\ Asks(p, f)
  /\ UNCHANGED <<rel, standing, answers, ended, mistaken, raced>>

AskDirectly(p, f) ==
  /\ p \in Direct
  /\ Asks(p, f) /\ Writes(p, f, "accepted")
  /\ UNCHANGED <<mistaken, raced>>

AskAndRecord(p, f) ==
  /\ Asks(p, f) /\ Writes(p, f, "requested")
  /\ UNCHANGED <<mistaken, raced>>

Record(p, f) ==
  /\ asked[f] = p
  /\ Writes(p, f, "requested")
  /\ UNCHANGED <<asked, mistaken, raced>>

\* Somebody answers a follow, or ends it.
Answer(f, d) ==
  /\ asked[f] # NoPair
  /\ answers' = answers \cup {<<f, d>>}
  /\ UNCHANGED <<rel, standing, asked, ended, mistaken, raced>>

End(f) ==
  /\ asked[f] # NoPair
  /\ ended' = ended \cup {f}
  /\ UNCHANGED <<rel, standing, asked, answers, mistaken, raced>>

\* An answer takes effect on a pair that is related.
Settle(p, d) ==
  /\ rel[p] # "none"
  /\ <<standing[p], d>> \in answers \/ (p \in Automatic /\ d = "accepted")
  /\ Writes(p, standing[p], d)
  /\ UNCHANGED <<asked, mistaken, raced>>

SettleAnother(p, f, d) ==
  /\ rel[p] # "none" /\ asked[f] = p /\ f # standing[p]
  /\ <<f, d>> \in answers
  /\ Writes(p, standing[p], d)
  /\ mistaken' = mistaken \cup {standing[p]}
  /\ UNCHANGED <<asked, raced>>

Drop(p) ==
  /\ rel[p] # "none" /\ standing[p] \in ended
  /\ Writes(p, NoId, "none")
  /\ UNCHANGED <<asked, mistaken, raced>>

DropAnother(p, f) ==
  /\ rel[p] # "none" /\ asked[f] = p /\ f # standing[p]
  /\ f \in ended
  /\ Writes(p, NoId, "none")
  /\ raced' = raced \cup {standing[p]}
  /\ UNCHANGED <<asked, mistaken>>

Next ==
  \/ \E p \in Pairs, f \in Ids :
       \/ Ask(p, f) \/ AskDirectly(p, f) \/ AskAndRecord(p, f) \/ Record(p, f) \/ DropAnother(p, f)
       \/ \E d \in Decisions : SettleAnother(p, f, d)
  \/ \E p \in Pairs : Drop(p) \/ \E d \in Decisions : Settle(p, d)
  \/ \E f \in Ids : End(f) \/ \E d \in Decisions : Answer(f, d)

Spec == Init /\ [][Next]_vars

=============================================================================
