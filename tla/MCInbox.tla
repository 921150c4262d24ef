------------------------------ MODULE MCInbox ------------------------------
(* Instances of Inbox for TLC: one note id, and what alice, bob and carol,  *)
(* who is local, may say about it, at the same time and in any order.       *)
EXTENDS Inbox

CONSTANTS n1, alice, bob, carol

EachKind == {"create1", "update1", "delete1", "bobcreate1", "bobupdate1", "bobdelete1",
             "misattributed1", "echo1", "move"}
DeleteRace == {"create1", "delete1"}

KindOf == [a \in Acts |->
  CASE a \in {"create1", "bobcreate1", "misattributed1", "echo1"} -> "Create"
    [] a \in {"update1", "bobupdate1"} -> "Update"
    [] a \in {"delete1", "bobdelete1"} -> "Delete"
    [] OTHER -> "Log"]
SenderOf == [a \in Acts |->
  CASE a \in {"bobcreate1", "bobupdate1", "bobdelete1", "misattributed1"} -> bob
    [] a = "echo1" -> carol
    [] OTHER -> alice]
AttributedTo == [a \in Acts |-> IF a = "misattributed1" THEN alice ELSE SenderOf[a]]
ObjectOf == [a \in Acts |-> n1]

\* Bob's feed lists the note as his own.
Feeds == {<<bob, n1, bob>>}
NoFeeds == {}

=============================================================================
