-------------------------- MODULE EngagementProofs --------------------------
(***************************************************************************)
(* The counters and the notifications of Engagement, for any actors,       *)
(* comments, concurrent requests and faults.                               *)
(***************************************************************************)
EXTENDS Engagement, FiniteSetTheorems, TLAPS

\* The handlers that write a row and those that take one away.
Adders == {"like", "announce", "comment"}
Removers == {"unlike", "unannounce", "uncomment"}

\* What a request holds fits its handler and the statement it stands at.
Holds(h) ==
  pc[h] # "idle" =>
    /\ who[h] \in Actors
    /\ KindOf(op[h]) \in {"like", "boost"} => item[h] = who[h]
    /\ KindOf(op[h]) = "comment" => item[h] \in Comments
    /\ op[h] = "comment" => writer[item[h]] = who[h]
    /\ pc[h] \in {"counting", "notifying"} => op[h] \in Adders
    /\ pc[h] \in {"removing", "discounting"} => op[h] \in Removers
    /\ pc[h] = "notifying" => who[h] # Author

RequestsHold == \A h \in Requests : Holds(h)

TypeInv == TypeOK /\ RequestsHold

\* A statement of a handler of kind k.
Runs(h, k, ph) == pc[h] = ph /\ KindOf(op[h]) = k

NextCases ==
  \/ ClipGoes
  \/ \E a \in Actors : UnbookmarkClip(a)
  \/ \E S \in SUBSET unread : MarkRead(S)
  \/ \E h \in Requests : RequestFails(h)
  \/ \E h \in Requests : BookmarkClip(h)
  \/ \E h \in Requests, a \in Actors : FetchLiveClip(h, a)
  \/ \E h \in Requests, a \in Actors, c \in Comments : CommentReads(h, a, c)
  \/ \E h \in Requests, a \in Actors, c \in Comments : DeleteCommentReads(h, a, c)
  \/ \E h \in Requests, k \in Kinds :
       Runs(h, k, "adding") /\ op[h] \in Adders /\ InsertRow(h, k) /\ UNCHANGED writer
  \/ \E h \in Requests, k \in Kinds :
       Runs(h, k, "counting") /\ (k # "comment" => ~gone) /\ CountRow(h, k) /\ UNCHANGED writer
  \/ \E h \in Requests, k \in Kinds :
       Runs(h, k, "notifying") /\ op[h] \in Adders /\ NotifyAuthor(h, k) /\ UNCHANGED writer
  \/ \E h \in Requests, k \in Kinds :
       Runs(h, k, "removing") /\ op[h] \in Removers /\ RemoveRow(h, k) /\ UNCHANGED writer
  \/ \E h \in Requests, k \in Kinds :
       Runs(h, k, "discounting") /\ (k # "comment" => ~gone) /\ DiscountRow(h, k) /\ UNCHANGED writer
  \/ \E h \in Requests :
       pc[h] # "idle" /\ KindOf(op[h]) # "comment" /\ Refused(h) /\ UNCHANGED writer
  \/ UNCHANGED vars

\* The kind of every handler.
LEMMA KindFacts ==
  /\ KindOf("like") = "like" /\ KindOf("unlike") = "like"
  /\ KindOf("announce") = "boost" /\ KindOf("unannounce") = "boost"
  /\ KindOf("comment") = "comment" /\ KindOf("uncomment") = "comment"
  /\ KindOf("bookmark") = "bookmark"
  BY DEF KindOf

\* Next is the disjunction of its statements.
LEMMA SplitNext ==
  ASSUME [Next]_vars
  PROVE  NextCases
<1>1. ASSUME NEW h \in Requests, LikeClip(h), UNCHANGED writer PROVE NextCases
  BY <1>1, KindFacts DEF LikeClip, At, Runs, NextCases, Kinds, Adders
<1>2. ASSUME NEW h \in Requests, UnlikeClip(h), UNCHANGED writer PROVE NextCases
  BY <1>2, KindFacts DEF UnlikeClip, At, Runs, NextCases, Kinds, Removers
<1>3. ASSUME NEW h \in Requests, AnnounceClip(h), UNCHANGED writer PROVE NextCases
  BY <1>3, KindFacts DEF AnnounceClip, At, Runs, NextCases, Kinds, Adders
<1>4. ASSUME NEW h \in Requests, UnannounceClip(h), UNCHANGED writer PROVE NextCases
  BY <1>4, KindFacts DEF UnannounceClip, At, Runs, NextCases, Kinds, Removers
<1>5. ASSUME NEW h \in Requests, CreateComment(h), UNCHANGED writer PROVE NextCases
  BY <1>5, KindFacts DEF CreateComment, At, Runs, NextCases, Kinds, Adders
<1>6. ASSUME NEW h \in Requests, DeleteComment(h), UNCHANGED writer PROVE NextCases
  BY <1>6, KindFacts DEF DeleteComment, At, Runs, NextCases, Kinds, Removers
<1>7. QED
  BY <1>1, <1>2, <1>3, <1>4, <1>5, <1>6 DEF Next, NextCases

\* A request about a row holds its key.
LEMMA ItemHeld ==
  ASSUME TypeInv, NEW h \in Requests, NEW k \in Kinds, pc[h] # "idle", KindOf(op[h]) = k
  PROVE  item[h] \in Items /\ <<k, item[h]>> \in Kinds \X Items
  BY DEF TypeInv, RequestsHold, Holds, Kinds, Items

\* Every step keeps the types.
LEMMA TypeStep ==
  ASSUME TypeInv, [Next]_vars
  PROVE  TypeOK'
<1> USE ConstantAssumption DEF TypeInv, TypeOK, Phases, Frame, Goes
<1>1. CASE ClipGoes
  BY <1>1 DEF ClipGoes, tables, request, history
<1>2. CASE \E a \in Actors : UnbookmarkClip(a)
  BY <1>2 DEF UnbookmarkClip, request, history
<1>3. CASE \E S \in SUBSET unread : MarkRead(S)
  BY <1>3 DEF MarkRead, request, history
<1>4. CASE \E h \in Requests : RequestFails(h)
  BY <1>4 DEF RequestFails, tables, history
<1>5. CASE \E h \in Requests : BookmarkClip(h)
  BY <1>5 DEF BookmarkClip, At, RequestsHold, Holds, history
<1>6. ASSUME NEW h \in Requests, NEW o \in Ops, NEW a \in Actors, NEW i \in Items \cup {NoItem},
             NEW ph \in Phases, Begins(h, o, a, i, ph), writer' \in [Comments -> Actors \cup {NoOne}]
      PROVE  TypeOK'
  <2>1. KindOf(o) \in Kinds \cup {"bookmark"}
    BY KindFacts DEF Ops, Kinds
  <2>2. QED
    BY <1>6, <2>1 DEF Begins
<1>7. CASE \E h \in Requests, a \in Actors : FetchLiveClip(h, a)
  BY <1>6, <1>7 DEF FetchLiveClip, Ops, Items
<1>8. CASE \E h \in Requests, a \in Actors, c \in Comments : CommentReads(h, a, c)
  <2> PICK h \in Requests, a \in Actors, c \in Comments : CommentReads(h, a, c)
    BY <1>8
  <2>1. writer' \in [Comments -> Actors \cup {NoOne}]
    BY DEF CommentReads
  <2>2. c \in Items \cup {NoItem} /\ "comment" \in Ops /\ "adding" \in Phases
    BY DEF Items, Ops
  <2>3. QED
    BY <1>6, <2>1, <2>2 DEF CommentReads
<1>9. CASE \E h \in Requests, a \in Actors, c \in Comments : DeleteCommentReads(h, a, c)
  BY <1>6, <1>9 DEF DeleteCommentReads, Ops, Items
<1>10. CASE \E h \in Requests, k \in Kinds : Runs(h, k, "adding") /\ InsertRow(h, k) /\ UNCHANGED writer
  <2> PICK h \in Requests, k \in Kinds : Runs(h, k, "adding") /\ InsertRow(h, k) /\ UNCHANGED writer
    BY <1>10
  <2>1. item[h] \in Items /\ <<k, item[h]>> \in Kinds \X Items
    BY ItemHeld DEF Runs
  <2>2. QED
    BY <2>1 DEF InsertRow
<1>11. CASE \E h \in Requests, k \in Kinds : CountRow(h, k) /\ UNCHANGED writer
  BY <1>11 DEF CountRow
<1>12. CASE \E h \in Requests, k \in Kinds : Runs(h, k, "notifying") /\ NotifyAuthor(h, k) /\ UNCHANGED writer
  <2> PICK h \in Requests, k \in Kinds : Runs(h, k, "notifying") /\ NotifyAuthor(h, k) /\ UNCHANGED writer
    BY <1>12
  <2>1. <<k, item[h]>> \in Kinds \X Items
    BY ItemHeld DEF Runs
  <2>2. QED
    BY <2>1 DEF NotifyAuthor
<1>13. CASE \E h \in Requests, k \in Kinds : RemoveRow(h, k) /\ UNCHANGED writer
  BY <1>13 DEF RemoveRow
<1>14. CASE \E h \in Requests, k \in Kinds : DiscountRow(h, k) /\ UNCHANGED writer
  BY <1>14 DEF DiscountRow
<1>15. CASE \E h \in Requests : Refused(h) /\ UNCHANGED writer
  BY <1>15 DEF Refused
<1>16. CASE UNCHANGED vars
  BY <1>16 DEF vars, tables, request, history
<1>17. QED
  BY SplitNext, <1>1, <1>2, <1>3, <1>4, <1>5, <1>7, <1>8, <1>9, <1>10, <1>11, <1>12, <1>13, <1>14,
     <1>15, <1>16 DEF NextCases

\* Moving on within a handler keeps what requests hold.
LEMMA GoesHold ==
  ASSUME TypeInv, NEW h \in Requests, NEW ph, Goes(h, ph), UNCHANGED writer,
         \/ ph = "idle"
         \/ ph = "counting" /\ pc[h] = "adding" /\ op[h] \in Adders
         \/ ph = "notifying" /\ pc[h] = "counting" /\ who[h] # Author
         \/ ph = "discounting" /\ pc[h] = "removing"
  PROVE  RequestsHold'
<1> USE DEF TypeInv, TypeOK
<1>1. \A g \in Requests : g # h => Holds(g)'
  BY DEF Goes, RequestsHold, Holds
<1>2. Holds(h)'
  <2>1. pc'[h] = ph /\ UNCHANGED <<op, who, item>>
    BY DEF Goes
  <2>2. QED
    BY <2>1 DEF RequestsHold, Holds
<1>3. QED
  BY <1>1, <1>2 DEF RequestsHold

\* Every step keeps what requests hold in order.
LEMMA HoldsStep ==
  ASSUME TypeInv, [Next]_vars
  PROVE  RequestsHold'
<1> USE ConstantAssumption, KindFacts DEF TypeInv, TypeOK
<1>1. CASE UNCHANGED <<op, pc, who, item, writer>>
  BY <1>1 DEF RequestsHold, Holds
<1>2. CASE \E h \in Requests : Goes(h, "idle") /\ UNCHANGED writer
  BY <1>2, GoesHold
<1>3. CASE \E h \in Requests, k \in Kinds :
             Runs(h, k, "adding") /\ op[h] \in Adders /\ InsertRow(h, k) /\ UNCHANGED writer
  BY <1>3, GoesHold DEF InsertRow, Runs
<1>4. CASE \E h \in Requests, k \in Kinds : Runs(h, k, "counting") /\ CountRow(h, k) /\ UNCHANGED writer
  BY <1>4, GoesHold DEF CountRow, Runs
<1>5. CASE \E h \in Requests, k \in Kinds : Runs(h, k, "removing") /\ RemoveRow(h, k) /\ UNCHANGED writer
  BY <1>5, GoesHold DEF RemoveRow, Runs
<1>6. ASSUME NEW h \in Requests, NEW o, NEW a \in Actors, NEW i, NEW ph, Begins(h, o, a, i, ph),
             \A c \in Comments : writer[c] # NoOne => writer'[c] = writer[c],
             KindOf(o) \in {"like", "boost"} => i = a,
             KindOf(o) = "comment" => i \in Comments,
             o = "comment" => writer'[i] = a,
             ph = "adding" \/ (ph = "removing" /\ o \in Removers)
      PROVE  RequestsHold'
  <2>1. \A g \in Requests : g # h => Holds(g)'
    <3> TAKE g \in Requests
    <3> HAVE g # h
    <3>1. pc'[g] = pc[g] /\ op'[g] = op[g] /\ who'[g] = who[g] /\ item'[g] = item[g]
      BY <1>6 DEF Begins
    <3>2. pc[g] # "idle" /\ op[g] = "comment" => writer'[item[g]] = who[g]
      BY <1>6 DEF RequestsHold, Holds
    <3>3. QED
      BY <3>1, <3>2 DEF RequestsHold, Holds
  <2>2. pc'[h] = ph /\ op'[h] = o /\ who'[h] = a /\ item'[h] = i
    BY <1>6 DEF Begins
  <2>3. Holds(h)'
    BY <1>6, <2>2 DEF Holds
  <2>4. QED
    BY <2>1, <2>3 DEF RequestsHold
<1>7. CASE \E h \in Requests, a \in Actors : FetchLiveClip(h, a)
  BY <1>6, <1>7 DEF FetchLiveClip, Removers
<1>8. CASE \E h \in Requests, a \in Actors, c \in Comments : CommentReads(h, a, c)
  <2> PICK h \in Requests, a \in Actors, c \in Comments : CommentReads(h, a, c)
    BY <1>8
  <2>1. writer'[c] = a /\ \A d \in Comments : writer[d] # NoOne => writer'[d] = writer[d]
    BY DEF CommentReads
  <2>2. QED
    BY <1>6, <2>1 DEF CommentReads
<1>9. CASE \E h \in Requests, a \in Actors, c \in Comments : DeleteCommentReads(h, a, c)
  BY <1>6, <1>9 DEF DeleteCommentReads, Removers
<1>10. QED
  BY SplitNext, <1>1, <1>2, <1>3, <1>4, <1>5, <1>7, <1>8, <1>9
  DEF NextCases, ClipGoes, UnbookmarkClip, MarkRead, RequestFails, BookmarkClip, NotifyAuthor,
      DiscountRow, Refused, tables, request, vars

\* The empty tables satisfy the invariant.
LEMMA TypeInit ==
  ASSUME Init
  PROVE  TypeInv
<1>1. TypeOK
  <2>1. /\ gone \in BOOLEAN /\ rows \in [Kinds -> SUBSET Items] /\ count \in [Kinds -> Nat]
        /\ writer \in [Comments -> Actors \cup {NoOne}] /\ marks \subseteq Actors
    BY DEF Init
  <2>2. notes \in [Kinds \X Items -> Nat] /\ unread \subseteq Kinds \X Items
    BY DEF Init
  <2>3. /\ op \in [Requests -> Ops] /\ pc \in [Requests -> Phases]
        /\ who \in [Requests -> Actors \cup {NoOne}] /\ item \in [Requests -> Items \cup {NoItem}]
    BY DEF Init, Ops, Phases
  <2>4. made \in [Kinds \X Items -> Nat] /\ floored \in [Kinds -> Nat]
    BY DEF Init
  <2>5. overlapped \subseteq Kinds \cup {"bookmark"} /\ started \in 0..MaxRequests /\ faults \in 0..MaxFaults
    BY ConstantAssumption DEF Init
  <2>6. QED
    BY <2>1, <2>2, <2>3, <2>4, <2>5 DEF TypeOK
<1>2. RequestsHold
  BY DEF Init, RequestsHold, Holds
<1>3. QED
  BY <1>1, <1>2 DEF TypeInv

\* The invariant holds throughout.
LEMMA TypeAlways == Spec => []TypeInv
<1>1. Init => TypeInv
  BY TypeInit
<1>2. TypeInv /\ [Next]_vars => TypeInv'
  BY TypeStep, HoldsStep DEF TypeInv
<1>3. QED
  BY <1>1, <1>2, PTL DEF Spec

\* TYPES (the handlers of social.rs, GREATEST(count - 1, 0)): rows and requests
\* keep their types and no counter goes below 0, in every run.
THEOREM TypeCorrect == Spec => []TypeOK
<1>1. TypeInv => TypeOK
  BY DEF TypeInv
<1>2. QED
  BY <1>1, TypeAlways, PTL

-----------------------------------------------------------------------------
(* Notifications.                                                          *)

\* The requests that wrote row i of kind k and may yet notify the author of it.
Owing(k, i) ==
  {h \in Requests : pc[h] \in {"counting", "notifying"} /\ KindOf(op[h]) = k /\ item[h] = i}

Owed ==
  \A k \in Kinds, i \in Items : notes[<<k, i>>] + Cardinality(Owing(k, i)) <= made[<<k, i>>]

\* No row was made of a comment id that nobody has drawn.
Undrawn == \A k \in Kinds, c \in Comments : writer[c] = NoOne => made[<<k, c>>] = 0

Own(i) == i = Author \/ (i \in Comments /\ writer[i] = Author)
OwnUnnoted == \A k \in Kinds, i \in Items : Own(i) => notes[<<k, i>>] = 0

NoteInv == TypeInv /\ Owed /\ Undrawn /\ OwnUnnoted

\* Sets of requests are finite.
LEMMA OwingFinite ==
  ASSUME NEW k, NEW i
  PROVE  IsFiniteSet(Owing(k, i)) /\ Cardinality(Owing(k, i)) \in Nat
<1>1. IsFiniteSet(Owing(k, i))
  BY ConstantAssumption, FS_Subset DEF Owing
<1>2. QED
  BY <1>1, FS_CardinalityType

\* A step that adds nobody to the set keeps the bound.
LEMMA OwedKept ==
  ASSUME NoteInv, NEW k \in Kinds, NEW i \in Items, Owing(k, i)' \subseteq Owing(k, i),
         notes'[<<k, i>>] = notes[<<k, i>>], made'[<<k, i>>] \in Nat, made[<<k, i>>] <= made'[<<k, i>>]
  PROVE  notes'[<<k, i>>] + Cardinality(Owing(k, i)') <= made'[<<k, i>>]
<1>1. IsFiniteSet(Owing(k, i)) /\ Cardinality(Owing(k, i)) \in Nat
  BY OwingFinite
<1>2. Cardinality(Owing(k, i)') <= Cardinality(Owing(k, i)) /\ Cardinality(Owing(k, i)') \in Nat
  BY <1>1, FS_Subset, FS_CardinalityType
<1>3. /\ notes[<<k, i>>] \in Nat /\ made[<<k, i>>] \in Nat
      /\ notes[<<k, i>>] + Cardinality(Owing(k, i)) <= made[<<k, i>>]
  BY DEF NoteInv, TypeInv, TypeOK, Owed
<1>4. QED
  BY <1>1, <1>2, <1>3

\* Every step keeps the bound.
LEMMA OwedStep ==
  ASSUME NoteInv, [Next]_vars
  PROVE  Owed'
<1> SUFFICES ASSUME NEW k \in Kinds, NEW i \in Items
             PROVE  notes'[<<k, i>>] + Cardinality(Owing(k, i)') <= made'[<<k, i>>]
  BY DEF Owed
<1> USE DEF NoteInv, TypeInv, TypeOK
<1>0. /\ <<k, i>> \in Kinds \X Items
      /\ notes[<<k, i>>] \in Nat /\ made[<<k, i>>] \in Nat
      /\ IsFiniteSet(Owing(k, i)) /\ Cardinality(Owing(k, i)) \in Nat
      /\ notes[<<k, i>>] + Cardinality(Owing(k, i)) <= made[<<k, i>>]
  BY OwingFinite DEF Owed
<1>1. ASSUME UNCHANGED <<notes, made>>, Owing(k, i)' \subseteq Owing(k, i)
      PROVE  notes'[<<k, i>>] + Cardinality(Owing(k, i)') <= made'[<<k, i>>]
  BY <1>0, <1>1, OwedKept
<1>2. CASE \E h \in Requests, q \in Kinds : Runs(h, q, "adding") /\ InsertRow(h, q) /\ UNCHANGED writer
  <2> PICK h \in Requests, q \in Kinds : Runs(h, q, "adding") /\ InsertRow(h, q) /\ UNCHANGED writer
    BY <1>2
  <2>1. notes' = notes /\ UNCHANGED <<op, item>> /\ h \notin Owing(k, i) /\ item[h] \in Items
    BY ItemHeld DEF InsertRow, Goes, Runs, Owing
  <2>2. CASE item[h] \in rows[q]
    <3>1. made' = made /\ pc' = [pc EXCEPT ![h] = "idle"]
      BY <2>2 DEF InsertRow, Goes
    <3>2. QED
      BY <1>1, <2>1, <3>1 DEF Owing
  <2>3. CASE item[h] \notin rows[q]
    <3>1. made' = [made EXCEPT ![<<q, item[h]>>] = @ + 1] /\ pc' = [pc EXCEPT ![h] = "counting"]
      BY <2>3 DEF InsertRow, Goes
    <3>2. CASE q = k /\ item[h] = i
      <4>1. Owing(k, i)' = Owing(k, i) \cup {h}
        BY <2>1, <3>1, <3>2 DEF Owing, Runs
      <4>2. Cardinality(Owing(k, i)') = Cardinality(Owing(k, i)) + 1
        BY ZenonT(60), <1>0, <2>1, <4>1, FS_AddElement
      <4>3. made'[<<k, i>>] = made[<<k, i>>] + 1
        BY <1>0, <3>1, <3>2
      <4>4. QED
        BY <1>0, <2>1, <4>2, <4>3
    <3>3. CASE ~(q = k /\ item[h] = i)
      <4>1. Owing(k, i)' = Owing(k, i)
        BY <2>1, <3>1, <3>3 DEF Owing, Runs
      <4>2. made'[<<k, i>>] = made[<<k, i>>]
        BY <1>0, <3>1, <3>3
      <4>3. QED
        BY <1>0, <2>1, <4>1, <4>2
    <3>4. QED
      BY <3>2, <3>3
  <2>4. QED
    BY <2>2, <2>3
<1>3. CASE \E h \in Requests, q \in Kinds : Runs(h, q, "notifying") /\ NotifyAuthor(h, q) /\ UNCHANGED writer
  <2> PICK h \in Requests, q \in Kinds : Runs(h, q, "notifying") /\ NotifyAuthor(h, q) /\ UNCHANGED writer
    BY <1>3
  <2>1. /\ made' = made /\ UNCHANGED <<op, item>> /\ pc' = [pc EXCEPT ![h] = "idle"]
        /\ notes' = [notes EXCEPT ![<<q, item[h]>>] = @ + 1]
    BY DEF NotifyAuthor, Goes
  <2>2. Owing(k, i)' = Owing(k, i) \ {h}
    BY <2>1 DEF Owing
  <2>3. CASE q = k /\ item[h] = i
    <3>1. h \in Owing(k, i)
      BY <2>3 DEF Owing, Runs
    <3>2. Cardinality(Owing(k, i)') = Cardinality(Owing(k, i)) - 1
      BY ZenonT(60), <1>0, <2>2, <3>1, FS_RemoveElement
    <3>3. notes'[<<k, i>>] = notes[<<k, i>>] + 1
      BY <1>0, <2>1, <2>3
    <3>4. QED
      BY <1>0, <2>1, <3>2, <3>3
  <2>4. CASE ~(q = k /\ item[h] = i)
    <3>1. notes'[<<k, i>>] = notes[<<k, i>>]
      BY <1>0, <2>1, <2>4
    <3>2. Owing(k, i)' \subseteq Owing(k, i)
      BY <2>2
    <3>3. made'[<<k, i>>] \in Nat /\ made[<<k, i>>] <= made'[<<k, i>>]
      BY <1>0, <2>1
    <3>4. QED
      BY <3>1, <3>2, <3>3, OwedKept
  <2>5. QED
    BY <2>3, <2>4
<1>4. ASSUME NEW h \in Requests, NEW o, NEW a, NEW j, NEW ph, Begins(h, o, a, j, ph),
             ph \in {"adding", "removing"}
      PROVE  UNCHANGED <<notes, made>> /\ Owing(k, i)' \subseteq Owing(k, i)
  BY <1>4 DEF Begins, Owing
<1>5. CASE \E h \in Requests, a \in Actors : FetchLiveClip(h, a)
  BY <1>1, <1>4, <1>5 DEF FetchLiveClip
<1>6. CASE \E h \in Requests, a \in Actors, c \in Comments : CommentReads(h, a, c) \/ DeleteCommentReads(h, a, c)
  BY <1>1, <1>4, <1>6 DEF CommentReads, DeleteCommentReads
<1>7. CASE \E h \in Requests, q \in Kinds : Runs(h, q, "counting") /\ CountRow(h, q)
  <2>1. Owing(k, i)' \subseteq Owing(k, i)
    BY <1>7 DEF CountRow, Goes, Runs, Owing
  <2>2. QED
    BY <1>1, <1>7, <2>1 DEF CountRow
<1>8. CASE \E h \in Requests, q \in Kinds : Runs(h, q, "removing") /\ RemoveRow(h, q)
  <2>1. Owing(k, i)' \subseteq Owing(k, i)
    BY <1>8 DEF RemoveRow, Goes, Runs, Owing
  <2>2. QED
    BY <1>1, <1>8, <2>1 DEF RemoveRow
<1>9. CASE UNCHANGED <<notes, made>> /\ \E h \in Requests : Goes(h, "idle")
  <2>1. Owing(k, i)' \subseteq Owing(k, i)
    BY <1>9 DEF Goes, Owing
  <2>2. QED
    BY <1>1, <1>9, <2>1
<1>10. CASE UNCHANGED <<notes, made, op, pc, item>>
  <2>1. Owing(k, i)' \subseteq Owing(k, i)
    BY <1>10 DEF Owing
  <2>2. QED
    BY <1>1, <1>10, <2>1
<1>11. QED
  BY SplitNext, <1>2, <1>3, <1>5, <1>6, <1>7, <1>8, <1>9, <1>10
  DEF NextCases, ClipGoes, UnbookmarkClip, MarkRead, RequestFails, BookmarkClip, DiscountRow, Refused,
      tables, request, history, vars

\* Every step keeps undrawn comments unmade and the author's rows unnoted.
LEMMA OwnStep ==
  ASSUME NoteInv, [Next]_vars
  PROVE  Undrawn' /\ OwnUnnoted'
<1> USE ConstantAssumption DEF NoteInv, TypeInv, TypeOK
<1>0. \A k \in Kinds, i \in Items : <<k, i>> \in Kinds \X Items
  OBVIOUS
<1>1. CASE \E h \in Requests, q \in Kinds :
             Runs(h, q, "adding") /\ op[h] \in Adders /\ InsertRow(h, q) /\ UNCHANGED writer
  <2> PICK h \in Requests, q \in Kinds :
             Runs(h, q, "adding") /\ op[h] \in Adders /\ InsertRow(h, q) /\ UNCHANGED writer
    BY <1>1
  <2>1. item[h] \in Items /\ ~(item[h] \in Comments /\ writer[item[h]] = NoOne)
    BY ItemHeld, KindFacts DEF Runs, RequestsHold, Holds, Adders
  <2>2. UNCHANGED <<notes, writer>>
    BY DEF InsertRow
  <2>3. \A k \in Kinds, c \in Comments : c # item[h] => made'[<<k, c>>] = made[<<k, c>>]
    BY <1>0, <2>1 DEF InsertRow, Items
  <2>4. QED
    BY <2>1, <2>2, <2>3 DEF Undrawn, OwnUnnoted, Own
<1>2. CASE \E h \in Requests, q \in Kinds :
             Runs(h, q, "notifying") /\ op[h] \in Adders /\ NotifyAuthor(h, q) /\ UNCHANGED writer
  <2> PICK h \in Requests, q \in Kinds :
             Runs(h, q, "notifying") /\ op[h] \in Adders /\ NotifyAuthor(h, q) /\ UNCHANGED writer
    BY <1>2
  <2>1. item[h] \in Items /\ ~Own(item[h])
    BY ItemHeld, KindFacts DEF Runs, RequestsHold, Holds, Adders, Own
  <2>2. UNCHANGED <<made, writer>>
    BY DEF NotifyAuthor
  <2>3. \A k \in Kinds, i \in Items : i # item[h] => notes'[<<k, i>>] = notes[<<k, i>>]
    BY <1>0, <2>1 DEF NotifyAuthor
  <2>4. QED
    BY <2>1, <2>2, <2>3 DEF Undrawn, OwnUnnoted, Own
<1>3. CASE \E h \in Requests, a \in Actors, c \in Comments : CommentReads(h, a, c)
  <2> PICK h \in Requests, a \in Actors, c \in Comments : CommentReads(h, a, c)
    BY <1>3
  <2>1. writer[c] = NoOne /\ writer' = [writer EXCEPT ![c] = a] /\ UNCHANGED <<made, notes>>
    BY DEF CommentReads, Begins
  <2>2. \A k \in Kinds : notes[<<k, c>>] = 0
    <3> TAKE k \in Kinds
    <3>1. made[<<k, c>>] = 0 /\ c \in Items /\ notes[<<k, c>>] \in Nat
      BY <1>0, <2>1 DEF Undrawn, Items
    <3>2. notes[<<k, c>>] + Cardinality(Owing(k, c)) <= 0 /\ Cardinality(Owing(k, c)) \in Nat
      BY <3>1, OwingFinite DEF Owed
    <3>3. \A x, y \in Nat : x + y <= 0 => x = 0
      OBVIOUS
    <3>4. QED
      BY <3>1, <3>2, <3>3
  <2>3. QED
    BY <2>1, <2>2 DEF Undrawn, OwnUnnoted, Own
<1>4. CASE UNCHANGED <<made, notes, writer>>
  BY <1>4 DEF Undrawn, OwnUnnoted, Own
<1>5. QED
  BY SplitNext, <1>1, <1>2, <1>3, <1>4
  DEF NextCases, ClipGoes, UnbookmarkClip, MarkRead, RequestFails, BookmarkClip, FetchLiveClip,
      DeleteCommentReads, Begins, CountRow, RemoveRow, DiscountRow, Refused, tables, history, vars

\* NOTIFIED ONCE (like_clip, announce_clip, create_comment): the author hears of
\* a row at most once for each time it was made, and never of his own.
THEOREM NotifiedCorrect == Spec => []NotifiedOnce
<1>1. Init => NoteInv
  <2> SUFFICES ASSUME Init PROVE NoteInv
    OBVIOUS
  <2>1. \A k, i : Owing(k, i) = {}
    BY DEF Init, Owing
  <2>2. Owed
    <3> SUFFICES ASSUME NEW k \in Kinds, NEW i \in Items
                 PROVE  notes[<<k, i>>] + Cardinality(Owing(k, i)) <= made[<<k, i>>]
      BY DEF Owed
    <3>1. notes[<<k, i>>] = 0 /\ made[<<k, i>>] = 0
      BY DEF Init
    <3>2. Cardinality(Owing(k, i)) = 0
      BY <2>1, FS_EmptySet
    <3>3. QED
      BY <3>1, <3>2
  <2>3. Undrawn /\ OwnUnnoted
    BY DEF Init, Undrawn, OwnUnnoted, Items
  <2>4. QED
    BY <2>2, <2>3, TypeInit DEF NoteInv
<1>2. NoteInv /\ [Next]_vars => NoteInv'
  BY TypeStep, HoldsStep, OwedStep, OwnStep DEF NoteInv, TypeInv
<1>3. NoteInv => NotifiedOnce
  <2> SUFFICES ASSUME NoteInv, NEW k \in Kinds, NEW i \in Items
               PROVE  /\ notes[<<k, i>>] <= made[<<k, i>>]
                      /\ (i = Author \/ (i \in Comments /\ writer[i] = Author)) => notes[<<k, i>>] = 0
    BY DEF NotifiedOnce
  <2>1. /\ notes[<<k, i>>] \in Nat /\ made[<<k, i>>] \in Nat /\ Cardinality(Owing(k, i)) \in Nat
        /\ notes[<<k, i>>] + Cardinality(Owing(k, i)) <= made[<<k, i>>]
    BY OwingFinite DEF NoteInv, TypeInv, TypeOK, Owed
  <2>2. QED
    BY <2>1 DEF NoteInv, OwnUnnoted, Own
<1>4. QED
  BY <1>1, <1>2, <1>3, PTL DEF Spec

-----------------------------------------------------------------------------
(* Counters.                                                               *)

\* Requests of a kind that has not overlapped run one at a time.
OneAtATime == \A k \in Kinds : k \notin overlapped => \A g, h \in Busy(k) : g = h

CountInv == TypeInv /\ OneAtATime /\ CounterAccounts

\* The accounts of kind k.
Balanced(k) ==
  faults = 0 /\ (k = "comment" \/ ~gone) =>
    /\ count[k] + Cardinality(Pending(k, "counting"))
         = Cardinality(rows[k]) + Cardinality(Pending(k, "discounting")) + floored[k]
    /\ k \notin overlapped => floored[k] = 0

\* Rows and pending requests are finite in number.
LEMMA Finite ==
  ASSUME TypeInv, NEW k \in Kinds
  PROVE  /\ IsFiniteSet(rows[k]) /\ Cardinality(rows[k]) \in Nat
         /\ \A ph : IsFiniteSet(Pending(k, ph)) /\ Cardinality(Pending(k, ph)) \in Nat
<1>1. IsFiniteSet(Items)
  BY ConstantAssumption, FS_Union DEF Items
<1>2. IsFiniteSet(rows[k])
  BY <1>1, FS_Subset DEF TypeInv, TypeOK
<1>3. ASSUME NEW ph PROVE IsFiniteSet(Pending(k, ph))
  BY ConstantAssumption, FS_Subset DEF Pending
<1>4. QED
  BY <1>2, <1>3, FS_CardinalityType

\* Every step keeps requests of a kind one at a time, or notes the overlap.
LEMMA OneStep ==
  ASSUME TypeInv, OneAtATime, [Next]_vars
  PROVE  OneAtATime'
<1> USE DEF TypeInv, TypeOK
<1>1. ASSUME NEW h \in Requests, NEW o, NEW a, NEW i, NEW ph, Begins(h, o, a, i, ph)
      PROVE  OneAtATime'
  <2> SUFFICES ASSUME NEW k \in Kinds, k \notin overlapped' PROVE \A g, f \in Busy(k)' : g = f
    BY DEF OneAtATime
  <2>1. \A g \in Requests : g # h => op'[g] = op[g] /\ pc'[g] = pc[g]
    BY <1>1 DEF Begins
  <2>2. op'[h] = o /\ pc[h] = "idle"
    BY <1>1 DEF Begins
  <2>3. CASE KindOf(o) = k
    <3>1. Busy(k) = {}
      BY <1>1, <2>3 DEF Begins
    <3>2. QED
      BY <2>1, <3>1 DEF Busy
  <2>4. CASE KindOf(o) # k
    <3>1. k \notin overlapped
      BY <1>1 DEF Begins
    <3>2. Busy(k)' \subseteq Busy(k)
      BY <2>1, <2>2, <2>4 DEF Busy
    <3>3. QED
      BY <3>1, <3>2 DEF OneAtATime
  <2>5. QED
    BY <2>3, <2>4
<1>2. CASE \E h \in Requests, a \in Actors : FetchLiveClip(h, a)
  BY <1>1, <1>2 DEF FetchLiveClip
<1>3. CASE \E h \in Requests, a \in Actors, c \in Comments : CommentReads(h, a, c) \/ DeleteCommentReads(h, a, c)
  BY <1>1, <1>3 DEF CommentReads, DeleteCommentReads
<1>4. CASE UNCHANGED <<op, overlapped>> /\ \A h \in Requests : pc[h] = "idle" => pc'[h] = "idle"
  BY <1>4 DEF OneAtATime, Busy
<1>5. CASE \E h \in Requests : UNCHANGED overlapped /\ pc[h] # "idle" /\ \E ph : Goes(h, ph)
  <2>1. UNCHANGED <<op, overlapped>> /\ \A h \in Requests : pc[h] = "idle" => pc'[h] = "idle"
    BY <1>5 DEF Goes
  <2>2. QED
    BY <1>4, <2>1
<1>6. QED
  BY SplitNext, <1>2, <1>3, <1>4, <1>5
  DEF NextCases, ClipGoes, UnbookmarkClip, MarkRead, RequestFails, BookmarkClip, At, InsertRow, CountRow,
      NotifyAuthor, RemoveRow, DiscountRow, Refused, Frame, Runs, request, history, vars

\* A step that touches nothing of kind k keeps its accounts.
LEMMA BalanceKept ==
  ASSUME CountInv, NEW k \in Kinds,
         count'[k] = count[k], rows'[k] = rows[k], floored'[k] = floored[k], faults' = faults,
         gone => gone', overlapped \subseteq overlapped',
         Pending(k, "counting")' = Pending(k, "counting"),
         Pending(k, "discounting")' = Pending(k, "discounting")
  PROVE  Balanced(k)'
<1>1. Balanced(k)
  BY DEF CountInv, CounterAccounts, Balanced
<1>2. QED
  BY <1>1 DEF Balanced

\* A request that comes in stands at none of the counted statements.
LEMMA BeginsKeeps ==
  ASSUME CountInv, NEW k \in Kinds, NEW h \in Requests, NEW o, NEW a, NEW i,
         NEW ph \in {"adding", "removing"}, Begins(h, o, a, i, ph)
  PROVE  Balanced(k)'
<1> USE DEF CountInv, TypeInv, TypeOK
<1>1. \A g \in Requests : g # h => op'[g] = op[g] /\ pc'[g] = pc[g]
  BY DEF Begins
<1>2. pc'[h] = ph /\ pc[h] = "idle"
  BY DEF Begins
<1>3. /\ Pending(k, "counting")' = Pending(k, "counting")
      /\ Pending(k, "discounting")' = Pending(k, "discounting")
  BY <1>1, <1>2 DEF Pending
<1>4. UNCHANGED <<count, rows, floored, faults, gone>> /\ overlapped \subseteq overlapped'
  BY DEF Begins
<1>5. QED
  BY <1>3, <1>4, BalanceKept

\* A request of another kind, or one that neither leaves nor reaches x.
LEMMA PendingSame ==
  ASSUME TypeInv, NEW k, NEW h \in Requests, NEW ph, Goes(h, ph), NEW x,
         KindOf(op[h]) # k \/ (x # pc[h] /\ x # ph)
  PROVE  Pending(k, x)' = Pending(k, x)
<1>1. op' = op /\ pc'[h] = ph /\ \A g \in Requests : g # h => pc'[g] = pc[g]
  BY DEF TypeInv, TypeOK, Goes
<1>2. QED
  BY <1>1 DEF Pending

\* A request of kind k reaches statement x.
LEMMA PendingJoins ==
  ASSUME TypeInv, NEW k \in Kinds, NEW h \in Requests, NEW x, Goes(h, x), KindOf(op[h]) = k, x # pc[h]
  PROVE  Cardinality(Pending(k, x)') = Cardinality(Pending(k, x)) + 1
<1>1. op' = op /\ pc'[h] = x /\ \A g \in Requests : g # h => pc'[g] = pc[g]
  BY DEF TypeInv, TypeOK, Goes
<1>2. Pending(k, x)' = Pending(k, x) \cup {h} /\ h \notin Pending(k, x)
  BY <1>1 DEF Pending
<1>3. IsFiniteSet(Pending(k, x))
  BY Finite
<1>4. QED
  BY <1>2, <1>3, FS_AddElement

\* A request of kind k leaves statement x.
LEMMA PendingLeaves ==
  ASSUME TypeInv, NEW k \in Kinds, NEW h \in Requests, NEW ph, NEW x, Goes(h, ph),
         KindOf(op[h]) = k, x = pc[h], x # ph
  PROVE  /\ Cardinality(Pending(k, x)') = Cardinality(Pending(k, x)) - 1
         /\ Cardinality(Pending(k, x)) # 0
<1>1. op' = op /\ pc'[h] = ph /\ \A g \in Requests : g # h => pc'[g] = pc[g]
  BY DEF TypeInv, TypeOK, Goes
<1>2. Pending(k, x)' = Pending(k, x) \ {h} /\ h \in Pending(k, x)
  BY <1>1 DEF Pending
<1>3. IsFiniteSet(Pending(k, x))
  BY Finite
<1>4. Cardinality(Pending(k, x) \ {h}) = Cardinality(Pending(k, x)) - 1
  BY <1>2, <1>3, FS_RemoveElement
<1>5. Cardinality(Pending(k, x)) # 0
  BY <1>2, <1>3, FS_EmptySet
<1>6. QED
  BY <1>2, <1>4, <1>5

\* The numbers the accounts are made of.
LEMMA Numbers ==
  ASSUME CountInv, NEW k \in Kinds
  PROVE  /\ count[k] \in Nat /\ floored[k] \in Nat /\ Cardinality(rows[k]) \in Nat
         /\ Cardinality(Pending(k, "counting")) \in Nat /\ Cardinality(Pending(k, "discounting")) \in Nat
         /\ Balanced(k)
<1>1. TypeInv
  BY DEF CountInv
<1>2. Balanced(k)
  BY DEF CountInv, CounterAccounts, Balanced
<1>3. count[k] \in Nat /\ floored[k] \in Nat
  BY <1>1 DEF TypeInv, TypeOK
<1>4. QED
  BY <1>1, <1>2, <1>3, Finite

\* A statement of another kind, or between statements that are not counted.
LEMMA GoesKeeps ==
  ASSUME CountInv, NEW k \in Kinds, NEW h \in Requests, NEW ph, Goes(h, ph),
         count'[k] = count[k], rows'[k] = rows[k], floored'[k] = floored[k],
         UNCHANGED <<gone, faults, overlapped>>,
         \/ KindOf(op[h]) # k
         \/ {pc[h], ph} \cap {"counting", "discounting"} = {}
  PROVE  Balanced(k)'
<1>0. /\ KindOf(op[h]) # k \/ ("counting" # pc[h] /\ "counting" # ph)
      /\ KindOf(op[h]) # k \/ ("discounting" # pc[h] /\ "discounting" # ph)
  OBVIOUS
<1>1. Pending(k, "counting")' = Pending(k, "counting")
  BY <1>0, PendingSame DEF CountInv
<1>2. Pending(k, "discounting")' = Pending(k, "discounting")
  BY <1>0, PendingSame DEF CountInv
<1>3. QED
  BY <1>1, <1>2, BalanceKept

\* A new row owes the counter one.
LEMMA InsertBalances ==
  ASSUME CountInv, NEW k \in Kinds, NEW h \in Requests, Runs(h, k, "adding"), InsertRow(h, k)
  PROVE  Balanced(k)'
<1>0. /\ UNCHANGED <<gone, faults, overlapped, count, floored>>
      /\ rows'[k] = rows[k] \cup {item[h]}
  BY DEF CountInv, TypeInv, TypeOK, InsertRow, Frame
<1>1. CASE item[h] \in rows[k]
  <2>1. Goes(h, "idle") /\ rows'[k] = rows[k]
    BY <1>0, <1>1 DEF InsertRow
  <2>2. QED
    BY <1>0, <2>1, GoesKeeps DEF Runs
<1>2. CASE item[h] \notin rows[k]
  <2>1. Goes(h, "counting")
    BY <1>2 DEF InsertRow
  <2>2. Cardinality(Pending(k, "counting")') = Cardinality(Pending(k, "counting")) + 1
    BY <2>1, PendingJoins DEF CountInv, Runs
  <2>3. Pending(k, "discounting")' = Pending(k, "discounting")
    BY <2>1, PendingSame DEF CountInv, Runs
  <2>4. IsFiniteSet(rows[k])
    BY Finite DEF CountInv
  <2>5. Cardinality(rows'[k]) = Cardinality(rows[k]) + 1
    BY <1>0, <1>2, <2>4, FS_AddElement
  <2>6. QED
    BY <1>0, <2>2, <2>3, <2>5, Numbers DEF Balanced
<1>3. QED
  BY <1>1, <1>2

\* The counter is paid.
LEMMA CountBalances ==
  ASSUME CountInv, NEW k \in Kinds, NEW h \in Requests, Runs(h, k, "counting"), CountRow(h, k)
  PROVE  Balanced(k)'
<1>0. UNCHANGED <<gone, faults, overlapped, rows, floored>> /\ count'[k] = count[k] + 1
  BY DEF CountInv, TypeInv, TypeOK, CountRow, Frame
<1>1. PICK ph \in {"idle", "notifying"} : Goes(h, ph)
  BY DEF CountRow
<1>2. Cardinality(Pending(k, "counting")') = Cardinality(Pending(k, "counting")) - 1
  BY <1>1, PendingLeaves DEF CountInv, Runs
<1>3. Pending(k, "discounting")' = Pending(k, "discounting")
  BY <1>1, PendingSame DEF CountInv, Runs
<1>4. QED
  BY <1>0, <1>2, <1>3, Numbers DEF Balanced

\* A row that goes is owed back.
LEMMA RemoveBalances ==
  ASSUME CountInv, NEW k \in Kinds, NEW h \in Requests, Runs(h, k, "removing"), RemoveRow(h, k)
  PROVE  Balanced(k)'
<1>0. /\ UNCHANGED <<gone, faults, overlapped, count, floored>>
      /\ rows'[k] = rows[k] \ {item[h]}
  BY DEF CountInv, TypeInv, TypeOK, RemoveRow, Frame
<1>1. CASE item[h] \notin rows[k]
  <2>1. Goes(h, "idle") /\ rows'[k] = rows[k]
    BY <1>0, <1>1 DEF RemoveRow
  <2>2. QED
    BY <1>0, <2>1, GoesKeeps DEF Runs
<1>2. CASE item[h] \in rows[k]
  <2>1. Goes(h, "discounting")
    BY <1>2 DEF RemoveRow
  <2>2. Cardinality(Pending(k, "discounting")') = Cardinality(Pending(k, "discounting")) + 1
    BY <2>1, PendingJoins DEF CountInv, Runs
  <2>3. Pending(k, "counting")' = Pending(k, "counting")
    BY <2>1, PendingSame DEF CountInv, Runs
  <2>4. IsFiniteSet(rows[k])
    BY Finite DEF CountInv
  <2>5. Cardinality(rows[k] \ {item[h]}) = Cardinality(rows[k]) - 1
    BY <1>2, <2>4, FS_RemoveElement
  <2>6. QED
    BY <1>0, <2>2, <2>3, <2>5, Numbers DEF Balanced
<1>3. QED
  BY <1>1, <1>2

\* The counter goes down, or is at 0 and the floor is noted; a request that runs
\* alone never finds it at 0.
LEMMA DiscountBalances ==
  ASSUME CountInv, NEW k \in Kinds, NEW h \in Requests, Runs(h, k, "discounting"), DiscountRow(h, k)
  PROVE  Balanced(k)'
<1>0. /\ UNCHANGED <<gone, faults, overlapped, rows>> /\ Goes(h, "idle")
      /\ count'[k] = IF count[k] = 0 THEN 0 ELSE count[k] - 1
      /\ floored'[k] = IF count[k] = 0 THEN floored[k] + 1 ELSE floored[k]
  BY DEF CountInv, TypeInv, TypeOK, DiscountRow, Frame
<1>1. /\ Cardinality(Pending(k, "discounting")') = Cardinality(Pending(k, "discounting")) - 1
      /\ Cardinality(Pending(k, "discounting")) # 0
  BY <1>0, PendingLeaves DEF CountInv, Runs
<1>2. Pending(k, "counting")' = Pending(k, "counting")
  BY <1>0, PendingSame DEF CountInv, Runs
<1>3. k \notin overlapped => Cardinality(Pending(k, "counting")) = 0
  <2> HAVE k \notin overlapped
  <2>1. \A g \in Pending(k, "counting") : g \in Busy(k) /\ h \in Busy(k) /\ g # h
    BY DEF Pending, Busy, Runs
  <2>2. Pending(k, "counting") = {}
    BY <2>1 DEF CountInv, OneAtATime
  <2>3. QED
    BY <2>2, FS_EmptySet
<1>4. /\ count[k] \in Nat /\ floored[k] \in Nat /\ Cardinality(rows[k]) \in Nat
      /\ Cardinality(Pending(k, "counting")) \in Nat /\ Cardinality(Pending(k, "discounting")) \in Nat
      /\ Balanced(k)
  BY Numbers
<1>5. ASSUME faults' = 0, k = "comment" \/ ~gone'
      PROVE  /\ count'[k] + Cardinality(Pending(k, "counting")')
                  = Cardinality(rows'[k]) + Cardinality(Pending(k, "discounting")') + floored'[k]
             /\ k \notin overlapped' => floored'[k] = 0
  <2>1. /\ count[k] + Cardinality(Pending(k, "counting"))
             = Cardinality(rows[k]) + Cardinality(Pending(k, "discounting")) + floored[k]
        /\ k \notin overlapped => floored[k] = 0
    BY <1>0, <1>4, <1>5 DEF Balanced
  <2>2. Cardinality(Pending(k, "counting")') = Cardinality(Pending(k, "counting"))
    BY <1>2
  <2>3. CASE count[k] = 0
    <3>1. k \in overlapped
      BY <1>1, <1>3, <1>4, <2>1, <2>3
    <3>2. QED
      BY <1>0, <1>1, <1>4, <2>1, <2>2, <2>3, <3>1
  <2>4. CASE count[k] # 0
    BY <1>0, <1>1, <1>4, <2>1, <2>2, <2>4
  <2>5. QED
    BY <2>3, <2>4
<1>6. QED
  BY <1>5 DEF Balanced

\* Every step keeps the accounts.
LEMMA CounterStep ==
  ASSUME CountInv, [Next]_vars
  PROVE  CounterAccounts'
<1> SUFFICES ASSUME NEW k \in Kinds PROVE Balanced(k)'
  BY DEF CounterAccounts, Balanced
<1> USE DEF CountInv, TypeInv, TypeOK
<1>1. CASE \E h \in Requests, q \in Kinds : Runs(h, q, "adding") /\ InsertRow(h, q)
  <2> PICK h \in Requests, q \in Kinds : Runs(h, q, "adding") /\ InsertRow(h, q)
    BY <1>1
  <2>1. CASE q = k
    BY <2>1, InsertBalances
  <2>2. CASE q # k
    BY <2>2, GoesKeeps DEF InsertRow, Frame, Runs
  <2>3. QED
    BY <2>1, <2>2
<1>2. CASE \E h \in Requests, q \in Kinds : Runs(h, q, "counting") /\ CountRow(h, q)
  <2> PICK h \in Requests, q \in Kinds : Runs(h, q, "counting") /\ CountRow(h, q)
    BY <1>2
  <2>1. CASE q = k
    BY <2>1, CountBalances
  <2>2. CASE q # k
    BY <2>2, GoesKeeps DEF CountRow, Frame, Runs
  <2>3. QED
    BY <2>1, <2>2
<1>3. CASE \E h \in Requests, q \in Kinds : Runs(h, q, "notifying") /\ NotifyAuthor(h, q)
  BY <1>3, GoesKeeps DEF NotifyAuthor, Frame, Runs
<1>4. CASE \E h \in Requests, q \in Kinds : Runs(h, q, "removing") /\ RemoveRow(h, q)
  <2> PICK h \in Requests, q \in Kinds : Runs(h, q, "removing") /\ RemoveRow(h, q)
    BY <1>4
  <2>1. CASE q = k
    BY <2>1, RemoveBalances
  <2>2. CASE q # k
    BY <2>2, GoesKeeps DEF RemoveRow, Frame, Runs
  <2>3. QED
    BY <2>1, <2>2
<1>5. CASE \E h \in Requests, q \in Kinds : Runs(h, q, "discounting") /\ DiscountRow(h, q)
  <2> PICK h \in Requests, q \in Kinds : Runs(h, q, "discounting") /\ DiscountRow(h, q)
    BY <1>5
  <2>1. CASE q = k
    BY <2>1, DiscountBalances
  <2>2. CASE q # k
    BY <2>2, GoesKeeps DEF DiscountRow, Frame, Runs
  <2>3. QED
    BY <2>1, <2>2
<1>6. CASE \E h \in Requests : KindOf(op[h]) # "comment" /\ Refused(h)
  <2> PICK h \in Requests : KindOf(op[h]) # "comment" /\ Refused(h)
    BY <1>6
  <2>1. CASE k = "comment"
    BY <2>1, GoesKeeps DEF Refused, Frame
  <2>2. CASE k # "comment"
    BY <2>2 DEF Refused, Frame, Balanced
  <2>3. QED
    BY <2>1, <2>2
<1>7. CASE ClipGoes
  <2>1. \A ph : Pending(k, ph)' = Pending(k, ph)
    BY <1>7 DEF ClipGoes, request, Pending
  <2>2. QED
    BY <1>7, <2>1, BalanceKept DEF ClipGoes, tables, history
<1>8. CASE \E h \in Requests : RequestFails(h)
  BY <1>8 DEF RequestFails, Balanced
<1>9. CASE \E h \in Requests : BookmarkClip(h)
  BY <1>9, GoesKeeps DEF BookmarkClip, At, history
<1>10. CASE \E h \in Requests, a \in Actors : FetchLiveClip(h, a)
  BY <1>10, BeginsKeeps DEF FetchLiveClip
<1>11. CASE \E h \in Requests, a \in Actors, c \in Comments : CommentReads(h, a, c) \/ DeleteCommentReads(h, a, c)
  BY <1>11, BeginsKeeps DEF CommentReads, DeleteCommentReads
<1>12. CASE UNCHANGED <<gone, rows, count, request, floored, overlapped, faults>>
  <2>1. \A ph : Pending(k, ph)' = Pending(k, ph)
    BY <1>12 DEF request, Pending
  <2>2. QED
    BY <1>12, <2>1, BalanceKept
<1>13. QED
  BY SplitNext, <1>1, <1>2, <1>3, <1>4, <1>5, <1>6, <1>7, <1>8, <1>9, <1>10, <1>11, <1>12
  DEF NextCases, UnbookmarkClip, MarkRead, tables, history, vars

\* COUNTERS ARE ACCOUNTED FOR (like_clip, unlike_clip, announce_clip,
\* unannounce_clip, create_comment, delete_comment): counter and rows differ by
\* the requests between their two statements and by the decrements that found
\* the counter at 0; requests of one kind that never overlap keep it exact.
THEOREM CountersCorrect == Spec => []CounterAccounts
<1>1. Init => CountInv
  <2> SUFFICES ASSUME Init PROVE CountInv
    OBVIOUS
  <2>1. \A k, ph : ph # "idle" => Pending(k, ph) = {}
    BY DEF Init, Pending
  <2>2. OneAtATime
    BY DEF Init, OneAtATime, Busy
  <2>3. ASSUME NEW k \in Kinds
        PROVE  Balanced(k)
    <3>1. rows[k] = {} /\ count[k] = 0 /\ floored[k] = 0
      BY DEF Init
    <3>2. Cardinality(rows[k]) = 0 /\ Cardinality(Pending(k, "counting")) = 0
          /\ Cardinality(Pending(k, "discounting")) = 0
      BY <2>1, <3>1, FS_EmptySet
    <3>3. QED
      BY <3>1, <3>2 DEF Balanced
  <2>4. CounterAccounts
    BY <2>3 DEF CounterAccounts, Balanced
  <2>5. QED
    BY <2>2, <2>4, TypeInit DEF CountInv
<1>2. CountInv /\ [Next]_vars => CountInv'
  BY TypeStep, HoldsStep, OneStep, CounterStep DEF CountInv, TypeInv
<1>3. CountInv => CounterAccounts
  BY DEF CountInv
<1>4. QED
  BY <1>1, <1>2, <1>3, PTL DEF Spec

=============================================================================
