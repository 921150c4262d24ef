-------------------------- MODULE FeedPagingProofs --------------------------
(***************************************************************************)
(* What a client that walks a listing is shown, shown twice and not shown, *)
(* for any rows, times, page sizes and changes of the tables meanwhile.    *)
(*                                                                         *)
(* The argument: the cursor lies below every row shown so far              *)
(* (CursorBelow), since truncating created_at to the second only lowers    *)
(* it; and a row that stays in the listing is shown, still ahead of the    *)
(* cursor, or was jumped over by a cursor made of a row of the same second *)
(* (Accounted).                                                            *)
(***************************************************************************)
EXTENDS FeedPaging, FiniteSetTheorems, TLAPS

\* What created_at, a cursor's second and ids are drawn from.
Keysets == Nat \X Nat

\* Less goes through with "not below".
LEMMA LessMixed ==
  ASSUME NEW a \in Keysets, NEW b \in Keysets, NEW c \in Keysets
  PROVE  /\ Less(a, b) /\ ~Less(c, b) => Less(a, c)
         /\ ~Less(b, a) /\ Less(b, c) => Less(a, c)
  BY DEF Keysets, Less

\* Less is asymmetric.
LEMMA LessAsymmetric ==
  ASSUME NEW a \in Keysets, NEW b \in Keysets, Less(a, b)
  PROVE  ~Less(b, a)
  BY DEF Keysets, Less

\* Truncation to the second lowers a time.
LEMMA Truncation ==
  ASSUME NEW a \in Nat, NEW s \in Nat \ {0}
  PROVE  (a \div s) * s \in Nat /\ (a \div s) * s <= a
  OBVIOUS

\* A bookmark is younger than what it marks.
SavedLater == \A r \in Rows : at[r] <= saved[r]

\* Sorting keys and cursors are keysets, and a cursor is not above its row.
LEMMA KeyFacts ==
  ASSUME TypeOK, SavedLater, NEW r \in Rows
  PROVE  Key(r) \in Keysets /\ CursorOf(r) \in Keysets /\ ~Less(Key(r), CursorOf(r))
<1>1. at[r] \in Nat /\ saved[r] \in Nat /\ r \in Nat /\ Second \in Nat \ {0}
  BY ConstantAssumption DEF TypeOK
<1>2. (at[r] \div Second) * Second \in Nat /\ (at[r] \div Second) * Second <= at[r]
  BY <1>1, Truncation
<1> DEFINE c == (at[r] \div Second) * Second
<1>3. CursorOf(r) = <<c, r>> /\ c \in Nat /\ c <= at[r]
  BY <1>2 DEF CursorOf
<1> HIDE DEF c
<1> QED BY <1>1, <1>3 DEF Key, Keysets, Less, SavedLater

\* The query serves the rows of the listing that lie beyond the cursor.
LEMMA ServesListed ==
  ASSUME NextPage
  PROVE  ServePage(Beyond(Listed))
<1> USE DEF Listed
<1>1. CASE FollowingFeed
  BY <1>1 DEF FollowingFeed
<1>2. CASE DiscoverFeed
  BY <1>2 DEF DiscoverFeed
<1>3. CASE LocalFeed
  BY <1>3 DEF LocalFeed
<1>4. CASE TagClips
  BY <1>4 DEF TagClips
<1>5. CASE SoundClips
  BY <1>5 DEF SoundClips
<1>6. CASE ProfileGrid
  BY <1>6 DEF ProfileGrid
<1>7. CASE ListBookmarks
  BY <1>7 DEF ListBookmarks
<1>8. CASE ListNotifications
  BY <1>8 DEF ListNotifications
<1>9. CASE ListComments
  BY <1>9 DEF ListComments
<1> QED BY <1>1, <1>2, <1>3, <1>4, <1>5, <1>6, <1>7, <1>8, <1>9 DEF NextPage

\* A listing is made of rows.
LEMMA ListedRows ==
  ASSUME feed \in Feeds
  PROVE  Listed \subseteq Rows
  BY DEF Feeds, Listed, FollowingRows, DiscoverRows, LocalRows, TagRows, SoundRows, ProfileRows,
         BookmarkRows, NotificationRows, CommentRows

\* What a request answers: a full page with its last row, or the last page.
LEMMA Served ==
  ASSUME TypeOK, NextPage
  PROVE  /\ ~done /\ UNCHANGED <<tables, feed, limit, steady, changes>>
         /\ \E P \in SUBSET Beyond(Listed) :
              /\ IsPage(P, Beyond(Listed)) /\ shown' = shown \cup P
              /\ \/ \E l \in P : /\ IsLast(l, P) /\ cursor' = CursorOf(l)
                                 /\ ends' = ends \cup {l} /\ done' = done
                 \/ P = Beyond(Listed) /\ done' = TRUE /\ cursor' = cursor /\ ends' = ends
<1>1. ServePage(Beyond(Listed))
  BY ServesListed
<1>2. PICK P \in SUBSET Beyond(Listed) :
         /\ IsPage(P, Beyond(Listed)) /\ shown' = shown \cup P
         /\ IF Full(P)
            THEN \E l \in P : IsLast(l, P) /\ cursor' = CursorOf(l) /\ ends' = ends \cup {l} /\ UNCHANGED done
            ELSE done' = TRUE /\ UNCHANGED <<cursor, ends>>
  BY <1>1 DEF ServePage
<1>3. CASE Full(P)
  BY <1>1, <1>2, <1>3, Zenon DEF ServePage
<1>4. CASE ~Full(P)
  <2>1. IsFiniteSet(P)
    BY ConstantAssumption, ListedRows, FS_Subset DEF TypeOK, Beyond
  <2>2. Cardinality(P) \in Nat
    BY <2>1, FS_CardinalityType
  <2>3. limit \in Nat /\ Cardinality(P) <= limit /\ Cardinality(P) # limit
    BY <1>2, <1>4, ConstantAssumption DEF IsPage, Full, TypeOK
  <2>4. P = Beyond(Listed)
    BY <1>2, <2>2, <2>3 DEF IsPage
  <2> QED BY <1>1, <1>2, <1>4, <2>4 DEF ServePage
<1> QED BY <1>3, <1>4

\* A change of the tables during the walk.
Changes ==
  \/ \E r \in Rows : BecomesReady(r) \/ IsDeleted(r)
  \/ \E a \in Actors : IsSuspended(a) \/ IsUnfollowed(a)

\* It happens before the walk is over and leaves what was shown alone.
LEMMA Changed ==
  ASSUME Changes
  PROVE  ~done /\ UNCHANGED <<at, saved, walk>> /\ steady' = steady \cap Listed'
  BY DEF Changes, BecomesReady, IsDeleted, IsSuspended, IsUnfollowed, Change

\* Every step keeps the types.
LEMMA TypeStep ==
  ASSUME TypeOK, SavedLater, [Next]_vars
  PROVE  TypeOK' /\ SavedLater'
<1>1. CASE UNCHANGED vars
  BY <1>1 DEF vars, tables, walk, TypeOK, SavedLater
<1>2. CASE NextPage
  <2>1. PICK P \in SUBSET Beyond(Listed) :
          /\ shown' = shown \cup P
          /\ \/ \E l \in P : cursor' = CursorOf(l) /\ ends' = ends \cup {l} /\ done' = done
             \/ done' = TRUE /\ cursor' = cursor /\ ends' = ends
    BY <1>2, Served
  <2>2. P \subseteq Rows
    BY ListedRows DEF Beyond, TypeOK
  <2>3. shown' \subseteq Rows /\ ends' \subseteq shown'
    BY <2>1, <2>2 DEF TypeOK
  <2>4. cursor' \in (Nat \X Rows) \cup {NoCursor} /\ done' \in BOOLEAN
    <3>1. ASSUME NEW l \in P PROVE CursorOf(l) \in Nat \X Rows
      <4>1. at[l] \in Nat /\ l \in Rows /\ Second \in Nat \ {0}
        BY <2>2, ConstantAssumption DEF TypeOK
      <4> QED BY <4>1, Truncation DEF CursorOf
    <3> QED BY <2>1, <3>1 DEF TypeOK
  <2>5. UNCHANGED <<tables, feed, limit, steady, changes>>
    BY <1>2, Served
  <2> QED BY <2>3, <2>4, <2>5 DEF tables, TypeOK, SavedLater
<1>3. CASE Changes
  <2>1. ~done /\ UNCHANGED <<at, saved, walk>> /\ steady' = steady \cap Listed'
    BY <1>3, Changed
  <2>2. changes' \in 0..MaxChanges
    BY <1>3, ConstantAssumption
       DEF Changes, BecomesReady, IsDeleted, IsSuspended, IsUnfollowed, Change, TypeOK
  <2>3. /\ status' \in [Rows -> {"processing", "ready", "deleted"}]
        /\ suspended' \subseteq Actors /\ followed' \subseteq Actors
    BY <1>3 DEF Changes, BecomesReady, IsDeleted, IsSuspended, IsUnfollowed, TypeOK
  <2> QED BY <2>1, <2>2, <2>3 DEF walk, TypeOK, SavedLater
<1> QED BY <1>1, <1>2, <1>3 DEF Next, Changes

\* The types hold when a walk begins.
LEMMA TypeInit ==
  ASSUME Init
  PROVE  TypeOK /\ SavedLater
<1>1. saved \in [Rows -> Times] /\ SavedLater
  <2>1. \A r \in Rows : at[r] \in Nat
    BY ConstantAssumption DEF Init
  <2> QED BY <2>1 DEF Init, SavedLater
<1>2. Listed \subseteq Rows
  BY ListedRows DEF Init
<1>3. status \in [Rows -> {"processing", "ready", "deleted"}]
  BY DEF Init
<1>4. 0 \in 0..MaxChanges
  BY ConstantAssumption
<1> QED BY <1>1, <1>2, <1>3, <1>4 DEF Init, TypeOK

\* The tables and the walk keep their types, a page ends with a row that was
\* shown, and a bookmark is never older than its clip.
THEOREM TypeCorrect == Spec => [](TypeOK /\ SavedLater)
  BY TypeInit, TypeStep, PTL DEF Spec

-----------------------------------------------------------------------------
(* Never back.                                                             *)

\* The cursor is not above a row that was shown.
CursorBelow ==
  feed # "comments" /\ ~done =>
    \A q \in shown : cursor # NoCursor /\ ~Less(Key(q), cursor)

\* A step leaves the keysets alone.
LEMMA KeysStay ==
  ASSUME TypeOK, [Next]_vars
  PROVE  feed' = feed /\ \A r \in Rows : Key(r)' = Key(r) /\ CursorOf(r)' = CursorOf(r)
<1>1. UNCHANGED <<at, saved, feed>>
  BY Served, Changed DEF Next, Changes, vars, tables, walk
<1> QED BY <1>1 DEF Key, CursorOf

\* A cursor in use is a keyset.
LEMMA CursorKeyset ==
  ASSUME TypeOK, cursor # NoCursor
  PROVE  cursor \in Keysets
  BY ConstantAssumption DEF TypeOK, Keysets

\* Every step keeps the cursor below what was shown.
LEMMA CursorBelowStep ==
  ASSUME TypeOK, SavedLater, CursorBelow, [Next]_vars
  PROVE  CursorBelow'
<1>0. SUFFICES ASSUME feed' # "comments", ~done', NEW q \in shown'
               PROVE  cursor' # NoCursor /\ ~Less(Key(q)', cursor')
  BY DEF CursorBelow
<1>1. feed # "comments" /\ \A r \in Rows : Key(r)' = Key(r)
  BY <1>0, KeysStay
<1>2. CASE UNCHANGED walk
  BY <1>0, <1>1, <1>2 DEF walk, CursorBelow, TypeOK
<1>3. CASE NextPage
  <2>0. PICK P \in SUBSET Beyond(Listed) :
          shown' = shown \cup P /\ \E l \in P : IsLast(l, P) /\ cursor' = CursorOf(l)
    BY <1>0, <1>3, Served
  <2>1. PICK l \in P : shown' = shown \cup P /\ IsLast(l, P) /\ cursor' = CursorOf(l)
    BY <2>0
  <2>2. ~done /\ P \subseteq Rows /\ q \in Rows
    BY <1>0, <1>3, <2>1, ListedRows, Served DEF Beyond, TypeOK
  <2>3. /\ Key(l) \in Keysets /\ CursorOf(l) \in Keysets /\ ~Less(Key(l), CursorOf(l))
        /\ Key(q) \in Keysets
    BY <2>1, <2>2, KeyFacts
  <2>4. CursorOf(l) # NoCursor
    BY <2>3, ConstantAssumption DEF Keysets
  <2>5. CASE q \in P
    <3>1. q = l \/ Less(Key(l), Key(q))
      BY <1>1, <2>1, <2>5 DEF IsLast
    <3> QED BY <1>1, <2>1, <2>2, <2>3, <2>4, <3>1, LessMixed, LessAsymmetric
  <2>6. CASE q \in shown
    <3>1. cursor # NoCursor /\ ~Less(Key(q), cursor)
      BY <1>1, <2>2, <2>6 DEF CursorBelow
    <3>2. Less(Key(l), cursor)
      BY <1>1, <2>1, <3>1 DEF Beyond, BelowCursor
    <3>3. Less(Key(l), Key(q))
      BY <2>3, <3>1, <3>2, CursorKeyset, LessMixed
    <3> QED BY <1>1, <2>1, <2>2, <2>3, <2>4, <3>3, LessMixed, LessAsymmetric
  <2> QED BY <1>0, <2>1, <2>5, <2>6
<1> QED BY <1>2, <1>3, Changed DEF Next, Changes, vars

\* Whatever happens to the tables between two requests, a listing that is
\* newest first goes on below everything it has shown.
THEOREM PagesAlwaysDescend == Spec => []PagesDescend
<1>1. Init => CursorBelow
  BY DEF Init, CursorBelow
<1>2. TypeOK /\ SavedLater /\ CursorBelow /\ [Next]_vars => CursorBelow'
  BY CursorBelowStep
<1>3. TypeOK /\ SavedLater /\ CursorBelow => PagesDescend
  <2>1. SUFFICES ASSUME TypeOK, SavedLater, CursorBelow, feed # "comments", ~done,
                        NEW q \in shown, NEW r \in Beyond(Listed)
                 PROVE  Less(Key(r), Key(q))
    BY DEF PagesDescend
  <2>2. r \in Rows /\ q \in Rows
    BY <2>1, ListedRows DEF Beyond, TypeOK
  <2>3. cursor # NoCursor /\ ~Less(Key(q), cursor)
    BY <2>1 DEF CursorBelow
  <2>4. Less(Key(r), cursor)
    BY <2>1, <2>3 DEF Beyond, BelowCursor
  <2> QED BY <2>1, <2>2, <2>3, <2>4, KeyFacts, CursorKeyset, LessMixed
<1> QED BY <1>1, <1>2, <1>3, TypeCorrect, PTL DEF Spec

-----------------------------------------------------------------------------
(* What is missed.                                                         *)

\* Row r was jumped over by a cursor made of a row that ended a page.
JumpedOver(r) ==
  feed # "comments" /\ \E e \in ends : Less(Key(r), Key(e)) /\ ~Less(Key(r), CursorOf(e))

\* The next query would find row r.
Ahead(r) ==
  ~done /\ (IF feed = "comments" THEN AboveCursor(r) ELSE BelowCursor(r))

Accounted ==
  /\ steady \subseteq Listed
  /\ \A r \in steady \ shown : JumpedOver(r) \/ Ahead(r)

\* Every step keeps the rows accounted for.
LEMMA AccountedStep ==
  ASSUME TypeOK, SavedLater, Accounted, [Next]_vars
  PROVE  Accounted'
<1>1. feed' = feed /\ \A r \in Rows : Key(r)' = Key(r) /\ CursorOf(r)' = CursorOf(r)
  BY KeysStay
<1>2. CASE UNCHANGED walk /\ steady' \subseteq steady /\ steady' \subseteq Listed'
  <2>1. ASSUME NEW r \in steady' \ shown' PROVE (JumpedOver(r) \/ Ahead(r))'
    <3>1. r \in Rows /\ Key(r)' = Key(r) /\ (JumpedOver(r) \/ Ahead(r))
      BY <1>1, <1>2, <2>1 DEF walk, Accounted, TypeOK
    <3>2. Ahead(r)' <=> Ahead(r)
      BY <1>2, <3>1 DEF walk, Ahead, AboveCursor, BelowCursor
    <3>3. JumpedOver(r) => JumpedOver(r)'
      BY <1>1, <1>2, <3>1 DEF walk, JumpedOver, TypeOK
    <3> QED BY <3>1, <3>2, <3>3
  <2> QED BY <1>2, <2>1 DEF Accounted
<1>3. CASE NextPage
  <2>1. /\ ~done /\ UNCHANGED <<tables, feed, limit, steady, changes>>
        /\ Listed' = Listed
    BY <1>3, Served DEF tables, Listed, FollowingRows, DiscoverRows, LocalRows, TagRows, SoundRows,
         ProfileRows, BookmarkRows, NotificationRows, CommentRows, Playable
  <2>2. PICK P \in SUBSET Beyond(Listed) :
          /\ IsPage(P, Beyond(Listed)) /\ shown' = shown \cup P
          /\ \/ \E l \in P : IsLast(l, P) /\ cursor' = CursorOf(l) /\ ends' = ends \cup {l} /\ done' = done
             \/ P = Beyond(Listed) /\ done' = TRUE /\ cursor' = cursor /\ ends' = ends
    BY <1>3, Served
  <2>3. ASSUME NEW r \in steady' \ shown' PROVE (JumpedOver(r) \/ Ahead(r))'
    <3>1. r \in steady \ shown /\ r \notin P /\ r \in Rows /\ r \in Listed /\ ends \subseteq ends'
      BY <2>1, <2>2, <2>3 DEF Accounted, TypeOK
    <3>2. CASE JumpedOver(r)
      BY <1>1, <3>1, <3>2 DEF JumpedOver, TypeOK
    <3>3. CASE Ahead(r)
      <4>1. r \in Beyond(Listed) \ P
        BY <3>1, <3>3 DEF Ahead, Beyond
      <4>2. PICK l \in P : cursor' = CursorOf(l) /\ ends' = ends \cup {l} /\ done' = done
        BY <2>2, <4>1
      <4>3. l \in Rows
        BY <4>2, ListedRows DEF Beyond, TypeOK
      <4>4. /\ Key(l) \in Keysets /\ CursorOf(l) \in Keysets /\ ~Less(Key(l), CursorOf(l))
            /\ Key(r) \in Keysets
        BY <3>1, <4>3, KeyFacts
      <4>5. CASE feed = "comments"
        <5>1. Less(Key(l), Key(r))
          BY <2>2, <4>1, <4>5 DEF IsPage
        <5>2. Less(CursorOf(l), Key(r))
          BY <4>4, <5>1, LessMixed
        <5> QED BY <1>1, <2>1, <3>1, <4>2, <4>5, <5>2 DEF Ahead, AboveCursor
      <4>6. CASE feed # "comments"
        <5>1. Less(Key(r), Key(l))
          BY <2>2, <4>1, <4>6 DEF IsPage
        <5>2. CASE Less(Key(r), CursorOf(l))
          BY <1>1, <2>1, <3>1, <4>2, <4>6, <5>2 DEF Ahead, BelowCursor
        <5>3. CASE ~Less(Key(r), CursorOf(l))
          BY <1>1, <3>1, <4>2, <4>3, <4>6, <5>1, <5>3 DEF JumpedOver
        <5> QED BY <5>2, <5>3
      <4> QED BY <4>5, <4>6
    <3> QED BY <3>1, <3>2, <3>3 DEF Accounted
  <2> QED BY <2>1, <2>3 DEF Accounted
<1>4. CASE UNCHANGED vars
  <2>1. Listed' = Listed
    BY <1>4 DEF vars, tables, walk, Listed, FollowingRows, DiscoverRows, LocalRows, TagRows, SoundRows,
         ProfileRows, BookmarkRows, NotificationRows, CommentRows, Playable
  <2> QED BY <1>2, <1>4, <2>1 DEF vars, Accounted
<1>5. CASE Changes
  BY <1>2, <1>5, Changed
<1> QED BY <1>3, <1>4, <1>5 DEF Next, Changes

\* A row that was in the listing all the time and was not shown when the walk is
\* over lies between a row that ended a page and the cursor made of it; in a
\* listing of comments there is none.
THEOREM MissedOnlyBehindCursor == Spec => []MissedBehindCursor
<1>1. Init => Accounted
  BY DEF Init, Accounted, Ahead, AboveCursor, BelowCursor
<1>2. TypeOK /\ SavedLater /\ Accounted /\ [Next]_vars => Accounted'
  BY AccountedStep
<1>3. Accounted => MissedBehindCursor
  BY DEF Accounted, Ahead, JumpedOver, MissedBehindCursor
<1> QED BY <1>1, <1>2, <1>3, TypeCorrect, PTL DEF Spec
=============================================================================
