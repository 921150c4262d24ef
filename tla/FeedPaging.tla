----------------------------- MODULE FeedPaging -----------------------------
(***************************************************************************)
(* Keyset pagination: a client walks one listing page by page, passing     *)
(* back the cursor of the last row it got, while rows come and go.  The    *)
(* listings are those of crates/server/src/social.rs over the queries of   *)
(* crates/db/src/feed.rs, sound.rs and bookmark.rs.  A cursor is           *)
(* "{unix_secs}-{id}": it holds the second of the row's created_at while   *)
(* the query compares the column itself.                                   *)
(***************************************************************************)
EXTENDS Integers, FiniteSets

CONSTANTS
  Rows,       \* ids of the rows (clips, comments or notifications)
  Times,      \* values of created_at
  Second,     \* how many of them make a second
  Limits,     \* page sizes after clamping
  Author,     \* Author[r]: actor of the row
  Public, Remote, Tagged, \* rows: visibility = 'public', origin = 'remote', with the tag
  LocalActors,\* actors with domain NULL
  Owner,      \* whose profile is read
  NoCursor,
  MaxChanges  \* bound: changes of the tables during a walk

ASSUME ConstantAssumption ==
  /\ Rows \subseteq Nat /\ IsFiniteSet(Rows)
  /\ Times \subseteq Nat /\ Second \in Nat \ {0}
  /\ Limits \subseteq Nat \ {0} /\ MaxChanges \in Nat
  /\ NoCursor \notin Int \X Int

VARIABLES
  status,    \* clips.status, reduced to ready or not, and deleted_at
  at,        \* created_at of the row
  saved,     \* bookmarks.created_at: when the viewer saved it
  suspended, \* actors with suspended_at
  followed,  \* actors the viewer follows, accepted
  feed, limit, \* the listing and the page size of the walk
  cursor,    \* next_cursor of the last page
  done,      \* the last page had no next_cursor
  shown,     \* rows the client has got
  ends,      \* those that ended a page
  steady,    \* history: rows in the listing all through the walk
  changes

tables == <<status, at, saved, suspended, followed>>
walk == <<feed, limit, cursor, done, shown, ends>>
vars == <<tables, walk, steady, changes>>

Feeds == {"following", "discover", "local", "tag", "sound", "profile",
          "bookmarks", "notifications", "comments"}
Actors == {Author[r] : r \in Rows}

-----------------------------------------------------------------------------
(* The rows of a listing.                                                  *)

Playable(r) == status[r] = "ready" \/ (r \in Remote /\ status[r] # "deleted")

DiscoverRows == {r \in Rows : Playable(r) /\ r \in Public /\ Author[r] \notin suspended}
FollowingRows == {r \in DiscoverRows : Author[r] \in followed}
LocalRows == {r \in DiscoverRows : Author[r] \in LocalActors}
TagRows == DiscoverRows \cap Tagged
\* Without a look at visibility or at suspensions.
SoundRows == {r \in Rows : Playable(r)}
BookmarkRows == {r \in Rows : Playable(r)}
\* A suspended owner is a 404.
ProfileRows == {r \in Rows : Owner \notin suspended /\ Playable(r) /\ r \in Public /\ Author[r] = Owner}
NotificationRows == Rows
CommentRows == {r \in Rows : status[r] # "deleted"}

Listed ==
  CASE feed = "following" -> FollowingRows [] feed = "discover" -> DiscoverRows
    [] feed = "local" -> LocalRows [] feed = "tag" -> TagRows [] feed = "sound" -> SoundRows
    [] feed = "profile" -> ProfileRows [] feed = "bookmarks" -> BookmarkRows
    [] feed = "notifications" -> NotificationRows [] feed = "comments" -> CommentRows

-----------------------------------------------------------------------------
(* Keysets and pages.                                                      *)

Less(a, b) == a[1] < b[1] \/ (a[1] = b[1] /\ a[2] < b[2])

\* ORDER BY created_at, id; bookmarks are ordered by when they were made.
Key(r) == <<IF feed = "bookmarks" THEN saved[r] ELSE at[r], r>>

\* Mutant: the second is rounded up.
CursorRoundsUp(r) == <<((at[r] + Second - 1) \div Second) * Second, r>>

\* format!("{}-{}", clip_created_at.timestamp(), id), read back by parse_cursor;
\* of a bookmark too it is the clip's created_at.
CursorOf(r) == <<(at[r] \div Second) * Second, r>>

\* Mutant: the id is not compared.
BelowCursorTime(r) == cursor = NoCursor \/ Key(r)[1] < cursor[1]

\* Mutant: the row of the cursor is served again.
BelowCursorOrAt(r) == cursor = NoCursor \/ ~Less(cursor, Key(r))

\* (created_at, id) < (cursor), newest first; comments are oldest first.
BelowCursor(r) == cursor = NoCursor \/ Less(Key(r), cursor)
AboveCursor(r) == cursor = NoCursor \/ Less(cursor, Key(r))

\* ORDER BY ... LIMIT: P are the first rows of S.
IsPage(P, S) ==
  /\ Cardinality(P) <= limit
  /\ Cardinality(P) < limit => P = S
  /\ \A p \in P, q \in S \ P :
       IF feed = "comments" THEN Less(Key(p), Key(q)) ELSE Less(Key(q), Key(p))

\* rows.last().
IsLast(p, P) == \A q \in P \ {p} :
  IF feed = "comments" THEN Less(Key(q), Key(p)) ELSE Less(Key(p), Key(q))

\* render_feed: rows.len() == limit.
Full(P) == Cardinality(P) = limit

\* Mutant: the last row is only looked ahead at.
ServePageLookahead(S) ==
  /\ ~done
  /\ \E P \in SUBSET S :
       /\ IsPage(P, S)
       /\ IF Full(P)
            THEN \E l \in P :
                   /\ IsLast(l, P) /\ cursor' = CursorOf(l) /\ ends' = ends \cup {l}
                   /\ shown' = shown \cup (P \ {l}) /\ UNCHANGED done
            ELSE done' = TRUE /\ shown' = shown \cup P /\ UNCHANGED <<cursor, ends>>
  /\ UNCHANGED <<tables, feed, limit, steady, changes>>

\* One request of the walk; its answer is next_cursor and the rows.
ServePage(S) ==
  /\ ~done
  /\ \E P \in SUBSET S :
       /\ IsPage(P, S)
       /\ shown' = shown \cup P
       /\ IF Full(P)
            THEN \E l \in P :
                   IsLast(l, P) /\ cursor' = CursorOf(l) /\ ends' = ends \cup {l} /\ UNCHANGED done
            ELSE done' = TRUE /\ UNCHANGED <<cursor, ends>>
  /\ UNCHANGED <<tables, feed, limit, steady, changes>>

\* The query: the listing's rows beyond the cursor.
Beyond(S) == {r \in S : IF feed = "comments" THEN AboveCursor(r) ELSE BelowCursor(r)}

FollowingFeed == feed = "following" /\ ServePage(Beyond(FollowingRows))
DiscoverFeed == feed = "discover" /\ ServePage(Beyond(DiscoverRows))
LocalFeed == feed = "local" /\ ServePage(Beyond(LocalRows))
TagClips == feed = "tag" /\ ServePage(Beyond(TagRows))
SoundClips == feed = "sound" /\ ServePage(Beyond(SoundRows))
ProfileGrid == feed = "profile" /\ ServePage(Beyond(ProfileRows))
ListBookmarks == feed = "bookmarks" /\ ServePage(Beyond(BookmarkRows))
ListNotifications == feed = "notifications" /\ ServePage(Beyond(NotificationRows))
ListComments == feed = "comments" /\ ServePage(Beyond(CommentRows))

NextPage ==
  \/ FollowingFeed \/ DiscoverFeed \/ LocalFeed \/ TagClips \/ SoundClips
  \/ ProfileGrid \/ ListBookmarks \/ ListNotifications \/ ListComments

-----------------------------------------------------------------------------
(* What others do meanwhile.                                               *)

Change ==
  /\ ~done /\ changes < MaxChanges /\ changes' = changes + 1
  /\ UNCHANGED <<at, saved, walk>>
  /\ steady' = steady \cap Listed'

BecomesReady(r) ==
  /\ status[r] = "processing" /\ status' = [status EXCEPT ![r] = "ready"]
  /\ UNCHANGED <<suspended, followed>> /\ Change
IsDeleted(r) ==
  /\ status[r] # "deleted" /\ status' = [status EXCEPT ![r] = "deleted"]
  /\ UNCHANGED <<suspended, followed>> /\ Change
IsSuspended(a) ==
  /\ a \notin suspended /\ suspended' = suspended \cup {a}
  /\ UNCHANGED <<status, followed>> /\ Change
IsUnfollowed(a) ==
  /\ a \in followed /\ followed' = followed \ {a}
  /\ UNCHANGED <<status, suspended>> /\ Change

\* A row is saved after it was made; ids and times are drawn apart.
Init ==
  /\ feed \in Feeds /\ limit \in Limits
  /\ at \in [Rows -> Times]
  /\ saved \in IF feed = "bookmarks" THEN {s \in [Rows -> Times] : \A r \in Rows : at[r] <= s[r]} ELSE {at}
  /\ status \in [Rows -> {"processing", "ready"}]
  /\ suspended = {} /\ followed = Actors
  /\ cursor = NoCursor /\ done = FALSE /\ shown = {} /\ ends = {}
  /\ steady = Listed /\ changes = 0

Next ==
  \/ NextPage
  \/ \E r \in Rows : BecomesReady(r) \/ IsDeleted(r)
  \/ \E a \in Actors : IsSuspended(a) \/ IsUnfollowed(a)

Spec == Init /\ [][Next]_vars

\* The client goes on asking.
FairSpec == Spec /\ WF_vars(NextPage)

-----------------------------------------------------------------------------
(* Properties.                                                             *)

\* The tables and the walk keep their types; a page ends with a row that was
\* shown, and the cursor is made of one (render_feed).
TypeOK ==
  /\ status \in [Rows -> {"processing", "ready", "deleted"}]
  /\ at \in [Rows -> Times] /\ saved \in [Rows -> Times]
  /\ suspended \subseteq Actors /\ followed \subseteq Actors
  /\ feed \in Feeds /\ limit \in Limits
  /\ cursor \in (Nat \X Rows) \cup {NoCursor} /\ done \in BOOLEAN
  /\ shown \subseteq Rows /\ ends \subseteq shown /\ steady \subseteq Rows
  /\ changes \in 0..MaxChanges

\* NEVER BACK (feed_page, clips_by_tag, bookmark::list ...): whatever happens to
\* the tables between two requests, a listing that is newest first goes on below
\* everything it has shown: the query beyond the cursor finds no row again and
\* none that should have come before.
PagesDescend ==
  feed # "comments" =>
    \A q \in shown, r \in Beyond(Listed) : ~done => Less(Key(r), Key(q))

\* WHAT IS MISSED (render_feed with parse_cursor): a row that was in the listing
\* all the time and was not shown lies between a row that ended a page and the
\* cursor made of it, that is, in the same second (for bookmarks: it was saved
\* between the making and the saving of that clip).  Comments are oldest first,
\* the truncated cursor lies below its row, and nothing is missed.
MissedBehindCursor ==
  done => \A r \in steady \ shown :
    /\ feed # "comments"
    /\ \E e \in ends : Less(Key(r), Key(e)) /\ ~Less(Key(r), CursorOf(e))

\* A WALK ENDS (render_feed, "so clients stop at the feed's end"): a listing that
\* is newest first comes to a page without a next_cursor.
WalkEnds == feed # "comments" ~> done

=============================================================================
