---------------------------- MODULE MCFeedPaging ----------------------------
EXTENDS FeedPaging

\* A row of a remote actor and two of a local one.
SomeAuthors == [r \in Rows |-> IF r = 1 THEN "rita" ELSE "alice"]

=============================================================================
