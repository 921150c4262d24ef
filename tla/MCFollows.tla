----------------------------- MODULE MCFollows -----------------------------
EXTENDS Follows

CONSTANTS alice, bob, rita

\* A local actor and a remote one follow each other; both follow a local actor
\* that is locked.
SomePairs == {<<alice, rita>>, <<rita, alice>>, <<rita, bob>>, <<alice, bob>>}

=============================================================================
