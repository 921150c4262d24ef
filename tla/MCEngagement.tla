---------------------------- MODULE MCEngagement ----------------------------
EXTENDS Engagement

CONSTANTS ann, bob

=============================================================================
