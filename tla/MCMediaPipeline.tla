-------------------------- MODULE MCMediaPipeline --------------------------
(* Instances of MediaPipeline for TLC.                                      *)
EXTENDS MediaPipeline, TLC

\* Every upload has the same bytes, the case the dedup index is for.
SameBytes == [u \in Uploads |-> 1]

\* Uploads of the same bytes are interchangeable, and so are the workers.
Symmetry == Permutations(Uploads) \cup Permutations(Workers)

=============================================================================
