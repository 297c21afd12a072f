--------------------------- MODULE MCJobPipeline ---------------------------
\* Instances of JobPipeline for TLC.
EXTENDS JobPipeline, TLC

\* All jobs belong to one data subject.
OneOwner == [j \in Jobs |-> CHOOSE o \in Owners : TRUE]

\* Processes of a pool are interchangeable (used by the safety runs only).
PoolSymmetry == Permutations(Workers) \cup Permutations(Dispatchers)
=============================================================================
