---------------------------- MODULE MCBucketTree ----------------------------
(* Three buckets under a tree of two levels; two keys share a bucket. *)
EXTENDS BucketTree

OneValue == {<<1>>}

\* All keys are UTF-8, or the last one is not.
SameKey == [k \in Keys |-> k]
ChangedKey == [k \in Keys |-> IF k = 3 THEN 7 ELSE k]

\* The state without the history variables.
NoHistory == <<mode, tableVars, nodeVars, batch, disk, commits, lost>>
=============================================================================
