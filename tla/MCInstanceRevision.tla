------------------------- MODULE MCInstanceRevision -------------------------
(* Model-checking instance of InstanceRevision: one service with two       *)
(* instances, so its bucket holds several, and a revision channel small    *)
(* enough to fill.                                                         *)
EXTENDS InstanceRevision

CONSTANTS i1, i2, s1, w1, w2

MCInstances == {i1, i2}
MCServices == {s1}
MCInsSvc == (i1 :> s1) @@ (i2 :> s1)
MCInstances1 == {i1}
MCInsSvc1 == i1 :> s1
\* A registration is healthy, or healthy and isolated: isolation must
\* suppress health in the counts and the revision.
MCHealthFlags == {<<TRUE, FALSE>>, <<TRUE, TRUE>>}
=============================================================================
