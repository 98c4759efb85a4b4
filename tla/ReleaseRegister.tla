-------------------------- MODULE ReleaseRegister ---------------------------
(***************************************************************************)
(* What the release of one config file promises its clients: a register    *)
(* whose every change, a publish or a delete, is one atomic step that      *)
(* moves the version up by exactly one.  A client that holds version v    *)
(* therefore sees any later change as a version above v.                   *)
(***************************************************************************)
EXTENDS Naturals

CONSTANTS Contents, NoContent

VARIABLE rel   \* [row, deleted, ver, content]

Init == rel = [row |-> FALSE, deleted |-> FALSE, ver |-> 0, content |-> NoContent]

\* The first publish creates the release at version 1; a later one, of a
\* live or of a deleted release, writes the next version.
Publish(v) ==
    rel' = [row |-> TRUE, deleted |-> FALSE,
            ver |-> IF rel.row THEN rel.ver + 1 ELSE 1, content |-> v]

\* A live release is marked deleted under the next version.
Delete ==
    /\ rel.row /\ ~rel.deleted
    /\ rel' = [rel EXCEPT !.deleted = TRUE, !.ver = @ + 1]

Next == (\E v \in Contents : Publish(v)) \/ Delete

Spec == Init /\ [][Next]_rel

=============================================================================
