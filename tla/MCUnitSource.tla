---------------------------- MODULE MCUnitSource ----------------------------
(* Small instances of UnitSource: two upstream releases, t1 and t2, where   *)
(* t2 follows t1, and one local patch p1.                                   *)
EXTENDS UnitSource

CONSTANTS a1, b1, c1, p1, e1

AllChanges == {a1, b1, c1, p1, e1}
T1 == <<a1>>
T2 == <<a1, b1>>
OneTag == {T1}
TwoTags == {T1, T2}
NoPatches == {<<>>}
OnePatch == {<<p1>>}
NoBranch == {<<>>}
\* The upstream branch, when one is declared, runs ahead of both releases.
WithBranch == {<<>>, <<a1, b1, c1>>}

=============================================================================
