---------------------------- MODULE MCGraphCache ----------------------------
(* Three cells in a row.  The two narrow boxes overlap, are built for the    *)
(* same tile and radius, and so share a pickle name; the wide box contains   *)
(* both.                                                                     *)
EXTENDS GraphCache, TLC

CONSTANTS c1, c2

MCCall == {c1, c2}
MCFile == {"near", "wide"}
Left == {1, 2}
Right == {2, 3}
Wide == {1, 2, 3}
MCFileOf == [b \in {Left, Right, Wide} |-> IF b = Wide THEN "wide" ELSE "near"]

Asks(need, box, shapes) == [need |-> need, box |-> box, shapes |-> shapes]

\* The left build serves both narrow requests, the right one only its own;
\* the left graph covers what the wide request needs, but has no shapes.
MCNarrowAsks == {Asks({1}, Left, FALSE), Asks({2}, Right, FALSE)}
MCAsk == MCNarrowAsks \cup {Asks({1}, Wide, TRUE)}

\* One run of two questions, which together would be too many states: the
\* narrow requests across the rollover from release 1 to 2, and all three in
\* release 3, which a process reaches before it has built anything.
MCOffered == IF release = 3 THEN MCAsk ELSE MCNarrowAsks
Pristine == mem = {} /\ disk = [p \in Path |-> NoGraph] /\ \A c \in Call : pc[c] = "idle"

MCNext ==
    \/ \E c \in Call :
          \/ \E a \in MCOffered : Start(c, a) \/ Peek(c, a)
          \/ Step(c)
    \/ (release = 2 => Pristine) /\ RollOver
    \/ Restart

MCSpec == Init /\ [][MCNext]_vars

MCSymmetry == Permutations(MCCall)
=============================================================================
