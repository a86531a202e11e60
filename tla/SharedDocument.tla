--------------------------- MODULE SharedDocument ---------------------------
(***************************************************************************)
(* What preferences.py promises of the preferences file: every process on  *)
(* the host reads and writes one document, an update merges its fields in  *)
(* one step, and a file that cannot be parsed is never taken for an empty  *)
(* one.                                                                    *)
(***************************************************************************)
CONSTANTS
    Field, Value, None,
    Omitted,  \* a field an update does not name
    Update,   \* updates, as they are stored
    Torn      \* what cannot be parsed

VARIABLE doc

Doc == [Field -> Value \cup {None}]
Empty == [f \in Field |-> None]

\* The fields an update names; the others stay.
Merge(d, u) == [f \in Field |-> IF u[f] = Omitted THEN d[f] ELSE u[f]]

Init == doc \in Doc \cup {Torn}

Apply(u) == doc # Torn /\ doc' = Merge(doc, u)

Clear == doc' = Empty

Next == Clear \/ \E u \in Update : Apply(u)

Spec == Init /\ [][Next]_doc
=============================================================================
