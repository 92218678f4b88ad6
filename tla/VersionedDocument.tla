------------------------- MODULE VersionedDocument -------------------------
(***************************************************************************)
(* What the report store promises its writers: a document is a sequence of *)
(* saved contents.  A save adds exactly one content after the last one;    *)
(* nothing saved is ever changed or taken away, and two writers never get  *)
(* the same version number.                                                *)
(***************************************************************************)
EXTENDS Naturals, Sequences

CONSTANT Content        \* what one version of the document may hold

VARIABLE history        \* history[v] is the content saved as version v

Init == history = << >>

Save(c) == history' = Append(history, c)

Next == \E c \in Content : Save(c)

Spec == Init /\ [][Next]_history
=============================================================================
