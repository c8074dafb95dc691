----------------------------- MODULE FlatTrees ------------------------------
(***************************************************************************)
(* Flat parsing trees (ParsingTree2 of parsing/parser.h): the sequence of  *)
(* the nodes in preorder, each with the number of its descendants.         *)
(* Whether a tree owns its nodes or views another's is left out.           *)
(***************************************************************************)
EXTENDS Naturals, Sequences

CONSTANTS
    TreeVars,   \* the labels for which is_var holds
    TypeOfVar   \* and their types

ASSUME TypesAssumption == TreeVars \subseteq DOMAIN TypeOfVar

Node(lab, n) == [lab |-> lab, desc |-> n]

View(t, i) == SubSeq(t, i, i + t[i].desc)
NextSibling(t, i) == i + 1 + t[i].desc

(* A node is opened before its children and gets its number when it closes. *)
OpenNode(out, lab) == Append(out, Node(lab, 0))
CloseNode(out, opened) == [out EXCEPT ![opened].desc = Len(out) - opened]

(* Nodes are relabelled in place. *)
Substitute2Simple(t, renaming) ==
    [i \in DOMAIN t |-> IF t[i].lab \in DOMAIN renaming THEN [t[i] EXCEPT !.lab = renaming[@]] ELSE t[i]]

CollectVariables(t) == {t[i].lab : i \in DOMAIN t} \cap TreeVars

=============================================================================
