----------------------------- MODULE ClientTree -----------------------------
(***************************************************************************)
(* The tree of steps in the browser (resources/static/ts/tree.ts,          *)
(* tree_editor.ts, tree_workset.ts, op_queue.ts) and the copy of it that   *)
(* the server keeps.  The browser edits its own tree at once and lets a    *)
(* queue of operations repeat every edit on the server, one request at a   *)
(* time.  A move is two operations of that queue, so the user sees, and    *)
(* may click in, the time between them.  The requests that create and      *)
(* destroy steps are not in the queue.                                     *)
(*                                                                         *)
(* Promises that are ready run before the next click or answer: a local    *)
(* operation at the head of the queue never waits.  The asserts of the     *)
(* client only print a line (utils.ts), so they are no guards.             *)
(***************************************************************************)
EXTENDS Integers, FiniteSets, SequencesExt

CONSTANTS
    Nodes,      \* the nodes of the tree, and the steps they stand for
    Root, None,
    Shapes,     \* the trees the client may have loaded, child -> parent
    MaxClicks,  \* bound: the clicks of the user
    MaxLost     \* bound: the requests that never reach the server

ASSUME NodesAssumption  == IsFiniteSet(Nodes) /\ Root \in Nodes /\ None \notin Nodes
(* A parent that was loaded is the root or has a parent. *)
ASSUME ShapesAssumption ==
    \A links \in Shapes : /\ links \in [Nodes -> Nodes \union {None}] /\ links[Root] = None
                          /\ \A n \in Nodes : links[n] \in {None, Root} \/ links[links[n]] # None
ASSUME BoundsAssumption == MaxClicks \in Nat /\ MaxLost \in Nat

VARIABLES
    parent, children,   \* the links of the nodes
    unborn,             \* nodes not created yet
    destroyed,          \* TreeNode.destroyed
    reparenting,        \* the node chosen by the first click on `reparent'
    dying,              \* the calls of kill_node that have not returned, the outermost first
    doomed,             \* the nodes that these have detached
    ops,                \* the chain of promises of the queue
    creating,           \* node -> the parent it shall have, once it is created
    leaving,            \* steps whose request to be destroyed is under way
    steps, stepParent, stepChildren,    \* the tree on the server
    clicks,
    mishaps             \* what went wrong, or was done in a hurry

local  == <<parent, children, unborn, destroyed, reparenting, dying, doomed>>
remote == <<steps, stepParent, stepChildren>>
treeVars == <<local, ops, creating, leaving, remote, clicks, mishaps>>

-----------------------------------------------------------------------------
Op(kind, n)              == [kind |-> kind, node |-> n, to |-> None, idx |-> 0]
Placing(kind, n, p, idx) == [kind |-> kind, node |-> n, to |-> p, idx |-> idx]

(* Array.splice puts a node after the last one when the index is beyond it. *)
Splice(seq, idx, n) == LET i == IF idx > Len(seq) THEN Len(seq) ELSE idx
                       IN InsertAt(seq, i + 1, n)
Index(seq, n) == (CHOOSE i \in DOMAIN seq : seq[i] = n) - 1

(* The node and those above it: what every set that holds n, and the       *)
(* parent of whatever it holds, must hold.                                 *)
Above(up, n) ==
    {m \in Nodes : \A S \in SUBSET Nodes : n \in S /\ (\A x \in S : up[x] \in S \union {None}) => m \in S}

IsDescendant(n, of) == of \in Above(parent, n)

(* The nodes that are on the page: make_subtree_visible and _hidden follow the root. *)
Visible(n) == Root \in Above(parent, n)

(* JavaScript finishes what it has begun before the next click or answer. *)
Waits == dying = <<>> /\ (ops # <<>> => Head(ops).kind \in {"orphan", "reparent"})

Calm == dying = <<>> /\ ops = <<>> /\ leaving = {} /\ \A n \in Nodes : creating[n] = None

(* A click on a node, none of whose buttons the root has *)
Click ==
    /\ Waits /\ clicks < MaxClicks
    /\ clicks' = clicks + 1
    /\ mishaps' = IF Calm THEN mishaps ELSE mishaps \union {"hurried"}

Clickable == {n \in Nodes \ {Root} : Visible(n)}

Enqueue(op) == ops' = Append(ops, op)

TreeInit ==
    /\ parent \in Shapes
    /\ children = [p \in Nodes |-> SetToSeq({n \in Nodes : parent[n] = p})]
    /\ unborn = {n \in Nodes \ {Root} : parent[n] = None}
    /\ steps = Nodes \ unborn /\ stepParent = parent /\ stepChildren = children
    /\ creating = [n \in Nodes |-> None]
    /\ destroyed = {} /\ leaving = {} /\ ops = <<>> /\ clicks = 0 /\ mishaps = {}
    /\ reparenting = None /\ dying = <<>> /\ doomed = <<>>

-----------------------------------------------------------------------------
(* TreeNode.orphan, with what the managers do before: the server is told.  *)
Detach(n) ==
    /\ parent' = [parent EXCEPT ![n] = None]
    /\ children' = [children EXCEPT ![parent[n]] = RemoveAt(@, Index(@, n) + 1)]

(* TreeNode.reparent, with what the managers do after: the server is told the index that was asked for. *)
Attach(n, p, idx) ==
    /\ parent' = [parent EXCEPT ![n] = p]
    /\ children' = [children EXCEPT ![p] = Splice(@, idx, n)]

CreateChild(p) ==
    /\ Click
    /\ \E n \in unborn : unborn' = unborn \ {n} /\ creating' = [creating EXCEPT ![n] = p]
    /\ reparenting' = None
    /\ UNCHANGED <<parent, children, destroyed, dying, doomed, ops, leaving, remote>>

(* step/create is answered; the parent may have been killed in the meantime. *)
Created(n) ==
    /\ Waits /\ creating[n] # None
    /\ creating' = [creating EXCEPT ![n] = None]
    /\ steps' = steps \union {n}
    /\ Attach(n, creating[n], Len(children[creating[n]]))
    /\ Enqueue(Placing("reparent", n, creating[n], Len(children[creating[n]])))
    /\ UNCHANGED <<unborn, destroyed, reparenting, dying, doomed, leaving, stepParent, stepChildren, clicks, mishaps>>

(* kill_node calls itself for the children, then detaches the node.        *)
KillNode(n) ==
    /\ Click
    /\ dying' = <<n>>
    /\ reparenting' = None
    /\ UNCHANGED <<parent, children, unborn, destroyed, doomed, ops, creating, leaving, remote>>

KillChild ==
    /\ dying # <<>> /\ children[Last(dying)] # <<>>
    /\ dying' = Append(dying, Head(children[Last(dying)]))
    /\ UNCHANGED <<parent, children, unborn, destroyed, reparenting, doomed, ops, creating, leaving, remote, clicks, mishaps>>

(* A node that was killed is destroyed when the queue has come so far.     *)
AfterQueue_Before(queue, gone) == [i \in DOMAIN gone |-> Op("leave", gone[i])] \o queue
AfterQueue(queue, gone) == queue \o [i \in DOMAIN gone |-> Op("leave", gone[i])]

KillLeaf ==
    LET n    == Last(dying)
        gone == Append(doomed, n)
    IN /\ dying # <<>> /\ children[n] = <<>>
       /\ Detach(n)
       /\ destroyed' = destroyed \union {n}
       /\ dying' = Front(dying)
       /\ IF Len(dying) > 1
          THEN doomed' = gone /\ ops' = Append(ops, Op("orphan", n))
          ELSE doomed' = <<>> /\ ops' = AfterQueue(Append(ops, Op("orphan", n)), gone)
       /\ UNCHANGED <<unborn, reparenting, creating, leaving, remote, clicks, mishaps>>

(* move_up and move_down choose the new index at the click. *)
Move(n, up) ==
    LET siblings == children[parent[n]]
        idx      == Index(siblings, n)
    IN /\ Click
       /\ IF up THEN idx > 0 ELSE idx + 1 < Len(siblings)
       /\ Enqueue(Placing("detach", n, parent[n], IF up THEN idx - 1 ELSE idx + 1))
       /\ reparenting' = None
       /\ UNCHANGED <<parent, children, unborn, destroyed, dying, doomed, creating, leaving, remote>>

AtTheEnd == -1

(* The first click chooses a node, the second one its new parent. *)
Reparent(n) ==
    /\ Click
    /\ reparenting' = IF reparenting = None THEN n ELSE None
    /\ IF /\ reparenting # None /\ {reparenting, n} \intersect destroyed = {}
          /\ ~IsDescendant(n, reparenting)
       THEN Enqueue(Placing("detach", reparenting, n, AtTheEnd))
       ELSE UNCHANGED ops
    /\ UNCHANGED <<parent, children, unborn, destroyed, dying, doomed, creating, leaving, remote>>

-----------------------------------------------------------------------------
Next1(kind) == dying = <<>> /\ ops # <<>> /\ Head(ops).kind = kind

(* The first half of a move; a node that has no parent now throws. *)
RunDetach ==
    LET op == Head(ops) IN
    /\ Next1("detach")
    /\ IF parent[op.node] = None
       THEN /\ ops' = Tail(ops)
            /\ UNCHANGED <<parent, children>>
       ELSE /\ Detach(op.node)
            /\ ops' = Tail(ops) \o <<Op("orphan", op.node), [op EXCEPT !.kind = "attach"]>>
    /\ UNCHANGED <<unborn, destroyed, reparenting, dying, doomed, creating, leaving, remote, clicks, mishaps>>

(* make_subtree_visible looks for the child before the index that was asked *)
(* for.  The node is a child already, the last one if the index was beyond *)
(* them: two beyond them there is none, and that throws.                   *)
Throws(p, idx) == Visible(p) /\ idx > Len(children[p]) + 1

(* The second half: the new parent, and its children, are those of now. *)
(* The manager that tells the server is called after the one that throws; *)
(* from then on the page may lack nodes that the tree has.                *)
RunAttach ==
    LET op  == Head(ops)
        idx == IF op.idx = AtTheEnd THEN Len(children[op.to]) ELSE op.idx
    IN /\ Next1("attach")
       /\ Attach(op.node, op.to, idx)
       /\ IF Throws(op.to, idx)
          THEN ops' = Tail(ops) /\ mishaps' = mishaps \union {"thrown"}
          ELSE ops' = Append(Tail(ops), Placing("reparent", op.node, op.to, idx)) /\ UNCHANGED mishaps
       /\ UNCHANGED <<unborn, destroyed, reparenting, dying, doomed, creating, leaving, remote, clicks>>

(* after_queue resolves and the request to destroy the step is sent. *)
RunLeave ==
    /\ Next1("leave")
    /\ leaving' = leaving \union {Head(ops).node}
    /\ ops' = Tail(ops)
    /\ UNCHANGED <<local, creating, remote, clicks, mishaps>>

-----------------------------------------------------------------------------
(* The server answers: Step::orphan, reparent and destroy, which refuse or do it. *)
Refuse == mishaps' = mishaps \union {"refused"} /\ UNCHANGED remote

AnswerOrphan ==
    LET n == Head(ops).node IN
    /\ Next1("orphan")
    /\ IF n \in steps /\ stepParent[n] # None
       THEN /\ stepChildren' = [stepChildren EXCEPT ![stepParent[n]] = RemoveAt(@, Index(@, n) + 1)]
            /\ stepParent' = [stepParent EXCEPT ![n] = None]
            /\ UNCHANGED <<steps, mishaps>>
       ELSE Refuse
    /\ ops' = Tail(ops)
    /\ UNCHANGED <<local, creating, leaving, clicks>>

StepAncestors(n) == IF n = None THEN {} ELSE Above(stepParent, n)

WithChild_First(seq, idx, n) == InsertAt(seq, 1, n)
WithChild(seq, idx, n) == InsertAt(seq, idx + 1, n)

AnswerReparent ==
    LET n == Head(ops).node p == Head(ops).to idx == Head(ops).idx IN
    /\ Next1("reparent")
    /\ IF /\ {n, p} \subseteq steps /\ stepParent[n] = None
          /\ idx <= Len(stepChildren[p]) /\ n \notin StepAncestors(stepParent[p])
       THEN /\ stepParent' = [stepParent EXCEPT ![n] = p]
            /\ stepChildren' = [stepChildren EXCEPT ![p] = WithChild(@, idx, n)]
            /\ UNCHANGED <<steps, mishaps>>
       ELSE Refuse
    /\ ops' = Tail(ops)
    /\ UNCHANGED <<local, creating, leaving, clicks>>

AnswerDestroy(n) ==
    /\ Waits /\ n \in leaving
    /\ leaving' = leaving \ {n}
    /\ IF n \in steps /\ stepParent[n] = None /\ stepChildren[n] = <<>>
       THEN steps' = steps \ {n} /\ UNCHANGED <<stepParent, stepChildren, mishaps>>
       ELSE Refuse
    /\ UNCHANGED <<local, ops, creating, clicks>>

(* A request that never arrives: catch_all prints the error and the chain goes on. *)
Lose ==
    /\ Waits /\ ops # <<>> /\ MaxLost > 0 /\ "lost" \notin mishaps
    /\ ops' = Tail(ops)
    /\ mishaps' = mishaps \union {"lost"}
    /\ UNCHANGED <<local, creating, leaving, remote, clicks>>

TreeNext ==
    \/ \E p \in {n \in Nodes : Visible(n)} : CreateChild(p)
    \/ \E n \in Nodes : Created(n)
    \/ \E n \in Clickable : KillNode(n) \/ Reparent(n)
    \/ \E n \in Clickable, up \in BOOLEAN : Move(n, up)
    \/ KillChild \/ KillLeaf
    \/ RunDetach \/ RunAttach \/ RunLeave
    \/ AnswerOrphan \/ AnswerReparent \/ Lose
    \/ \E n \in Nodes : AnswerDestroy(n)

TreeSpec == TreeInit /\ [][TreeNext]_treeVars

-----------------------------------------------------------------------------
(* Once the queue is empty and every answer has come, the server has the   *)
(* tree that the user sees, and no step more, unless a request was lost or *)
(* refused, or a move threw before its request: then the client has only   *)
(* printed a line.                                                         *)
TreesAgree ==
    Calm /\ mishaps \intersect {"lost", "refused", "thrown"} = {} =>
        /\ steps = Nodes \ (unborn \union destroyed)
        /\ \A n \in steps : stepParent[n] = parent[n] /\ stepChildren[n] = children[n]

(* For a user who waits for the queue before each click nothing is refused *)
(* and no move throws.  One who does not may kill siblings between the     *)
(* halves of a move, or kill the parent of a node that is being created or *)
(* moved.                                                                  *)
PatienceRewarded ==
    mishaps \intersect {"refused", "thrown"} # {} => mishaps \intersect {"hurried", "lost"} # {}

=============================================================================
