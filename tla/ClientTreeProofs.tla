-------------------------- MODULE ClientTreeProofs --------------------------
(***************************************************************************)
(* The server follows the browser (TreesAgree), and for a user who waits   *)
(* nothing is refused or throws (PatienceRewarded), for any tree, number   *)
(* of clicks and order of answers.                                         *)
(*                                                                         *)
(* Nothing can be said of the server's tree in a step alone: what it lacks *)
(* is still in the queue.  So the invariant says that the queue leads from *)
(* the tree of the server to that of the client (OnItsWay): there is a     *)
(* path of trees, one more than there are operations, and each operation   *)
(* that the server will accept takes it from one tree to the next.  An     *)
(* answer cuts the path at its beginning, an edit of the client makes it   *)
(* longer at its end.  The steps that exist are followed through what is   *)
(* being created and destroyed (Tracked); the other conjuncts say that a   *)
(* node is only ever in one of these stages.                               *)
(*                                                                         *)
(* As long as nothing went wrong the server accepts every operation on the *)
(* path.  This needs what the queue of a user who waits looks like         *)
(* (Patient): one node is created, or moved, or one tree is killed, and    *)
(* the trees have not changed otherwise since the click.                   *)
(***************************************************************************)
EXTENDS ClientTree, ChildLists

Operations ==
    [kind : {"detach", "attach", "orphan", "reparent", "leave"}, node : Nodes, to : Nodes \union {None}, idx : Int]

TreeTypeOK ==
    /\ parent \in [Nodes -> Nodes \union {None}] /\ children \in [Nodes -> Seq(Nodes)]
    /\ unborn \subseteq Nodes /\ destroyed \subseteq Nodes /\ reparenting \in Nodes \union {None}
    /\ dying \in Seq(Nodes) /\ doomed \in Seq(Nodes)
    /\ ops \in Seq(Operations)
    /\ \A i \in DOMAIN ops :
          /\ ops[i].kind \in {"detach", "attach", "reparent"} => ops[i].to \in Nodes /\ ops[i].idx >= -1
          /\ ops[i].kind = "reparent" => ops[i].idx >= 0
    /\ creating \in [Nodes -> Nodes \union {None}]
    /\ leaving \subseteq Nodes /\ steps \subseteq Nodes
    /\ mishaps \subseteq {"hurried", "lost", "refused", "thrown"}

(* Both ends of the links of the client agree. *)
NodesLinked ==
    \A p \in Nodes : /\ IsInjective(children[p])
                     /\ \A c \in Nodes : c \in ToSet(children[p]) <=> parent[c] = p

(* Whoever is destroyed, not born or not yet attached has no parent. *)
Loose ==
    \A n \in Nodes : /\ n \in destroyed => parent[n] = None /\ n \notin unborn /\ creating[n] = None
                     /\ n \in unborn => parent[n] = None /\ creating[n] = None
                     /\ creating[n] # None => parent[n] = None

(* A node is moved by one operation at a time, and leaves once. *)
Queued ==
    /\ leaving \subseteq destroyed
    /\ \A i \in DOMAIN ops :
          /\ ops[i].kind = "attach" => /\ parent[ops[i].node] = None /\ creating[ops[i].node] = None
                                       /\ ops[i].node \notin destroyed \union unborn
          /\ ops[i].kind = "leave" => ops[i].node \in destroyed \ leaving
    /\ \A i, j \in DOMAIN ops :
          ops[i].kind = ops[j].kind /\ ops[i].kind \in {"attach", "leave"} /\ ops[i].node = ops[j].node => i = j

(* The calls of kill_node go down the tree. *)
Killing ==
    /\ \A i \in DOMAIN dying : /\ parent[dying[i]] # None
                               /\ i > 1 => parent[dying[i]] = dying[i - 1]
    /\ dying = <<>> => doomed = <<>>
    /\ IsInjective(doomed)
    /\ ToSet(doomed) \subseteq destroyed \ leaving
    /\ \A i \in DOMAIN ops : ops[i].kind = "leave" => ops[i].node \notin ToSet(doomed)

ToLeave == leaving \union ToSet(doomed) \union {ops[i].node : i \in {j \in DOMAIN ops : ops[j].kind = "leave"}}

(* The steps of the server *)
Tracked ==
    mishaps \intersect {"lost", "refused", "thrown"} = {} =>
       steps = {n \in Nodes \ unborn : creating[n] = None /\ (n \in destroyed => n \in ToLeave)}

-----------------------------------------------------------------------------
(* The queue leads from the tree of the server to that of the client. *)
Tree(up, lists) == [parent |-> up, children |-> lists]
Server == Tree(stepParent, stepChildren)
Client == Tree(parent, children)

Orphaned(s, n) ==
    Tree([s.parent EXCEPT ![n] = None], [s.children EXCEPT ![s.parent[n]] = RemoveAt(@, Index(@, n) + 1)])
Reparented(s, n, p, idx) == Tree([s.parent EXCEPT ![n] = p], [s.children EXCEPT ![p] = WithChild(@, idx, n)])

Accepted(op, s) ==
    /\ op.kind = "orphan" => s.parent[op.node] # None
    /\ op.kind = "reparent" => /\ s.parent[op.node] = None /\ op.idx <= Len(s.children[op.to])
                               /\ s.parent[op.to] # None => op.node \notin Above(s.parent, s.parent[op.to])

Leads(wrong, op, s, t) ==
    /\ wrong = {} => Accepted(op, s)
    /\ op.kind = "orphan" /\ s.parent[op.node] # None => t = Orphaned(s, op.node)
    /\ op.kind = "reparent" /\ s.parent[op.node] = None /\ op.idx <= Len(s.children[op.to]) =>
          t = Reparented(s, op.node, op.to, op.idx)
    /\ op.kind \notin {"orphan", "reparent"} => t = s

Follows(wrong, path, from, q, to) ==
    path[0] = from /\ path[Len(q)] = to /\ \A i \in 1..Len(q) : Leads(wrong, q[i], path[i - 1], path[i])

OnItsWay == mishaps \intersect {"lost", "refused", "thrown"} = {} => \E path : Follows(mishaps, path, Server, ops, Client)

TreeIInv == TreeTypeOK /\ NodesLinked /\ Loose /\ Queued /\ Killing /\ Tracked /\ OnItsWay

-----------------------------------------------------------------------------
(* A user who waits *)
Live(n) == n \notin unborn \union destroyed /\ creating[n] = None

(* The root stays where it is. *)
RootStays ==
    /\ parent[Root] = None /\ creating[Root] = None /\ Root \notin unborn \union destroyed /\ reparenting # Root
    /\ \A i \in DOMAIN ops : ops[i].kind \in {"detach", "attach"} => ops[i].node # Root

(* A request about a step comes before the step leaves. *)
Asked ==
    \A i \in DOMAIN ops : ops[i].kind \in {"orphan", "reparent"} =>
       /\ ops[i].node \notin unborn /\ creating[ops[i].node] = None
       /\ ops[i].node \in destroyed =>
             \/ ops[i].node \in ToSet(doomed)
             \/ \E j \in DOMAIN ops : i < j /\ ops[j].kind = "leave" /\ ops[j].node = ops[i].node

(* What the operations of a patient user leave in the queue *)
Fits(op) == op.idx = AtTheEnd \/ op.idx <= Len(children[op.to])
Target(op) == Live(op.to) /\ op.node \notin Above(parent, op.to)

BeingKilled ==
    /\ \A n \in Nodes : creating[n] = None
    /\ \A i \in DOMAIN ops : ops[i].kind \in {"orphan", "leave"}
    /\ \A i, j \in DOMAIN ops : i < j /\ ops[i].kind = "leave" => ops[j].kind = "leave"
    /\ leaving # {} => \A i \in DOMAIN ops : ops[i].kind = "leave"
    /\ dying # <<>> => leaving = {} /\ \A i \in DOMAIN ops : ops[i].kind # "leave"

BeingCreated ==
    /\ ops = <<>>
    /\ \A m, n \in Nodes : creating[m] # None /\ creating[n] # None => m = n
    /\ \A n \in Nodes : creating[n] # None => Live(creating[n])

BeingMoved ==
    /\ \A n \in Nodes : creating[n] = None
    /\ \/ /\ Len(ops) = 1 /\ ops[1].kind = "detach" /\ Target(ops[1]) /\ parent[ops[1].node] # None
          /\ ops[1].idx = AtTheEnd \/ (ops[1].to = parent[ops[1].node] /\ ops[1].idx < Len(children[ops[1].to]))
       \/ /\ Len(ops) \in 1..2 /\ ops[Len(ops)].kind = "attach" /\ Target(ops[Len(ops)]) /\ Fits(ops[Len(ops)])
          /\ Len(ops) = 2 => ops[1].kind = "orphan"
       \/ Len(ops) = 1 /\ ops[1].kind = "reparent" /\ Live(ops[1].to)

Patient ==
    mishaps = {} =>
       /\ \A n \in Nodes : parent[n] # None => Live(parent[n])
       /\ reparenting # None => Calm /\ parent[reparenting] # None
       /\ BeingKilled \/ (dying = <<>> /\ leaving = {} /\ (BeingCreated \/ BeingMoved))

Patience == RootStays /\ Asked /\ Patient /\ PatienceRewarded

-----------------------------------------------------------------------------
(* Queues *)
LEMMA PathShorter ==
    ASSUME NEW wrong, NEW S, NEW q \in Seq(S), q # <<>>, NEW path, NEW from, NEW to, Follows(wrong, path, from, q, to)
    PROVE  \E path2 : Follows(wrong, path2, path[1], Tail(q), to)
<1> DEFINE path2 == [i \in Nat |-> path[i + 1]]
<1>1. Tail(q) \in Seq(S) /\ Len(Tail(q)) = Len(q) - 1 /\ \A i \in 1..Len(Tail(q)) : Tail(q)[i] = q[i + 1]
  BY HeadTailProperties
<1>2. Len(q) \in Nat /\ Len(q) > 0
  BY EmptySeq
<1>3. path2[0] = path[1] /\ path2[Len(Tail(q))] = to
  BY <1>1, <1>2 DEF Follows
<1>4. ASSUME NEW i \in 1..Len(Tail(q)) PROVE Leads(wrong, Tail(q)[i], path2[i - 1], path2[i])
  <2>1. i + 1 \in 1..Len(q) /\ (i + 1) - 1 = i /\ i \in Nat /\ i - 1 \in Nat /\ (i - 1) + 1 = i
    BY <1>1, <1>2
  <2>2. Leads(wrong, q[i + 1], path[i], path[i + 1])
    BY <2>1 DEF Follows
  <2>3. path2[i - 1] = path[i] /\ path2[i] = path[i + 1]
    BY <2>1
  <2> QED  BY <1>1, <2>2, <2>3
<1> HIDE DEF path2
<1> QED  BY <1>3, <1>4 DEF Follows

LEMMA PathLonger ==
    ASSUME NEW wrong, NEW S, NEW q \in Seq(S), NEW op \in S, NEW path, NEW from, NEW to, NEW further,
           Follows(wrong, path, from, q, to), Leads(wrong, op, to, further)
    PROVE  \E path2 : Follows(wrong, path2, from, Append(q, op), further)
<1> DEFINE n == Len(q)
           path2 == [i \in Nat |-> IF i <= n THEN path[i] ELSE further]
           r == Append(q, op)
<1>1. r \in Seq(S) /\ Len(r) = n + 1 /\ r[n + 1] = op /\ \A i \in 1..n : r[i] = q[i]
  BY AppendProperties
<1>2. n \in Nat
  OBVIOUS
<1>3. \A i \in Nat : path2[i] = IF i <= n THEN path[i] ELSE further
  OBVIOUS
<1>5. path[n] = to /\ path[0] = from /\ \A i \in 1..n : Leads(wrong, q[i], path[i - 1], path[i])
  BY DEF Follows
<1> HIDE DEF path2, n, r
<1>6. path2[0] = from /\ path2[Len(r)] = further /\ path2[n] = to
  BY <1>1, <1>2, <1>3, <1>5
<1>7. ASSUME NEW i \in 1..Len(r) PROVE Leads(wrong, r[i], path2[i - 1], path2[i])
  <2>1. CASE i = n + 1
    <3>1. r[i] = op /\ path2[i - 1] = to /\ path2[i] = further
      BY <1>1, <1>2, <1>6, <2>1
    <3> QED  BY <3>1
  <2>2. CASE i \in 1..n
    <3>1. r[i] = q[i] /\ path2[i - 1] = path[i - 1] /\ path2[i] = path[i]
      BY <1>1, <1>2, <1>3, <2>2
    <3> QED  BY <1>5, <2>2, <3>1
  <2> QED  BY <1>1, <1>2, <2>1, <2>2
<1> QED  BY <1>6, <1>7 DEF Follows, r

LEMMA TwoAppended ==
    ASSUME NEW wrong, NEW S, NEW q \in Seq(S), NEW a \in S, NEW b \in S
    PROVE  q \o <<a, b>> = Append(Append(q, a), b)
<1> DEFINE r == q \o <<a, b>>
           q1 == Append(q, a)
           s == Append(q1, b)
<1>1. <<a, b>> \in Seq(S) /\ Len(<<a, b>>) = 2 /\ <<a, b>>[1] = a /\ <<a, b>>[2] = b
  OBVIOUS
<1>2. r \in Seq(S) /\ Len(r) = Len(q) + 2 /\ \A i \in 1..(Len(q) + 2) : r[i] = IF i <= Len(q) THEN q[i] ELSE <<a, b>>[i - Len(q)]
  BY <1>1, ConcatProperties
<1>3. q1 \in Seq(S) /\ Len(q1) = Len(q) + 1 /\ q1[Len(q) + 1] = a /\ \A i \in 1..Len(q) : q1[i] = q[i]
  BY AppendProperties
<1> HIDE DEF q1
<1>4. s \in Seq(S) /\ Len(s) = Len(q1) + 1 /\ s[Len(q1) + 1] = b /\ \A i \in 1..Len(q1) : s[i] = q1[i]
  BY <1>3, AppendProperties
<1> HIDE DEF r, s
<1>5. Len(q) \in Nat /\ Len(r) = Len(s)
  BY <1>2, <1>3, <1>4
<1>6. ASSUME NEW i \in 1..Len(r) PROVE r[i] = s[i]
  <2>1. CASE i \in 1..Len(q)
    BY <1>2, <1>3, <1>4, <1>5, <2>1
  <2>2. CASE i = Len(q) + 1
    <3>1. s[i] = a
      BY <1>3, <1>4, <1>5, <2>2
    <3>2. r[i] = <<a, b>>[1]
      BY <1>2, <1>5, <2>2
    <3> QED  BY <1>1, <3>1, <3>2
  <2>3. CASE i = Len(q) + 2
    <3>1. s[i] = b
      BY <1>3, <1>4, <1>5, <2>3
    <3>2. r[i] = <<a, b>>[2]
      BY <1>2, <1>5, <2>3
    <3> QED  BY <1>1, <3>1, <3>2
  <2> QED  BY <1>2, <1>5, <2>1, <2>2, <2>3
<1>7. r = s
  BY <1>2, <1>4, <1>5, <1>6, SeqEqual
<1> QED  BY <1>7 DEF r, s, q1

LEMMA PathEasier ==
    ASSUME NEW wrong, NEW worse, NEW path, NEW from, NEW q, NEW to, Follows(wrong, path, from, q, to), worse = {} => wrong = {}
    PROVE  Follows(worse, path, from, q, to)
BY DEF Follows, Leads

(* Operations that ask nothing of the server *)
LEMMA PathIdle ==
    ASSUME NEW wrong, NEW S, NEW q \in Seq(S), NEW r \in Seq(S), NEW path, NEW from, NEW to, Follows(wrong, path, from, q, to),
           \A i \in 1..Len(r) : r[i].kind = "leave"
    PROVE  \E path2 : Follows(wrong, path2, from, q \o r, to)
<1> DEFINE n == Len(q)
           m == Len(r)
           path2 == [i \in Nat |-> IF i <= n THEN path[i] ELSE to]
           s == q \o r
<1>1. s \in Seq(S) /\ Len(s) = n + m /\ \A i \in 1..(n + m) : s[i] = IF i <= n THEN q[i] ELSE r[i - n]
  BY ConcatProperties
<1>2. n \in Nat /\ m \in Nat
  OBVIOUS
<1>3. \A i \in Nat : path2[i] = IF i <= n THEN path[i] ELSE to
  OBVIOUS
<1>5. path[n] = to /\ path[0] = from /\ \A i \in 1..n : Leads(wrong, q[i], path[i - 1], path[i])
  BY DEF Follows
<1>4. \A i \in 1..m : r[i].kind = "leave"
  OBVIOUS
<1> HIDE DEF path2, n, m, s
<1>6. path2[0] = from /\ path2[Len(s)] = to
  <2>1. n + m \in Nat /\ 0 \in Nat /\ 0 <= n /\ (n + m <= n => n + m = n)
    BY <1>2
  <2>2. path2[n + m] = IF n + m <= n THEN path[n + m] ELSE to
    BY <1>3, <2>1
  <2>3. path2[0] = path[0]
    BY <1>3, <2>1
  <2> QED  BY <1>1, <1>5, <2>1, <2>2, <2>3
<1>7. ASSUME NEW i \in 1..Len(s) PROVE Leads(wrong, s[i], path2[i - 1], path2[i])
  <2>1. CASE i > n
    <3>0. i \in 1..(n + m) /\ i \in Nat /\ i - 1 \in Nat /\ i - n \in 1..m
      BY <1>1, <1>2, <2>1
    <3>2. s[i] = r[i - n]
      BY <1>1, <1>2, <2>1, <3>0
    <3>3. path2[i] = to
      BY <1>2, <1>3, <2>1, <3>0
    <3>4. path2[i - 1] = to
      <4>1. i - 1 <= n => i - 1 = n
        BY <1>2, <2>1, <3>0
      <4>2. path2[i - 1] = IF i - 1 <= n THEN path[i - 1] ELSE to
        BY <1>3, <3>0
      <4> QED  BY <1>5, <4>1, <4>2
    <3>1. s[i] = r[i - n] /\ i - n \in 1..m /\ path2[i - 1] = to /\ path2[i] = to
      BY <3>0, <3>2, <3>3, <3>4
    <3> QED  BY <1>4, <3>1 DEF Leads, Accepted
  <2>2. CASE i \in 1..n
    <3>1. s[i] = q[i] /\ path2[i - 1] = path[i - 1] /\ path2[i] = path[i]
      BY <1>1, <1>2, <1>3, <2>2
    <3> QED  BY <1>5, <2>2, <3>1
  <2> QED  BY <1>1, <1>2, <2>1, <2>2
<1> QED  BY <1>6, <1>7 DEF Follows, s

-----------------------------------------------------------------------------
(* The tree of the client *)
LEMMA Placed ==
    ASSUME NEW S, NEW seq \in Seq(S), NEW n \in ToSet(seq)
    PROVE  Index(seq, n) + 1 \in 1..Len(seq) /\ seq[Index(seq, n) + 1] = n
<1> DEFINE k == CHOOSE i \in DOMAIN seq : seq[i] = n
<1>1. \E i \in DOMAIN seq : seq[i] = n
  BY DEF ToSet
<1>2. k \in DOMAIN seq /\ seq[k] = n
  BY <1>1
<1>3. DOMAIN seq = 1..Len(seq)
  OBVIOUS
<1>4. Index(seq, n) = k - 1
  BY DEF Index
<1> HIDE DEF k
<1>5. k \in 1..Len(seq) /\ (k - 1) + 1 = k
  BY <1>2, <1>3
<1> QED  BY <1>2, <1>4, <1>5

LEMMA DetachedNode ==
    ASSUME TreeTypeOK, NodesLinked, NEW n \in Nodes, parent[n] # None, Detach(n)
    PROVE  /\ parent' \in [Nodes -> Nodes \union {None}] /\ children' \in [Nodes -> Seq(Nodes)]
           /\ \A m \in Nodes : parent'[m] = IF m = n THEN None ELSE parent[m]
           /\ NodesLinked'
           /\ Client' = Orphaned(Client, n)
           /\ Len(children'[parent[n]]) = Len(children[parent[n]]) - 1
<1> DEFINE p == parent[n]
           q == children[p]
<1>1. p \in Nodes /\ q \in Seq(Nodes) /\ IsInjective(q) /\ n \in ToSet(q)
  BY DEF TreeTypeOK, NodesLinked
<1>2. Index(q, n) + 1 \in 1..Len(q) /\ q[Index(q, n) + 1] = n
  BY <1>1, Placed
<1>3. RemoveAt(q, Index(q, n) + 1) \in Seq(Nodes) /\ IsInjective(RemoveAt(q, Index(q, n) + 1))
      /\ ToSet(RemoveAt(q, Index(q, n) + 1)) = ToSet(q) \ {n}
      /\ Len(RemoveAt(q, Index(q, n) + 1)) = Len(q) - 1
  BY <1>1, <1>2, Erased
<1>4. parent' = [parent EXCEPT ![n] = None] /\ children' = [children EXCEPT ![p] = RemoveAt(q, Index(q, n) + 1)]
  BY <1>1 DEF Detach, TreeTypeOK
<1>5. parent' \in [Nodes -> Nodes \union {None}] /\ children' \in [Nodes -> Seq(Nodes)]
  BY <1>1, <1>3, <1>4 DEF TreeTypeOK
<1>6. \A m \in Nodes : parent'[m] = IF m = n THEN None ELSE parent[m]
  BY <1>4 DEF TreeTypeOK
<1>7. ASSUME NEW x \in Nodes PROVE IsInjective(children'[x]) /\ \A c \in Nodes : c \in ToSet(children'[x]) <=> parent'[c] = x
  <2>1. CASE x = p
    <3>1. children'[x] = RemoveAt(q, Index(q, n) + 1)
      BY <1>1, <1>4, <2>1 DEF TreeTypeOK
    <3>2. \A c \in Nodes : c \in ToSet(q) <=> parent[c] = x
      BY <2>1 DEF NodesLinked
    <3> QED  BY <1>3, <1>6, <2>1, <3>1, <3>2, NodesAssumption
  <2>2. CASE x # p
    <3>1. children'[x] = children[x]
      BY <1>4, <2>2 DEF TreeTypeOK
    <3> QED  BY <1>6, <2>2, <3>1, NodesAssumption DEF NodesLinked
  <2> QED  BY <2>1, <2>2
<1>8. Client' = Orphaned(Client, n)
  BY DEF Client, Orphaned, Tree, Detach
<1>9. children'[p] = RemoveAt(q, Index(q, n) + 1)
  BY <1>1, <1>4 DEF TreeTypeOK
<1> QED  BY <1>3, <1>5, <1>6, <1>7, <1>8, <1>9 DEF NodesLinked

LEMMA AttachedNode ==
    ASSUME TreeTypeOK, NodesLinked, NEW n \in Nodes, NEW p \in Nodes, NEW idx \in Nat, parent[n] = None, Attach(n, p, idx)
    PROVE  /\ parent' \in [Nodes -> Nodes \union {None}] /\ children' \in [Nodes -> Seq(Nodes)]
           /\ \A m \in Nodes : parent'[m] = IF m = n THEN p ELSE parent[m]
           /\ NodesLinked'
           /\ idx <= Len(children[p]) => Client' = Reparented(Client, n, p, idx)
<1> DEFINE q == children[p]
           i == (IF idx > Len(q) THEN Len(q) ELSE idx) + 1
<1>1. q \in Seq(Nodes) /\ IsInjective(q) /\ n \notin ToSet(q)
  BY NodesAssumption DEF TreeTypeOK, NodesLinked
<1>2. i \in 1..(Len(q) + 1) /\ Splice(q, idx, n) = InsertAt(q, i, n)
  BY <1>1 DEF Splice
<1> HIDE DEF i
<1>3. /\ InsertAt(q, i, n) \in Seq(Nodes) /\ IsInjective(InsertAt(q, i, n))
      /\ ToSet(InsertAt(q, i, n)) = ToSet(q) \union {n}
  BY <1>1, <1>2, Inserted
<1>4. parent' = [parent EXCEPT ![n] = p] /\ children' = [children EXCEPT ![p] = InsertAt(q, i, n)]
  BY <1>1, <1>2 DEF Attach, TreeTypeOK
<1>5. parent' \in [Nodes -> Nodes \union {None}] /\ children' \in [Nodes -> Seq(Nodes)]
  BY <1>1, <1>3, <1>4 DEF TreeTypeOK
<1>6. \A m \in Nodes : parent'[m] = IF m = n THEN p ELSE parent[m]
  BY <1>4 DEF TreeTypeOK
<1>7. ASSUME NEW x \in Nodes PROVE IsInjective(children'[x]) /\ \A c \in Nodes : c \in ToSet(children'[x]) <=> parent'[c] = x
  <2>1. CASE x = p
    <3>1. children'[x] = InsertAt(q, i, n)
      BY <1>4, <2>1 DEF TreeTypeOK
    <3>2. \A c \in Nodes : c \in ToSet(q) <=> parent[c] = x
      BY <2>1 DEF NodesLinked
    <3> QED  BY <1>3, <1>6, <2>1, <3>1, <3>2, NodesAssumption
  <2>2. CASE x # p
    <3>1. children'[x] = children[x]
      BY <1>4, <2>2 DEF TreeTypeOK
    <3> QED  BY <1>6, <2>2, <3>1, NodesAssumption DEF NodesLinked
  <2> QED  BY <2>1, <2>2
<1>8. ASSUME idx <= Len(q) PROVE Client' = Reparented(Client, n, p, idx)
  <2>1. i = idx + 1
    BY <1>1, <1>8 DEF i
  <2>2. Client' = Tree([parent EXCEPT ![n] = p], [children EXCEPT ![p] = InsertAt(q, idx + 1, n)])
    BY <1>4, <2>1 DEF Client, Tree
  <2>3. [children EXCEPT ![p] = WithChild(@, idx, n)] = [children EXCEPT ![p] = InsertAt(q, idx + 1, n)]
    BY DEF WithChild, TreeTypeOK
  <2> QED  BY <2>2, <2>3 DEF Client, Reparented, Tree
<1> QED  BY <1>5, <1>6, <1>7, <1>8 DEF NodesLinked

-----------------------------------------------------------------------------
LEMMA AppendedOp ==
    ASSUME NEW q \in Seq(Operations), NEW op \in Operations
    PROVE  LET r == Append(q, op) IN
           /\ r \in Seq(Operations)
           /\ \A i \in DOMAIN r : (i \in DOMAIN q /\ r[i] = q[i]) \/ (i = Len(q) + 1 /\ r[i] = op)
           /\ \A i \in DOMAIN q : i \in DOMAIN r /\ r[i] = q[i]
           /\ Len(q) + 1 \in DOMAIN r /\ r[Len(q) + 1] = op
<1> DEFINE r == Append(q, op)
<1>1. r \in Seq(Operations) /\ Len(r) = Len(q) + 1 /\ r[Len(q) + 1] = op /\ \A i \in 1..Len(q) : r[i] = q[i]
  BY AppendProperties
<1>2. DOMAIN r = 1..(Len(q) + 1) /\ DOMAIN q = 1..Len(q) /\ Len(q) \in Nat
  BY <1>1
<1> HIDE DEF r
<1>3. \A i \in DOMAIN r : (i \in DOMAIN q /\ r[i] = q[i]) \/ (i = Len(q) + 1 /\ r[i] = op)
  BY <1>1, <1>2
<1>4. \A i \in DOMAIN q : i \in DOMAIN r /\ r[i] = q[i]
  BY <1>1, <1>2
<1>5. Len(q) + 1 \in DOMAIN r
  BY <1>2
<1> QED  BY <1>1, <1>3, <1>4, <1>5 DEF r

LEMMA OpsTyped ==
    ASSUME TreeTypeOK
    PROVE  \A i \in DOMAIN ops : ops[i] \in Operations /\ ops[i].node \in Nodes
<1>1. ops \in Seq(Operations)
  BY DEF TreeTypeOK
<1>2. \A i \in DOMAIN ops : ops[i] \in Operations
  BY <1>1
<1> QED  BY <1>2 DEF Operations

LEMMA FirstOp ==
    ASSUME NEW q \in Seq(Operations), q # <<>>
    PROVE  /\ 1 \in DOMAIN q /\ Head(q) = q[1] /\ q[1] \in Operations
           /\ Tail(q) \in Seq(Operations)
           /\ \A i \in DOMAIN Tail(q) : i + 1 \in DOMAIN q /\ i + 1 # 1 /\ Tail(q)[i] = q[i + 1]
           /\ \A i \in DOMAIN q : i # 1 => i - 1 \in DOMAIN Tail(q) /\ Tail(q)[i - 1] = q[i]
           /\ \A i, j \in DOMAIN Tail(q) : i + 1 = j + 1 => i = j
<1>1. Tail(q) \in Seq(Operations) /\ Len(Tail(q)) = Len(q) - 1 /\ \A i \in 1..Len(Tail(q)) : Tail(q)[i] = q[i + 1]
  BY HeadTailProperties
<1>2. Len(q) \in Nat /\ Len(q) > 0 /\ DOMAIN q = 1..Len(q) /\ DOMAIN Tail(q) = 1..(Len(q) - 1)
  BY <1>1, EmptySeq
<1>3. Head(q) = q[1] /\ q[1] \in Operations
  BY <1>2
<1>4. \A i \in DOMAIN Tail(q) : i + 1 \in DOMAIN q /\ i + 1 # 1 /\ Tail(q)[i] = q[i + 1]
  BY <1>1, <1>2
<1>5. ASSUME NEW i \in DOMAIN q, i # 1 PROVE i - 1 \in DOMAIN Tail(q) /\ Tail(q)[i - 1] = q[i]
  <2>1. i - 1 \in DOMAIN Tail(q) /\ (i - 1) + 1 = i
    BY <1>2, <1>5
  <2> QED  BY <1>4, <2>1
<1>6. \A i, j \in DOMAIN Tail(q) : i + 1 = j + 1 => i = j
  BY <1>2
<1> QED  BY <1>1, <1>2, <1>3, <1>4, <1>5, <1>6

LEMMA Clicked ==
    ASSUME TreeTypeOK, Click
    PROVE  /\ mishaps' \subseteq {"hurried", "lost", "refused", "thrown"}
           /\ mishaps' \intersect {"lost", "refused", "thrown"} = mishaps \intersect {"lost", "refused", "thrown"}
           /\ mishaps' = {} => mishaps = {} /\ Calm
           /\ dying = <<>>
BY DEF TreeTypeOK, Click, Waits

(* A node on the page is the root or has a parent. *)
LEMMA ParentOfVisible ==
    ASSUME TreeTypeOK, NEW n \in Clickable
    PROVE  n \in Nodes /\ parent[n] # None
<1>1. n \in Nodes /\ n # Root /\ Root \in Above(parent, n)
  BY DEF Clickable, Visible
<1>2. {n} \in SUBSET Nodes
  BY <1>1
<1>3. ASSUME parent[n] = None PROVE FALSE
  BY <1>1, <1>2, <1>3 DEF Above
<1> QED  BY <1>1, <1>3

LEMMA AboveClosed ==
    ASSUME NEW up \in [Nodes -> Nodes \union {None}], NEW n \in Nodes
    PROVE  n \in Above(up, n) /\ \A x \in Above(up, n) : up[x] \in Above(up, n) \union {None}
<1>1. n \in Above(up, n)
  BY DEF Above
<1>2. ASSUME NEW x \in Above(up, n), up[x] # None PROVE up[x] \in Above(up, n)
  <2>1. x \in Nodes /\ up[x] \in Nodes
    BY <1>2 DEF Above
  <2>2. ASSUME NEW S \in SUBSET Nodes, n \in S, \A y \in S : up[y] \in S \union {None} PROVE up[x] \in S
    <3>1. x \in S
      BY <2>2 DEF Above
    <3> QED  BY <1>2, <2>2, <3>1
  <2> QED  BY <2>1, <2>2 DEF Above
<1> QED  BY <1>1, <1>2

LEMMA AboveLeast ==
    ASSUME NEW up, NEW n, NEW S \in SUBSET Nodes, n \in S, \A x \in S : up[x] \in S \union {None}
    PROVE  Above(up, n) \subseteq S
BY DEF Above

LEMMA AboveUp ==
    ASSUME NEW up \in [Nodes -> Nodes \union {None}], NEW n \in Nodes, up[n] # None
    PROVE  Above(up, up[n]) \subseteq Above(up, n)
<1>1. up[n] \in Above(up, n) /\ \A x \in Above(up, n) : up[x] \in Above(up, n) \union {None}
  BY AboveClosed
<1>2. Above(up, n) \in SUBSET Nodes
  BY DEF Above
<1> QED  BY <1>1, <1>2, AboveLeast

(* A step whose parents lead to the root does not descend from itself. *)
LEMMA NoLoop ==
    ASSUME NEW up \in [Nodes -> Nodes \union {None}], NEW n \in Nodes, up[n] # None, Root \in Above(up, n), up[Root] = None
    PROVE  n \notin Above(up, up[n])
<1> SUFFICES ASSUME n \in Above(up, up[n]) PROVE FALSE
  OBVIOUS
<1> DEFINE C == {m \in Nodes : up[m] # None /\ n \in Above(up, up[m])}
<1>1. n \in C
  OBVIOUS
<1>2. ASSUME NEW m \in C PROVE up[m] \in C \union {None}
  <2> DEFINE x == up[m]
  <2>1. x \in Nodes /\ n \in Above(up, x)
    OBVIOUS
  <2>2. CASE n = x
    BY <1>1, <2>2
  <2>3. CASE n # x /\ up[x] = None
    <3>1. {x} \in SUBSET Nodes /\ x \in {x} /\ \A y \in {x} : up[y] \in {x} \union {None}
      BY <2>1, <2>3
    <3>2. Above(up, x) \subseteq {x}
      BY <3>1, AboveLeast
    <3> QED  BY <2>1, <2>3, <3>2
  <2>4. CASE up[x] # None /\ n # x
    <3> DEFINE S == Above(up, up[x]) \union {x}
    <3>1. up[x] \in Nodes
      BY <2>1, <2>4
    <3>2. /\ up[x] \in Above(up, up[x]) /\ \A y \in Above(up, up[x]) : up[y] \in Above(up, up[x]) \union {None}
      BY <3>1, AboveClosed
    <3>3. S \in SUBSET Nodes /\ x \in S /\ \A y \in S : up[y] \in S \union {None}
      BY <2>1, <3>2 DEF Above
    <3> HIDE DEF S
    <3>4. Above(up, x) \subseteq S
      BY <3>3, AboveLeast
    <3>5. n \in Above(up, up[x])
      BY <2>1, <2>4, <3>4 DEF S
    <3> QED  BY <2>1, <2>4, <3>5
  <2> QED  BY <2>2, <2>3, <2>4
<1>3. Above(up, n) \subseteq C
  BY <1>1, <1>2, AboveLeast
<1> QED  BY <1>3

LEMMA Childless ==
    ASSUME NEW up \in [Nodes -> Nodes \union {None}], NEW n \in Nodes, NEW m \in Nodes, m # n, \A x \in Nodes : up[x] # n
    PROVE  n \notin Above(up, m)
<1> DEFINE S == Nodes \ {n}
<1>1. m \in S /\ \A x \in S : up[x] \in S \union {None}
  OBVIOUS
<1>2. Above(up, m) \subseteq S
  BY <1>1, AboveLeast
<1> QED  BY <1>2

LEMMA CreationAccepted ==
    ASSUME TreeIInv, Patience, mishaps = {}, NEW n \in Nodes, creating[n] # None
    PROVE  LET p == creating[n] IN
           /\ ops = <<>> /\ dying = <<>> /\ leaving = {} /\ Live(p) /\ p \in Nodes /\ p # n
           /\ \A m \in Nodes : m # n => creating[m] = None
           /\ parent[p] # None => n \notin Above(parent, parent[p])
<1> DEFINE p == creating[n]
<1>1. p \in Nodes /\ parent \in [Nodes -> Nodes \union {None}]
  BY DEF TreeIInv, TreeTypeOK
<1>2. Patient
  BY DEF Patience
<1>3. dying = <<>> /\ leaving = {} /\ BeingCreated
  BY <1>2 DEF Patient, BeingKilled, BeingMoved
<1>4. ops = <<>> /\ Live(p) /\ \A m \in Nodes : m # n => creating[m] = None
  BY <1>1, <1>3 DEF BeingCreated
<1>5. p # n
  BY <1>4 DEF Live
<1>6. \A x \in Nodes : parent[x] # n
  BY <1>2, NodesAssumption DEF Patient, Live
<1>7. ASSUME parent[p] # None PROVE n \notin Above(parent, parent[p])
  BY <1>1, <1>6, <1>7, Childless
<1> QED  BY <1>1, <1>3, <1>4, <1>5, <1>7

LEMMA MoveAccepted ==
    ASSUME TreeIInv, Patience, mishaps = {}, ops # <<>>, Head(ops).kind = "attach"
    PROVE  LET op == Head(ops) IN
           /\ Len(ops) = 1 /\ dying = <<>> /\ leaving = {} /\ Target(op) /\ Fits(op) /\ \A n \in Nodes : creating[n] = None
           /\ parent[op.to] # None => op.node \notin Above(parent, parent[op.to])
<1> DEFINE op == Head(ops)
<1>1. parent \in [Nodes -> Nodes \union {None}] /\ ops \in Seq(Operations)
  BY DEF TreeIInv, TreeTypeOK
<1>2. 1 \in DOMAIN ops /\ op = ops[1] /\ op \in Operations
  BY <1>1, FirstOp
<1>3. op.to \in Nodes
  BY <1>2 DEF TreeIInv, TreeTypeOK
<1>4. Patient /\ ~BeingKilled /\ ~BeingCreated
  BY <1>2 DEF Patience, BeingKilled, BeingCreated
<1>5. dying = <<>> /\ leaving = {} /\ BeingMoved
  BY <1>4 DEF Patient
<1>6. Len(ops) = 1 /\ Target(op) /\ Fits(op) /\ \A n \in Nodes : creating[n] = None
  BY <1>2, <1>5 DEF BeingMoved
<1>7. ASSUME parent[op.to] # None PROVE op.node \notin Above(parent, parent[op.to])
  BY <1>1, <1>3, <1>6, <1>7, AboveUp DEF Target
<1> QED  BY <1>5, <1>6, <1>7

LEMMA WayStays ==
    ASSUME OnItsWay, mishaps' \intersect {"lost", "refused", "thrown"} = mishaps \intersect {"lost", "refused", "thrown"},
           mishaps' = {} => mishaps = {}, UNCHANGED <<ops, Server, Client>>
    PROVE  OnItsWay'
<1> SUFFICES ASSUME mishaps' \intersect {"lost", "refused", "thrown"} = {}
             PROVE  \E path : Follows(mishaps', path, Server', ops', Client')
  BY DEF OnItsWay
<1>1. PICK path : Follows(mishaps, path, Server, ops, Client)
  BY DEF OnItsWay
<1>2. Follows(mishaps', path, Server, ops, Client)
  BY <1>1, PathEasier
<1> QED  BY <1>2

LEMMA IdleGrows ==
    ASSUME TreeTypeOK, OnItsWay, NEW op \in Operations, op.kind \notin {"orphan", "reparent"},
           mishaps' \intersect {"lost", "refused", "thrown"} = mishaps \intersect {"lost", "refused", "thrown"}, mishaps' = {} => mishaps = {},
           ops' = Append(ops, op), UNCHANGED <<Server, Client>>
    PROVE  OnItsWay'
<1> SUFFICES ASSUME mishaps' \intersect {"lost", "refused", "thrown"} = {}
             PROVE  \E path : Follows(mishaps', path, Server', ops', Client')
  BY DEF OnItsWay
<1>1. PICK path : Follows(mishaps, path, Server, ops, Client)
  BY DEF OnItsWay
<1>2. Leads(mishaps, op, Client, Client)
  BY DEF Leads, Accepted
<1>3. ops \in Seq(Operations)
  BY DEF TreeTypeOK
<1>4. PICK path2 : Follows(mishaps, path2, Server, Append(ops, op), Client)
  BY <1>1, <1>2, <1>3, PathLonger
<1>5. Follows(mishaps', path2, Server, Append(ops, op), Client)
  BY <1>4, PathEasier
<1> QED  BY <1>5

LEMMA CreateChildKeeps ==
    ASSUME TreeIInv, NEW p \in Nodes, CreateChild(p)
    PROVE  TreeIInv'
<1> USE DEF TreeIInv
<1>1. PICK n \in unborn : unborn' = unborn \ {n} /\ creating' = [creating EXCEPT ![n] = p]
  BY DEF CreateChild
<1>2. UNCHANGED <<parent, children, destroyed, dying, doomed, ops, leaving, steps, stepParent, stepChildren>> /\ reparenting' = None
  BY DEF CreateChild, remote
<1>3. n \in Nodes /\ p # None /\ \A m \in Nodes : creating'[m] = IF m = n THEN p ELSE creating[m]
  BY <1>1, NodesAssumption DEF TreeTypeOK
<1>4. Click
  BY DEF CreateChild
<1>5. TreeTypeOK'
  BY <1>1, <1>2, <1>4, Clicked DEF TreeTypeOK
<1>6. NodesLinked'
  BY <1>2 DEF NodesLinked
<1>7. Loose'
  BY <1>1, <1>2, <1>3 DEF Loose
<1>8. Queued'
  <2> QED  BY <1>1, <1>2, <1>3, OpsTyped DEF Queued
<1>9. Killing'
  BY <1>2 DEF Killing
<1>10. Tracked'
  <2>1. ToLeave' = ToLeave
    BY <1>2 DEF ToLeave
  <2> QED  BY <1>1, <1>2, <1>3, <1>4, <2>1, Clicked DEF Tracked, Loose
<1>11. OnItsWay'
  <2>1. UNCHANGED <<ops, Server, Client>>
    BY <1>2 DEF Server, Client
  <2> QED  BY <1>4, <2>1, Clicked, WayStays
<1> QED  BY <1>5, <1>6, <1>7, <1>8, <1>9, <1>10, <1>11

LEMMA KillNodeKeeps ==
    ASSUME TreeIInv, NEW n \in Clickable, KillNode(n)
    PROVE  TreeIInv'
<1> USE DEF TreeIInv
<1>1. n \in Nodes /\ parent[n] # None
  BY ParentOfVisible
<1>2. /\ UNCHANGED <<parent, children, unborn, destroyed, doomed, ops, creating, leaving, steps, stepParent, stepChildren>>
      /\ reparenting' = None /\ dying' = <<n>> /\ Click
  BY DEF KillNode, remote
<1>3. dying' \in Seq(Nodes) /\ DOMAIN dying' = {1} /\ dying'[1] = n /\ dying' # <<>>
  BY <1>1, <1>2
<1>5. TreeTypeOK'
  BY <1>2, <1>3, Clicked DEF TreeTypeOK
<1>6. NodesLinked' /\ Loose' /\ Queued'
  BY <1>2 DEF NodesLinked, Loose, Queued
<1>9. Killing'
  BY <1>1, <1>2, <1>3 DEF Killing
<1>10. Tracked'
  <2>1. ToLeave' = ToLeave
    BY <1>2 DEF ToLeave
  <2> QED  BY <1>2, <2>1, Clicked DEF Tracked
<1>11. OnItsWay'
  <2>1. UNCHANGED <<ops, Server, Client>>
    BY <1>2 DEF Server, Client
  <2> QED  BY <1>2, <2>1, Clicked, WayStays
<1> QED  BY <1>5, <1>6, <1>9, <1>10, <1>11

LEMMA KillChildKeeps ==
    ASSUME TreeIInv, KillChild
    PROVE  TreeIInv'
<1> USE DEF TreeIInv
<1> DEFINE l == Last(dying)
           c == Head(children[l])
<1>1. /\ UNCHANGED <<parent, children, unborn, destroyed, reparenting, doomed, ops, creating, leaving, steps, stepParent, stepChildren, clicks, mishaps>>
      /\ dying' = Append(dying, c) /\ dying # <<>> /\ children[l] # <<>>
  BY DEF KillChild, remote
<1>2. dying \in Seq(Nodes) /\ Len(dying) \in Nat /\ Len(dying) > 0 /\ l = dying[Len(dying)] /\ l \in Nodes
  BY <1>1, EmptySeq DEF TreeTypeOK, Last
<1>3. children[l] \in Seq(Nodes) /\ c \in Nodes /\ c \in ToSet(children[l])
  <2>1. children[l] \in Seq(Nodes)
    BY <1>2 DEF TreeTypeOK
  <2>2. c = children[l][1] /\ 1 \in DOMAIN children[l]
    BY <1>1, <2>1, EmptySeq
  <2> HIDE DEF c, l
  <2> QED  BY <2>1, <2>2 DEF ToSet
<1>4. parent[c] = l
  BY <1>2, <1>3 DEF NodesLinked
<1> HIDE DEF c, l
<1>5. /\ dying' \in Seq(Nodes) /\ Len(dying') = Len(dying) + 1 /\ dying'[Len(dying) + 1] = c
      /\ \A i \in 1..Len(dying) : dying'[i] = dying[i]
  BY <1>1, <1>2, <1>3, AppendProperties
<1>6. DOMAIN dying' = 1..(Len(dying) + 1) /\ DOMAIN dying = 1..Len(dying)
  BY <1>2, <1>5
<1>7. ASSUME NEW i \in DOMAIN dying' PROVE parent'[dying'[i]] # None /\ (i > 1 => parent'[dying'[i]] = dying'[i - 1])
  <2>1. CASE i = Len(dying) + 1
    <3>1. dying'[i - 1] = l /\ dying'[i] = c
      BY <1>2, <1>5, <2>1
    <3> QED  BY <1>1, <1>2, <1>4, <3>1, NodesAssumption
  <2>2. CASE i \in DOMAIN dying
    <3>1. dying'[i] = dying[i] /\ (i > 1 => dying'[i - 1] = dying[i - 1])
      BY <1>2, <1>5, <1>6, <2>2
    <3> QED  BY <1>1, <2>2, <3>1 DEF Killing
  <2> QED  BY <1>2, <1>6, <2>1, <2>2
<1>8. Killing'
  <2>1. dying' # <<>>
    BY <1>2, <1>5
  <2> QED  BY <1>1, <1>7, <2>1 DEF Killing
<1>9. TreeTypeOK' /\ NodesLinked' /\ Loose' /\ Queued'
  BY <1>1, <1>5 DEF TreeTypeOK, NodesLinked, Loose, Queued
<1>10. Tracked' /\ OnItsWay'
  BY <1>1 DEF Tracked, OnItsWay, Server, Client, ToLeave
<1> QED  BY <1>8, <1>9, <1>10

(* A move begins with an operation of its own. *)
LEMMA MoveQueued ==
    ASSUME TreeIInv, Click, NEW op \in Operations, op.kind = "detach", op.to \in Nodes, op.idx >= -1,
           ops' = Append(ops, op), reparenting' \in Nodes \union {None},
           UNCHANGED <<parent, children, unborn, destroyed, dying, doomed, creating, leaving, remote>>
    PROVE  TreeIInv'
<1> USE DEF TreeIInv
<1>1. UNCHANGED <<parent, children, unborn, destroyed, dying, doomed, creating, leaving, steps, stepParent, stepChildren>>
  BY DEF remote
<1>2. ops \in Seq(Operations)
  BY DEF TreeTypeOK
<1>3. /\ ops' \in Seq(Operations)
      /\ \A i \in DOMAIN ops' : (i \in DOMAIN ops /\ ops'[i] = ops[i]) \/ (i = Len(ops) + 1 /\ ops'[i] = op)
      /\ \A i \in DOMAIN ops : i \in DOMAIN ops' /\ ops'[i] = ops[i]
  BY <1>2, AppendedOp
<1>4. TreeTypeOK'
  BY <1>1, <1>3, Clicked DEF TreeTypeOK
<1>5. NodesLinked' /\ Loose'
  BY <1>1 DEF NodesLinked, Loose
<1>6. Queued'
  BY <1>1, <1>3 DEF Queued
<1>7. Killing'
  BY <1>1, <1>3 DEF Killing
<1>8. Tracked'
  <2>1. ToLeave' = ToLeave
    BY <1>1, <1>3 DEF ToLeave
  <2> QED  BY <1>1, <2>1, Clicked DEF Tracked
<1>9. OnItsWay'
  <2>1. UNCHANGED <<Server, Client>>
    BY <1>1 DEF Server, Client
  <2> QED  BY <2>1, Clicked, IdleGrows
<1> QED  BY <1>4, <1>5, <1>6, <1>7, <1>8, <1>9

LEMMA MoveKeeps ==
    ASSUME TreeIInv, NEW n \in Clickable, NEW up \in BOOLEAN, Move(n, up)
    PROVE  TreeIInv'
<1> DEFINE siblings == children[parent[n]]
           idx == Index(siblings, n)
           op == Placing("detach", n, parent[n], IF up THEN idx - 1 ELSE idx + 1)
<1>1. n \in Nodes /\ parent[n] \in Nodes
  BY ParentOfVisible DEF TreeIInv, TreeTypeOK
<1>2. siblings \in Seq(Nodes) /\ n \in ToSet(siblings)
  BY <1>1 DEF TreeIInv, TreeTypeOK, NodesLinked
<1>3. idx \in Nat
  <2>1. idx + 1 \in 1..Len(siblings) /\ idx = (CHOOSE i \in DOMAIN siblings : siblings[i] = n) - 1
    BY <1>2, Placed DEF Index
  <2>2. \E i \in DOMAIN siblings : siblings[i] = n
    BY <1>2 DEF ToSet
  <2>3. (CHOOSE i \in DOMAIN siblings : siblings[i] = n) \in Int
    BY <1>2, <2>2
  <2> QED  BY <2>1, <2>3
<1> HIDE DEF idx
<1>4. op \in Operations /\ op.kind = "detach" /\ op.to \in Nodes /\ op.idx >= -1
  BY <1>1, <1>3 DEF Placing, Operations
<1>5. ops' = Append(ops, op) /\ Click /\ reparenting' = None
  BY DEF Move, Enqueue, idx
<1>6. UNCHANGED <<parent, children, unborn, destroyed, dying, doomed, creating, leaving, remote>>
  BY DEF Move
<1> HIDE DEF op
<1> QED  BY <1>4, <1>5, <1>6, MoveQueued

LEMMA ReparentKeeps ==
    ASSUME TreeIInv, NEW n \in Clickable, Reparent(n)
    PROVE  TreeIInv'
<1> DEFINE op == Placing("detach", reparenting, n, AtTheEnd)
<1>1. n \in Nodes
  BY DEF Clickable
<1>2. reparenting' \in Nodes \union {None} /\ Click
  BY <1>1 DEF Reparent
<1>3. UNCHANGED <<parent, children, unborn, destroyed, dying, doomed, creating, leaving, remote>>
  BY DEF Reparent
<1>4. CASE reparenting # None /\ ops' = Append(ops, op)
  <2>1. op \in Operations /\ op.kind = "detach" /\ op.to \in Nodes /\ op.idx >= -1
    BY <1>1, <1>4 DEF Placing, Operations, AtTheEnd, TreeIInv, TreeTypeOK
  <2> HIDE DEF op
  <2> QED  BY <1>2, <1>3, <1>4, <2>1, MoveQueued
<1>5. CASE ops' = ops
  <2> USE DEF TreeIInv
  <2>1. UNCHANGED <<parent, children, unborn, destroyed, dying, doomed, ops, creating, leaving, steps, stepParent, stepChildren>>
    BY <1>3, <1>5 DEF remote
  <2>2. TreeTypeOK'
    BY <1>2, <2>1, Clicked DEF TreeTypeOK
  <2>3. NodesLinked' /\ Loose' /\ Queued' /\ Killing'
    BY <2>1 DEF NodesLinked, Loose, Queued, Killing
  <2>4. ToLeave' = ToLeave /\ Server' = Server /\ Client' = Client
    BY <2>1 DEF ToLeave, Server, Client
  <2>5. Tracked' /\ OnItsWay'
    BY <1>2, <2>1, <2>4, Clicked, WayStays DEF Tracked
  <2> QED  BY <2>2, <2>3, <2>5
<1> QED  BY <1>4, <1>5 DEF Reparent, Enqueue

-----------------------------------------------------------------------------
LEMMA CreatedKeeps ==
    ASSUME TreeIInv, Patience, NEW n \in Nodes, Created(n)
    PROVE  TreeIInv'
<1> USE DEF TreeIInv
<1> DEFINE p == creating[n]
           idx == Len(children[p])
           op == Placing("reparent", n, p, idx)
<1>1. p \in Nodes /\ idx \in Nat /\ parent[n] = None /\ n \notin destroyed /\ n \notin unborn
  BY DEF Created, TreeTypeOK, Loose
<1>2. /\ Attach(n, p, idx) /\ ops' = Append(ops, op) /\ dying = <<>> /\ doomed = <<>>
      /\ steps' = steps \union {n}
      /\ UNCHANGED <<unborn, destroyed, reparenting, dying, doomed, leaving, stepParent, stepChildren, clicks, mishaps>>
  BY DEF Created, Enqueue, Waits, Killing
<1>3. \A m \in Nodes : creating'[m] = IF m = n THEN None ELSE creating[m]
  BY DEF Created, TreeTypeOK
<1>c. creating' \in [Nodes -> Nodes \union {None}]
  BY DEF Created, TreeTypeOK
<1>4. op \in Operations /\ op.kind = "reparent" /\ op.to \in Nodes /\ op.idx >= 0
      /\ op.node = n /\ op.to = p /\ op.idx = idx
  BY <1>1 DEF Placing, Operations
<1> HIDE DEF op, idx
<1>5. ops \in Seq(Operations)
  BY DEF TreeTypeOK
<1>6. /\ ops' \in Seq(Operations)
      /\ \A i \in DOMAIN ops' : (i \in DOMAIN ops /\ ops'[i] = ops[i]) \/ (i = Len(ops) + 1 /\ ops'[i] = op)
      /\ \A i \in DOMAIN ops : i \in DOMAIN ops' /\ ops'[i] = ops[i]
  BY <1>2, <1>4, <1>5, AppendedOp
<1>7. /\ parent' \in [Nodes -> Nodes \union {None}] /\ children' \in [Nodes -> Seq(Nodes)]
      /\ \A m \in Nodes : parent'[m] = IF m = n THEN p ELSE parent[m]
      /\ NodesLinked'
      /\ idx <= Len(children[p]) => Client' = Reparented(Client, n, p, idx)
  BY <1>1, <1>2, AttachedNode
<1>8. TreeTypeOK'
  <2>1. \A i \in DOMAIN ops' :
           /\ ops'[i].kind \in {"detach", "attach", "reparent"} => ops'[i].to \in Nodes /\ ops'[i].idx >= -1
           /\ ops'[i].kind = "reparent" => ops'[i].idx >= 0
    <3>1. op.idx >= -1
      BY <1>4 DEF Operations
    <3> QED  BY <1>4, <1>6, <3>1 DEF TreeTypeOK
  <2>2. steps' \subseteq Nodes
    BY <1>2 DEF TreeTypeOK
  <2> QED  BY <1>2, <1>6, <1>7, <1>c, <2>1, <2>2 DEF TreeTypeOK
<1>9. Loose'
  BY <1>1, <1>2, <1>3, <1>7 DEF Loose
<1>10. Queued'
  <2>1. ASSUME NEW i \in DOMAIN ops', ops'[i].kind = "attach"
        PROVE  /\ parent'[ops'[i].node] = None /\ creating'[ops'[i].node] = None
               /\ ops'[i].node \notin (destroyed \union unborn)'
    <3>1. i \in DOMAIN ops /\ ops'[i] = ops[i]
      BY <1>4, <1>6, <2>1
    <3>2. ops[i].node \in Nodes /\ creating[ops[i].node] = None /\ parent[ops[i].node] = None /\ ops[i].node \notin destroyed \union unborn
      BY <2>1, <3>1, OpsTyped DEF Queued
    <3>3. ops[i].node # n
      BY <1>1, <3>2, NodesAssumption
    <3> QED  BY <1>2, <1>3, <1>7, <3>1, <3>2, <3>3
  <2>2. ASSUME NEW i \in DOMAIN ops', ops'[i].kind = "leave"
        PROVE  ops'[i].node \in (destroyed \ leaving)'
    BY <1>2, <1>4, <1>6, <2>2 DEF Queued
  <2>3. ASSUME NEW i \in DOMAIN ops', NEW j \in DOMAIN ops',
               ops'[i].kind = ops'[j].kind, ops'[i].kind \in {"attach", "leave"}, ops'[i].node = ops'[j].node
        PROVE  i = j
    BY <1>4, <1>6, <2>3 DEF Queued
  <2>4. (leaving \subseteq destroyed)'
    BY <1>2 DEF Queued
  <2> QED  BY <2>1, <2>2, <2>3, <2>4 DEF Queued
<1>11. Killing'
  BY <1>2, <1>4, <1>6 DEF Killing, ToSet, IsInjective
<1>12. Tracked'
  <2>1. ToLeave' = ToLeave
    BY <1>2, <1>4, <1>6 DEF ToLeave
  <2> QED  BY <1>1, <1>2, <1>3, <2>1 DEF Tracked
<1>13. OnItsWay'
  <2> SUFFICES ASSUME mishaps' \intersect {"lost", "refused", "thrown"} = {}
               PROVE  \E path : Follows(mishaps', path, Server', ops', Client')
    BY DEF OnItsWay
  <2>1. PICK path : Follows(mishaps, path, Server, ops, Client)
    BY <1>2 DEF OnItsWay
  <2>2. Client' = Reparented(Client, n, p, idx)
    BY <1>1, <1>7 DEF idx
  <2>3. Leads(mishaps, op, Client, Client')
    <3>1. mishaps = {} => Accepted(op, Client)
      <4>1. mishaps = {} /\ parent[p] # None => n \notin Above(parent, parent[p])
        BY CreationAccepted DEF Created
      <4>2. Client.parent = parent /\ Client.children = children
        BY DEF Client, Tree
      <4> QED  BY <1>1, <1>4, <4>1, <4>2 DEF Accepted, idx
    <3> QED  BY <1>4, <2>2, <3>1 DEF Leads
  <2>4. Server' = Server
    BY <1>2 DEF Server
  <2>5. \E path2 : Follows(mishaps, path2, Server, Append(ops, op), Client')
    BY <1>4, <1>5, <2>1, <2>3, PathLonger
  <2> QED  BY <1>2, <2>4, <2>5
<1> QED  BY <1>7, <1>8, <1>9, <1>10, <1>11, <1>12, <1>13

-----------------------------------------------------------------------------
(* An operation at the head that the client only waits for *)
LEMMA PoppedOp ==
    ASSUME TreeIInv, ops # <<>>, Head(ops).kind # "leave", ops' = Tail(ops), UNCHANGED <<local, creating, leaving>>,
           steps' \subseteq Nodes, mishaps' \subseteq {"hurried", "lost", "refused", "thrown"}
    PROVE  TreeTypeOK' /\ NodesLinked' /\ Loose' /\ Queued' /\ Killing' /\ ToLeave' = ToLeave
<1> USE DEF TreeIInv
<1>1. ops \in Seq(Operations) /\ dying' = dying /\ doomed' = doomed /\ leaving' = leaving /\ creating' = creating
      /\ UNCHANGED <<parent, children, unborn, destroyed, reparenting>>
  BY DEF TreeTypeOK, local
<1>2. /\ 1 \in DOMAIN ops /\ Head(ops) = ops[1]
      /\ ops' \in Seq(Operations)
      /\ \A i \in DOMAIN ops' : i + 1 \in DOMAIN ops /\ i + 1 # 1 /\ ops'[i] = ops[i + 1]
      /\ \A i \in DOMAIN ops : i # 1 => i - 1 \in DOMAIN ops' /\ ops'[i - 1] = ops[i]
      /\ \A i, j \in DOMAIN ops' : i + 1 = j + 1 => i = j
  BY <1>1, FirstOp
<1>3. TreeTypeOK'
  <2>1. \A i \in DOMAIN ops' :
           /\ ops'[i].kind \in {"detach", "attach", "reparent"} => ops'[i].to \in Nodes /\ ops'[i].idx >= -1
           /\ ops'[i].kind = "reparent" => ops'[i].idx >= 0
    BY <1>2 DEF TreeTypeOK
  <2>2. ops' \in Seq(Operations)
    BY <1>2
  <2> QED  BY <1>1, <2>1, <2>2 DEF TreeTypeOK
<1>4. NodesLinked' /\ Loose'
  BY <1>1 DEF NodesLinked, Loose
<1>5. Queued'
  <2>1. \A i \in DOMAIN ops' :
           /\ ops'[i].kind = "attach" => /\ parent[ops'[i].node] = None /\ creating[ops'[i].node] = None
                                         /\ ops'[i].node \notin destroyed \union unborn
           /\ ops'[i].kind = "leave" => ops'[i].node \in destroyed \ leaving
    BY <1>2 DEF Queued
  <2>2. ASSUME NEW i \in DOMAIN ops', NEW j \in DOMAIN ops',
               ops'[i].kind = ops'[j].kind, ops'[i].kind \in {"attach", "leave"}, ops'[i].node = ops'[j].node
        PROVE  i = j
    <3>1. i + 1 = j + 1
      BY <1>2, <2>2 DEF Queued
    <3> QED  BY <1>2, <3>1
  <2> QED  BY <1>1, <2>1, <2>2 DEF Queued
<1>6. Killing'
  BY <1>1, <1>2 DEF Killing
<1>7. ToLeave' = ToLeave
  <2>1. \A i \in DOMAIN ops : ops[i].kind = "leave" => i # 1
    BY <1>2
  <2>2. {ops'[i].node : i \in {j \in DOMAIN ops' : ops'[j].kind = "leave"}}
           \subseteq {ops[i].node : i \in {j \in DOMAIN ops : ops[j].kind = "leave"}}
    BY <1>2
  <2>3. {ops[i].node : i \in {j \in DOMAIN ops : ops[j].kind = "leave"}}
           \subseteq {ops'[i].node : i \in {j \in DOMAIN ops' : ops'[j].kind = "leave"}}
    <3>1. ASSUME NEW i \in DOMAIN ops, ops[i].kind = "leave"
          PROVE  ops[i].node \in {ops'[k].node : k \in {j \in DOMAIN ops' : ops'[j].kind = "leave"}}
      <4>1. i - 1 \in DOMAIN ops' /\ ops'[i - 1] = ops[i]
        BY <1>2, <2>1, <3>1
      <4> QED  BY <3>1, <4>1
    <3> QED  BY <3>1
  <2> QED  BY <1>1, <2>2, <2>3 DEF ToLeave
<1> QED  BY <1>3, <1>4, <1>5, <1>6, <1>7

LEMMA StillAsked ==
    ASSUME TreeIInv, Asked, UNCHANGED <<unborn, destroyed, doomed, creating>>, ops' \in Seq(Operations),
           \A i \in DOMAIN ops : i # 1 => i - 1 \in DOMAIN ops' /\ ops'[i - 1] = ops[i],
           NEW i \in DOMAIN ops', i + 1 \in DOMAIN ops, ops'[i] = ops[i + 1], ops'[i].kind \in {"orphan", "reparent"}
    PROVE  /\ ops'[i].node \notin unborn' /\ creating'[ops'[i].node] = None
           /\ ops'[i].node \in destroyed' =>
                 \/ ops'[i].node \in ToSet(doomed')
                 \/ \E j \in DOMAIN ops' : i < j /\ ops'[j].kind = "leave" /\ ops'[j].node = ops'[i].node
<1> DEFINE n == ops'[i].node
<1>1. /\ n \notin unborn /\ creating[n] = None
      /\ n \in destroyed =>
            \/ n \in ToSet(doomed)
            \/ \E j \in DOMAIN ops : i + 1 < j /\ ops[j].kind = "leave" /\ ops[j].node = n
  BY DEF Asked
<1>2. DOMAIN ops = 1..Len(ops) /\ DOMAIN ops' = 1..Len(ops') /\ Len(ops) \in Nat /\ Len(ops') \in Nat
  BY DEF TreeIInv, TreeTypeOK
<1>3. ASSUME NEW j \in DOMAIN ops, i + 1 < j, ops[j].kind = "leave", ops[j].node = n
      PROVE  \E k \in DOMAIN ops' : i < k /\ ops'[k].kind = "leave" /\ ops'[k].node = n
  <2>1. j # 1 /\ i < j - 1
    BY <1>2, <1>3
  <2>2. j - 1 \in DOMAIN ops' /\ ops'[j - 1] = ops[j]
    BY <2>1
  <2> HIDE DEF n
  <2> QED  BY <1>3, <2>1, <2>2
<1>4. ToSet(doomed') = ToSet(doomed)
  OBVIOUS
<1> HIDE DEF n
<1>5. /\ n \notin unborn' /\ creating'[n] = None
      /\ n \in destroyed' =>
            n \in ToSet(doomed') \/ \E k \in DOMAIN ops' : i < k /\ ops'[k].kind = "leave" /\ ops'[k].node = n
  BY <1>1, <1>3, <1>4
<1> QED  BY <1>5 DEF n

LEMMA PoppedPatience ==
    ASSUME TreeIInv, RootStays, Asked, ops # <<>>, ops' = Tail(ops), UNCHANGED <<local, creating>>
    PROVE  RootStays' /\ Asked'
<1>1. ops \in Seq(Operations) /\ UNCHANGED <<parent, unborn, destroyed, reparenting, doomed>>
  BY DEF TreeIInv, TreeTypeOK, local
<1>2. /\ ops' \in Seq(Operations)
      /\ \A i \in DOMAIN ops' : i + 1 \in DOMAIN ops /\ ops'[i] = ops[i + 1]
      /\ \A i \in DOMAIN ops : i # 1 => i - 1 \in DOMAIN ops' /\ ops'[i - 1] = ops[i]
  BY <1>1, FirstOp
<1>3. RootStays'
  BY <1>1, <1>2 DEF RootStays
<1>4. Asked'
  BY <1>1, <1>2, StillAsked DEF Asked
<1> QED  BY <1>3, <1>4

LEMMA AnswerOrphanKeeps ==
    ASSUME TreeIInv, AnswerOrphan
    PROVE  TreeIInv'
<1> USE DEF TreeIInv
<1> DEFINE n == Head(ops).node
           accepted == n \in steps /\ stepParent[n] # None
<1>1. ops # <<>> /\ Head(ops).kind = "orphan" /\ ops' = Tail(ops) /\ UNCHANGED <<local, creating, leaving>>
  BY DEF AnswerOrphan, Next1
<1>2. CASE accepted
  <2>1. /\ stepChildren' = [stepChildren EXCEPT ![stepParent[n]] = RemoveAt(@, Index(@, n) + 1)]
        /\ stepParent' = [stepParent EXCEPT ![n] = None]
        /\ steps' = steps /\ mishaps' = mishaps
    BY <1>2 DEF AnswerOrphan
  <2>2. TreeTypeOK' /\ NodesLinked' /\ Loose' /\ Queued' /\ Killing' /\ ToLeave' = ToLeave
    BY <1>1, <2>1, PoppedOp DEF TreeTypeOK
  <2>3. Tracked'
    BY <1>1, <2>1, <2>2 DEF Tracked, local
  <2>4. OnItsWay'
    <3> SUFFICES ASSUME mishaps' \intersect {"lost", "refused", "thrown"} = {}
                 PROVE  \E path : Follows(mishaps', path, Server', ops', Client')
      BY DEF OnItsWay
    <3>1. PICK path : Follows(mishaps, path, Server, ops, Client)
      BY <2>1 DEF OnItsWay
    <3>2. ops \in Seq(Operations) /\ 1 \in DOMAIN ops /\ Head(ops) = ops[1] /\ 1 \in 1..Len(ops)
      BY <1>1, FirstOp DEF TreeTypeOK
    <3>3. Leads(mishaps, ops[1], path[0], path[1])
      BY <3>1, <3>2 DEF Follows
    <3>4. path[0] = Server
      BY <3>1 DEF Follows
    <3>5. path[1] = Orphaned(Server, n)
      BY <1>1, <1>2, <3>2, <3>3, <3>4 DEF Leads, Server, Tree
    <3>6. path[1] = Server'
      BY <2>1, <3>5 DEF Server, Orphaned, Tree
    <3>7. Client' = Client
      BY <1>1 DEF Client, local
    <3>8. \E path2 : Follows(mishaps, path2, path[1], Tail(ops), Client)
      BY <1>1, <3>1, <3>2, PathShorter
    <3> QED  BY <1>1, <2>1, <3>6, <3>7, <3>8
  <2> QED  BY <2>2, <2>3, <2>4
<1>3. CASE ~accepted
  <2>1. mishaps' = mishaps \union {"refused"} /\ steps' = steps
    BY <1>3 DEF AnswerOrphan, Refuse, remote
  <2>2. TreeTypeOK' /\ NodesLinked' /\ Loose' /\ Queued' /\ Killing'
    BY <1>1, <2>1, PoppedOp DEF TreeTypeOK
  <2>3. mishaps' \intersect {"lost", "refused", "thrown"} # {}
    BY <2>1
  <2> QED  BY <2>2, <2>3 DEF Tracked, OnItsWay
<1> QED  BY <1>2, <1>3

LEMMA AnswerReparentKeeps ==
    ASSUME TreeIInv, AnswerReparent
    PROVE  TreeIInv'
<1> USE DEF TreeIInv
<1> DEFINE n == Head(ops).node
           p == Head(ops).to
           idx == Head(ops).idx
           accepted == /\ {n, p} \subseteq steps /\ stepParent[n] = None
                       /\ idx <= Len(stepChildren[p]) /\ n \notin StepAncestors(stepParent[p])
<1>1. ops # <<>> /\ Head(ops).kind = "reparent" /\ ops' = Tail(ops) /\ UNCHANGED <<local, creating, leaving>>
  BY DEF AnswerReparent, Next1
<1>2. CASE accepted
  <2>1. /\ stepChildren' = [stepChildren EXCEPT ![p] = WithChild(@, idx, n)]
        /\ stepParent' = [stepParent EXCEPT ![n] = p]
        /\ steps' = steps /\ mishaps' = mishaps
    BY <1>2 DEF AnswerReparent
  <2>2. TreeTypeOK' /\ NodesLinked' /\ Loose' /\ Queued' /\ Killing' /\ ToLeave' = ToLeave
    BY <1>1, <2>1, PoppedOp DEF TreeTypeOK
  <2>3. Tracked'
    BY <1>1, <2>1, <2>2 DEF Tracked, local
  <2>4. OnItsWay'
    <3> SUFFICES ASSUME mishaps' \intersect {"lost", "refused", "thrown"} = {}
                 PROVE  \E path : Follows(mishaps', path, Server', ops', Client')
      BY DEF OnItsWay
    <3>1. PICK path : Follows(mishaps, path, Server, ops, Client)
      BY <2>1 DEF OnItsWay
    <3>2. ops \in Seq(Operations) /\ 1 \in DOMAIN ops /\ Head(ops) = ops[1] /\ 1 \in 1..Len(ops)
      BY <1>1, FirstOp DEF TreeTypeOK
    <3>3. Leads(mishaps, ops[1], path[0], path[1])
      BY <3>1, <3>2 DEF Follows
    <3>4. path[0] = Server
      BY <3>1 DEF Follows
    <3>5. path[1] = Reparented(Server, n, p, idx)
      BY <1>1, <1>2, <3>2, <3>3, <3>4 DEF Leads, Server, Tree
    <3>6. path[1] = Server'
      BY <2>1, <3>5 DEF Server, Reparented, Tree
    <3>7. Client' = Client
      BY <1>1 DEF Client, local
    <3>8. \E path2 : Follows(mishaps, path2, path[1], Tail(ops), Client)
      BY <1>1, <3>1, <3>2, PathShorter
    <3> QED  BY <1>1, <2>1, <3>6, <3>7, <3>8
  <2> QED  BY <2>2, <2>3, <2>4
<1>3. CASE ~accepted
  <2>1. mishaps' = mishaps \union {"refused"} /\ steps' = steps
    BY <1>3 DEF AnswerReparent, Refuse, remote
  <2>2. TreeTypeOK' /\ NodesLinked' /\ Loose' /\ Queued' /\ Killing'
    BY <1>1, <2>1, PoppedOp DEF TreeTypeOK
  <2>3. mishaps' \intersect {"lost", "refused", "thrown"} # {}
    BY <2>1
  <2> QED  BY <2>2, <2>3 DEF Tracked, OnItsWay
<1> QED  BY <1>2, <1>3

LEMMA LoseKeeps ==
    ASSUME TreeIInv, Lose
    PROVE  TreeIInv'
<1> USE DEF TreeIInv
<1>1. /\ ops # <<>> /\ Head(ops).kind # "leave" /\ ops' = Tail(ops) /\ UNCHANGED <<local, creating, leaving>>
      /\ mishaps' = mishaps \union {"lost"} /\ steps' = steps
  BY DEF Lose, Waits, remote
<1>2. TreeTypeOK' /\ NodesLinked' /\ Loose' /\ Queued' /\ Killing'
  BY <1>1, PoppedOp DEF TreeTypeOK
<1> QED  BY <1>1, <1>2 DEF Tracked, OnItsWay

LEMMA AnswerDestroyKeeps ==
    ASSUME TreeIInv, NEW n \in Nodes, AnswerDestroy(n)
    PROVE  TreeIInv'
<1> USE DEF TreeIInv
<1>1. /\ dying = <<>> /\ doomed = <<>> /\ n \in leaving /\ leaving' = leaving \ {n}
      /\ UNCHANGED <<parent, children, unborn, destroyed, reparenting, dying, doomed, ops, creating, clicks>>
  BY DEF AnswerDestroy, Waits, local, Killing
<1>2. CASE steps' = steps \ {n} /\ UNCHANGED <<stepParent, stepChildren, mishaps>>
  <2>1. TreeTypeOK' /\ NodesLinked' /\ Loose' /\ Queued' /\ Killing'
    BY <1>1, <1>2 DEF TreeTypeOK, NodesLinked, Loose, Queued, Killing
  <2>2. n \in destroyed /\ \A m \in Nodes : m # n => (m \in ToLeave' <=> m \in ToLeave)
    <3>1. n \in destroyed
      BY <1>1 DEF Queued
    <3> QED  BY <1>1, <3>1 DEF ToLeave
  <2>3. n \notin ToLeave'
    BY <1>1 DEF ToLeave, Queued, ToSet
  <2>4. Tracked'
    BY <1>1, <1>2, <2>2, <2>3 DEF Tracked, TreeTypeOK
  <2>5. OnItsWay'
    BY <1>1, <1>2 DEF OnItsWay, Server, Client
  <2> QED  BY <2>1, <2>4, <2>5
<1>3. CASE mishaps' = mishaps \union {"refused"} /\ UNCHANGED remote
  <2>1. TreeTypeOK' /\ NodesLinked' /\ Loose' /\ Queued' /\ Killing'
    BY <1>1, <1>3 DEF TreeTypeOK, NodesLinked, Loose, Queued, Killing, remote
  <2> QED  BY <1>3, <2>1 DEF Tracked, OnItsWay
<1> QED  BY <1>2, <1>3 DEF AnswerDestroy, Refuse

-----------------------------------------------------------------------------
(* A leaf is killed; the operations that destroy come after all the others. *)
LEMMA KillLeafKeeps ==
    ASSUME TreeIInv, KillLeaf
    PROVE  TreeIInv' /\ (Patience => Patience')
<1> USE DEF TreeIInv
<1> DEFINE n == Last(dying)
           gone == Append(doomed, n)
           op == Op("orphan", n)
           q == Append(ops, op)
           leaves == [i \in DOMAIN gone |-> Op("leave", gone[i])]
           more == Len(dying) > 1
<1>1. /\ dying # <<>> /\ children[n] = <<>> /\ Detach(n) /\ destroyed' = destroyed \union {n} /\ dying' = Front(dying)
      /\ UNCHANGED <<unborn, reparenting, creating, leaving, steps, stepParent, stepChildren, clicks, mishaps>>
      /\ more => doomed' = gone /\ ops' = q
      /\ ~more => doomed' = <<>> /\ ops' = q \o leaves
  BY DEF KillLeaf, remote, AfterQueue
<1>2. dying \in Seq(Nodes) /\ Len(dying) \in Nat /\ Len(dying) > 0 /\ n = dying[Len(dying)] /\ n \in Nodes
      /\ DOMAIN dying = 1..Len(dying)
  BY <1>1, EmptySeq DEF TreeTypeOK, Last
<1>3. parent[n] # None
  BY <1>2 DEF Killing
<1>4. n \notin destroyed /\ n \notin unborn /\ creating[n] = None /\ n \notin ToSet(doomed) /\ n \notin leaving
      /\ \A i \in DOMAIN ops : ops[i].kind \in {"attach", "leave"} => ops[i].node # n
  BY <1>2, <1>3 DEF Loose, Killing, Queued
<1>5. /\ parent' \in [Nodes -> Nodes \union {None}] /\ children' \in [Nodes -> Seq(Nodes)]
      /\ \A m \in Nodes : parent'[m] = IF m = n THEN None ELSE parent[m]
      /\ NodesLinked'
      /\ Client' = Orphaned(Client, n)
  BY <1>1, <1>2, <1>3, DetachedNode
<1>6. ops \in Seq(Operations) /\ doomed \in Seq(Nodes) /\ Len(ops) \in Nat
  BY DEF TreeTypeOK
<1>7. gone \in Seq(Nodes) /\ IsInjective(gone) /\ ToSet(gone) = ToSet(doomed) \union {n}
  <2>1. /\ gone \in Seq(Nodes) /\ Len(gone) = Len(doomed) + 1 /\ gone[Len(doomed) + 1] = n
        /\ \A i \in 1..Len(doomed) : gone[i] = doomed[i]
    BY <1>2, <1>6, AppendProperties
  <2>2. DOMAIN gone = 1..(Len(doomed) + 1) /\ DOMAIN doomed = 1..Len(doomed) /\ Len(doomed) \in Nat
    BY <1>6, <2>1
  <2> HIDE DEF gone, n
  <2>3. IsInjective(gone)
    BY <1>4, <2>1, <2>2 DEF Killing, IsInjective, ToSet
  <2>4. ToSet(gone) = ToSet(doomed) \union {n}
    BY <2>1, <2>2 DEF ToSet
  <2> QED  BY <2>1, <2>3, <2>4
<1>8. op \in Operations /\ op.kind = "orphan" /\ op.node = n
  BY <1>2 DEF Op, Operations
<1>9. /\ q \in Seq(Operations) /\ Len(q) = Len(ops) + 1
      /\ \A i \in DOMAIN q : (i \in DOMAIN ops /\ q[i] = ops[i]) \/ (i = Len(ops) + 1 /\ q[i] = op)
      /\ \A i \in DOMAIN ops : i \in DOMAIN q /\ q[i] = ops[i]
  <2>1. Len(q) = Len(ops) + 1
    BY <1>6, <1>8, AppendProperties
  <2> HIDE DEF op
  <2> QED  BY <1>6, <1>8, <2>1, AppendedOp
<1>10. /\ leaves \in Seq(Operations) /\ Len(leaves) = Len(gone)
       /\ \A i \in 1..Len(gone) : leaves[i].kind = "leave" /\ leaves[i].node = gone[i]
  <2>1. DOMAIN gone = 1..Len(gone) /\ Len(gone) \in Nat /\ \A i \in 1..Len(gone) : gone[i] \in Nodes
    BY <1>7
  <2> HIDE DEF gone
  <2>2. \A i \in 1..Len(gone) : Op("leave", gone[i]) \in Operations /\ leaves[i] = Op("leave", gone[i])
    BY <2>1 DEF Op, Operations
  <2>3. leaves \in [1..Len(gone) -> Operations]
    BY <2>1, <2>2
  <2>4. leaves \in Seq(Operations) /\ Len(leaves) = Len(gone)
    BY <2>1, <2>3
  <2> QED  BY <2>2, <2>4 DEF Op
<1> HIDE DEF n, gone, op, q, leaves, more
<1>11. /\ ops' \in Seq(Operations)
       /\ \A i \in DOMAIN q : i \in DOMAIN ops' /\ ops'[i] = q[i]
       /\ more => DOMAIN ops' = DOMAIN q
       /\ ~more => /\ \A i \in DOMAIN ops' :
                         \/ i \in DOMAIN q
                         \/ /\ i - Len(q) \in DOMAIN gone
                            /\ ops'[i].kind = "leave" /\ ops'[i].node = gone[i - Len(q)]
                   /\ \A k \in DOMAIN gone : /\ Len(q) + k \in DOMAIN ops'
                                             /\ ops'[Len(q) + k].kind = "leave" /\ ops'[Len(q) + k].node = gone[k]
  <2>1. CASE more
    BY <1>1, <1>9, <2>1
  <2>2. CASE ~more
    <3>1. /\ ops' \in Seq(Operations) /\ Len(ops') = Len(q) + Len(leaves)
          /\ \A i \in 1..(Len(q) + Len(leaves)) : ops'[i] = IF i <= Len(q) THEN q[i] ELSE leaves[i - Len(q)]
      <4>1. ops' = q \o leaves
        BY <1>1, <2>2
      <4>2. q \in Seq(Operations) /\ leaves \in Seq(Operations)
        BY <1>9, <1>10
      <4>3. /\ q \o leaves \in Seq(Operations) /\ Len(q \o leaves) = Len(q) + Len(leaves)
            /\ \A i \in 1..(Len(q) + Len(leaves)) : (q \o leaves)[i] = IF i <= Len(q) THEN q[i] ELSE leaves[i - Len(q)]
        BY <4>2, ConcatProperties
      <4> QED  BY <4>1, <4>3
    <3>2. /\ Len(q) \in Nat /\ Len(gone) \in Nat /\ DOMAIN q = 1..Len(q) /\ DOMAIN gone = 1..Len(gone)
          /\ DOMAIN ops' = 1..(Len(q) + Len(gone))
      BY <1>7, <1>9, <1>10, <3>1
    <3>3. \A i \in DOMAIN q : i \in DOMAIN ops' /\ ops'[i] = q[i]
      BY <1>10, <3>1, <3>2
    <3>4. ASSUME NEW i \in DOMAIN ops', i \notin DOMAIN q
          PROVE  i - Len(q) \in DOMAIN gone /\ ops'[i].kind = "leave" /\ ops'[i].node = gone[i - Len(q)]
      <4>1. i - Len(q) \in 1..Len(gone) /\ ops'[i] = leaves[i - Len(q)]
        BY <1>10, <3>1, <3>2, <3>4
      <4> QED  BY <1>10, <3>2, <4>1
    <3>5. ASSUME NEW k \in DOMAIN gone
          PROVE  /\ Len(q) + k \in DOMAIN ops'
                 /\ ops'[Len(q) + k].kind = "leave" /\ ops'[Len(q) + k].node = gone[k]
      <4>1. Len(q) + k \in DOMAIN ops' /\ Len(q) + k \notin DOMAIN q /\ (Len(q) + k) - Len(q) = k
        BY <3>2
      <4> QED  BY <3>4, <4>1
    <3> QED  BY <2>2, <3>1, <3>3, <3>4, <3>5
  <2> QED  BY <2>1, <2>2
<1>12. \A i \in DOMAIN ops' :
          \/ i \in DOMAIN ops /\ ops'[i] = ops[i]
          \/ ops'[i] = op
          \/ ~more /\ i - Len(q) \in DOMAIN gone /\ ops'[i].kind = "leave" /\ ops'[i].node = gone[i - Len(q)]
  BY <1>9, <1>11
<1>13. \A i \in DOMAIN ops : i \in DOMAIN ops' /\ ops'[i] = ops[i]
  BY <1>9, <1>11
<1>14. \A k \in DOMAIN gone : gone[k] \in ToSet(gone)
  BY DEF ToSet
<1>15. ToSet(doomed)' \subseteq ToSet(gone) /\ (more => ToSet(doomed)' = ToSet(gone)) /\ (~more => ToSet(doomed)' = {})
  BY <1>1 DEF ToSet
<1>16. /\ Len(dying') = Len(dying) - 1 /\ dying' \in Seq(Nodes)
       /\ \A i \in 1..(Len(dying) - 1) : dying'[i] = dying[i]
  <2>1. Front(dying) = SubSeq(dying, 1, Len(dying) - 1)
    BY DEF Front
  <2> QED  BY <1>1, <1>2, <2>1, SubSeqProperties
<1>20. TreeTypeOK'
  <2>1. \A i \in DOMAIN ops' :
           /\ ops'[i].kind \in {"detach", "attach", "reparent"} => ops'[i].to \in Nodes /\ ops'[i].idx >= -1
           /\ ops'[i].kind = "reparent" => ops'[i].idx >= 0
    BY <1>8, <1>12 DEF TreeTypeOK
  <2>2. doomed' \in Seq(Nodes)
    <3>1. <<>> \in Seq(Nodes)
      OBVIOUS
    <3> QED  BY <1>1, <1>7, <3>1
  <2>3. ops' \in Seq(Operations)
    BY <1>11
  <2> QED  BY <1>1, <1>2, <1>5, <1>16, <2>1, <2>2, <2>3 DEF TreeTypeOK
<1>21. Loose'
  BY <1>1, <1>4, <1>5 DEF Loose
<1>22. Queued'
  <2>1. ASSUME NEW i \in DOMAIN ops', ops'[i].kind = "attach"
        PROVE  /\ parent'[ops'[i].node] = None /\ creating'[ops'[i].node] = None
               /\ ops'[i].node \notin (destroyed \union unborn)'
    <3>1. i \in DOMAIN ops /\ ops'[i] = ops[i]
      BY <1>8, <1>12, <2>1
    <3> QED  BY <1>1, <1>4, <1>5, <2>1, <3>1, OpsTyped DEF Queued
  <2>2. ASSUME NEW i \in DOMAIN ops', ops'[i].kind = "leave"
        PROVE  ops'[i].node \in (destroyed \ leaving)'
    <3>1. CASE i \in DOMAIN ops /\ ops'[i] = ops[i]
      BY <1>1, <2>2, <3>1 DEF Queued
    <3>2. CASE i - Len(q) \in DOMAIN gone /\ ops'[i].node = gone[i - Len(q)]
      <4>1. ops'[i].node \in ToSet(doomed) \union {n}
        BY <1>7, <1>14, <3>2
      <4> QED  BY <1>1, <1>4, <4>1 DEF Killing
    <3> QED  BY <1>8, <1>12, <2>2, <3>1, <3>2
  <2>3. ASSUME NEW i \in DOMAIN ops', NEW j \in DOMAIN ops', i # j,
               ops'[i].kind = ops'[j].kind, ops'[i].kind \in {"attach", "leave"}, ops'[i].node = ops'[j].node
        PROVE  FALSE
    <3> DEFINE Old(k) == k \in DOMAIN ops /\ ops'[k] = ops[k]
               New(k) == ~more /\ k - Len(q) \in DOMAIN gone /\ ops'[k].kind = "leave" /\ ops'[k].node = gone[k - Len(q)]
    <3>1. (Old(i) \/ New(i)) /\ (Old(j) \/ New(j))
      BY <1>8, <1>12, <2>3
    <3>2. ~(Old(i) /\ Old(j))
      BY <2>3 DEF Queued
    <3>3. \A k, m \in DOMAIN ops' : Old(k) /\ New(m) /\ ops'[k].kind = "leave" => ops'[k].node # ops'[m].node
      BY <1>4, <1>7, <1>14 DEF Killing
    <3>4. ASSUME New(i), New(j) PROVE FALSE
      <4>1. i - Len(q) = j - Len(q)
        BY <1>7, <2>3, <3>4 DEF IsInjective
      <4>2. i \in Int /\ j \in Int /\ Len(q) \in Int
        BY <1>9, <1>11, <2>3
      <4> QED  BY <2>3, <4>1, <4>2
    <3>5. New(i) => ops'[i].kind = "leave"
      OBVIOUS
    <3>6. New(j) => ops'[j].kind = "leave"
      OBVIOUS
    <3> HIDE DEF Old, New
    <3> QED  BY <2>3, <3>1, <3>2, <3>3, <3>4, <3>5, <3>6
  <2>4. (leaving \subseteq destroyed)'
    BY <1>1 DEF Queued
  <2> QED  BY <2>1, <2>2, <2>3, <2>4 DEF Queued
<1>23. Killing'
  <2>1. ASSUME NEW i \in DOMAIN dying' PROVE parent'[dying'[i]] # None /\ (i > 1 => parent'[dying'[i]] = dying'[i - 1])
    <3>1. i \in 1..(Len(dying) - 1) /\ i \in DOMAIN dying /\ i + 1 \in DOMAIN dying /\ (i + 1) - 1 = i /\ i + 1 > 1
      BY <1>2, <1>16
    <3>2. dying[i] \in Nodes /\ dying[i + 1] \in Nodes /\ parent[dying[i + 1]] = dying[i]
      BY <1>2, <3>1 DEF Killing
    <3>3. dying[i + 1] \in ToSet(children[dying[i]])
      BY <3>2 DEF NodesLinked
    <3>4. dying[i] # n
      BY <1>1, <3>3 DEF ToSet
    <3>5. dying'[i] = dying[i] /\ (i > 1 => dying'[i - 1] = dying[i - 1])
      BY <1>2, <1>16, <3>1
    <3>6. parent'[dying[i]] = parent[dying[i]]
      BY <1>5, <3>2, <3>4
    <3> QED  BY <3>1, <3>5, <3>6 DEF Killing
  <2>2. dying' = <<>> => doomed' = <<>>
    <3>1. dying' = <<>> => Len(dying') = 0
      OBVIOUS
    <3>2. ASSUME Len(dying) - 1 = 0 PROVE ~more
      <4>0. Len(dying) \in Nat
        BY <1>2
      <4>1. Len(dying) = 1
        BY <3>2, <4>0
      <4>2. ~(1 > 1)
        OBVIOUS
      <4> QED  BY <4>1, <4>2 DEF more
    <3> QED  BY <1>1, <1>16, <3>1, <3>2
  <2>3. IsInjective(doomed')
    BY <1>1, <1>7 DEF IsInjective
  <2>4. ToSet(doomed') \subseteq destroyed' \ leaving'
    BY <1>1, <1>4, <1>7, <1>15 DEF Killing
  <2>5. ASSUME NEW i \in DOMAIN ops', ops'[i].kind = "leave" PROVE ops'[i].node \notin ToSet(doomed')
    <3>1. CASE more
      <4>1. i \in DOMAIN ops /\ ops'[i] = ops[i]
        BY <1>8, <1>12, <2>5, <3>1
      <4> QED  BY <1>4, <1>7, <1>15, <2>5, <4>1 DEF Killing
    <3>2. CASE ~more
      BY <1>15, <3>2
    <3> QED  BY <3>1, <3>2
  <2> QED  BY <2>1, <2>2, <2>3, <2>4, <2>5 DEF Killing
<1>24. Tracked'
  <2> DEFINE Old == {ops[i].node : i \in {j \in DOMAIN ops : ops[j].kind = "leave"}}
             New == {ops'[i].node : i \in {j \in DOMAIN ops' : ops'[j].kind = "leave"}}
  <2>1. New \subseteq Old \union ToSet(gone) /\ (more => New = Old)
    <3>1. ASSUME NEW i \in DOMAIN ops', ops'[i].kind = "leave" PROVE ops'[i].node \in Old \/ (~more /\ ops'[i].node \in ToSet(gone))
      BY <1>8, <1>12, <1>14, <3>1
    <3>2. Old \subseteq New
      BY <1>13
    <3> QED  BY <3>1, <3>2
  <2>2. ~more => ToSet(gone) \subseteq New
    <3>1. ASSUME ~more, NEW k \in DOMAIN gone PROVE gone[k] \in New
      BY <1>11, <3>1
    <3> QED  BY <3>1 DEF ToSet
  <2>3. Old \subseteq New
    BY <1>13
  <2>4. ToLeave = leaving \union ToSet(doomed) \union Old /\ ToLeave' = leaving' \union ToSet(doomed)' \union New
    BY DEF ToLeave
  <2> HIDE DEF Old, New
  <2>5. ToLeave' = ToLeave \union {n}
    BY <1>1, <1>7, <1>15, <2>1, <2>2, <2>3, <2>4
  <2> QED  BY <1>1, <1>4, <2>5 DEF Tracked
<1>25. OnItsWay'
  <2> SUFFICES ASSUME mishaps' \intersect {"lost", "refused", "thrown"} = {}
               PROVE  \E path : Follows(mishaps', path, Server', ops', Client')
    BY DEF OnItsWay
  <2>1. PICK path : Follows(mishaps, path, Server, ops, Client)
    BY <1>1 DEF OnItsWay
  <2>2. Leads(mishaps, op, Client, Client')
    <3>1. Accepted(op, Client)
      BY <1>3, <1>8 DEF Accepted, Client, Tree
    <3> QED  BY <1>5, <1>8, <3>1 DEF Leads
  <2>3. Server' = Server
    BY <1>1 DEF Server
  <2>4. PICK path2 : Follows(mishaps, path2, Server, q, Client')
    <3>1. \E path2 : Follows(mishaps, path2, Server, Append(ops, op), Client')
      BY <1>6, <1>8, <2>1, <2>2, PathLonger
    <3> QED  BY <3>1 DEF q
  <2>5. \E path3 : Follows(mishaps, path3, Server, q \o leaves, Client')
    BY <1>9, <1>10, <2>4, PathIdle
  <2> QED  BY <1>1, <2>3, <2>4, <2>5
<1>26. ASSUME Patience PROVE Patience'
  <2> USE DEF Patience
  <2>1. DOMAIN ops = 1..Len(ops) /\ DOMAIN ops' = 1..Len(ops') /\ Len(ops') \in Nat /\ Len(q) = Len(ops) + 1
        /\ DOMAIN gone = 1..Len(gone) /\ Len(gone) \in Nat
    BY <1>6, <1>7, <1>9, <1>11
  <2>2. ASSUME NEW i \in DOMAIN ops'
        PROVE  \/ i \in DOMAIN ops /\ ops'[i] = ops[i]
               \/ i = Len(ops) + 1 /\ ops'[i] = op
               \/ ~more /\ i > Len(ops) + 1 /\ ops'[i].kind = "leave"
    <3>1. CASE i \in DOMAIN q
      BY <1>9, <1>11, <3>1
    <3>2. CASE i \notin DOMAIN q
      <4>1. ~more /\ i - Len(q) \in DOMAIN gone /\ ops'[i].kind = "leave"
        BY <1>11, <3>2
      <4>2. i > Len(ops) + 1
        BY <1>6, <2>1, <4>1
      <4> QED  BY <4>1, <4>2
    <3> QED  BY <3>1, <3>2
  <2>3. ASSUME ~more, NEW m \in ToSet(gone)
        PROVE  \E j \in DOMAIN ops' : j > Len(ops) + 1 /\ ops'[j].kind = "leave" /\ ops'[j].node = m
    <3>1. PICK k \in DOMAIN gone : gone[k] = m
      BY DEF ToSet
    <3>2. Len(q) + k \in DOMAIN ops' /\ ops'[Len(q) + k].kind = "leave" /\ ops'[Len(q) + k].node = m
      BY <1>11, <2>3, <3>1
    <3>3. Len(q) + k > Len(ops) + 1
      BY <1>6, <2>1
    <3> QED  BY <3>2, <3>3
  <2>4. RootStays'
    <3>1. n # Root
      BY <1>3, <1>26 DEF RootStays
    <3>2. \A i \in DOMAIN ops' : ops'[i].kind \in {"detach", "attach"} => ops'[i].node # Root
      BY <1>8, <1>26, <2>2 DEF RootStays
    <3>3. parent'[Root] = None
      BY <1>5, <1>26, <3>1, NodesAssumption DEF RootStays
    <3> QED  BY <1>1, <1>26, <3>1, <3>2, <3>3 DEF RootStays
  <2>5. Asked'
    <3>1. ASSUME NEW i \in DOMAIN ops', ops'[i].kind \in {"orphan", "reparent"}
          PROVE  /\ ops'[i].node \notin unborn /\ creating[ops'[i].node] = None
                 /\ ops'[i].node \in destroyed' =>
                       \/ ops'[i].node \in ToSet(doomed')
                       \/ \E j \in DOMAIN ops' : i < j /\ ops'[j].kind = "leave" /\ ops'[j].node = ops'[i].node
      <4> DEFINE m == ops'[i].node
      <4>1. /\ i <= Len(ops) + 1 /\ m \notin unborn /\ creating[m] = None
            /\ m \in destroyed' =>
                  \/ m \in ToSet(gone)
                  \/ \E j \in DOMAIN ops : i < j /\ ops[j].kind = "leave" /\ ops[j].node = m
        <5>1. CASE i \in DOMAIN ops /\ ops'[i] = ops[i]
          <6>1. i <= Len(ops) + 1
            BY <1>6, <2>1, <5>1
          <6>2. /\ m \notin unborn /\ creating[m] = None
                /\ m \in destroyed =>
                      \/ m \in ToSet(doomed)
                      \/ \E j \in DOMAIN ops : i < j /\ ops[j].kind = "leave" /\ ops[j].node = m
            BY <1>26, <3>1, <5>1 DEF Asked
          <6> HIDE DEF m
          <6> QED  BY <1>1, <1>7, <6>1, <6>2
        <5>2. CASE i = Len(ops) + 1 /\ ops'[i] = op
          <6>1. m = n
            BY <1>8, <5>2
          <6>2. i <= Len(ops) + 1
            BY <1>6, <5>2
          <6> HIDE DEF m
          <6> QED  BY <1>4, <1>7, <6>1, <6>2
        <5> QED  BY <2>2, <3>1, <5>1, <5>2
      <4> HIDE DEF m
      <4>2. ASSUME m \in ToSet(gone)
            PROVE  \/ m \in ToSet(doomed')
                   \/ \E j \in DOMAIN ops' : i < j /\ ops'[j].kind = "leave" /\ ops'[j].node = m
        <5>1. CASE more
          BY <1>15, <4>2, <5>1
        <5>2. CASE ~more
          <6>1. PICK j \in DOMAIN ops' : j > Len(ops) + 1 /\ ops'[j].kind = "leave" /\ ops'[j].node = m
            BY <2>3, <4>2, <5>2
          <6>2. i < j
            BY <1>6, <2>1, <4>1, <6>1
          <6> QED  BY <6>1, <6>2
        <5> QED  BY <5>1, <5>2
      <4>3. (\E j \in DOMAIN ops : i < j /\ ops[j].kind = "leave" /\ ops[j].node = m) =>
               \E j \in DOMAIN ops' : i < j /\ ops'[j].kind = "leave" /\ ops'[j].node = m
        BY <1>13
      <4> QED  BY <4>1, <4>2, <4>3 DEF m
    <3> QED  BY <1>1, <3>1 DEF Asked
  <2>6. Patient'
    <3> SUFFICES ASSUME mishaps' = {}
                 PROVE  /\ \A m \in Nodes : parent'[m] # None => Live(parent[m])'
                        /\ reparenting' = None /\ BeingKilled'
      BY DEF Patient
    <3>1. /\ \A m \in Nodes : parent[m] # None => Live(parent[m])
          /\ reparenting = None /\ BeingKilled
      BY <1>1, <1>26 DEF Patient, Calm
    <3>2. /\ leaving = {} /\ \A i \in DOMAIN ops : ops[i].kind = "orphan"
      BY <1>1, <3>1 DEF BeingKilled
    <3>3. ASSUME NEW m \in Nodes, parent'[m] # None PROVE Live(parent[m])'
      <4>1. parent'[m] = parent[m] /\ parent[m] \in Nodes /\ Live(parent[m])
        BY <1>5, <3>1, <3>3 DEF TreeTypeOK
      <4>2. m \in ToSet(children[parent[m]])
        BY <4>1 DEF NodesLinked
      <4>3. parent[m] # n
        BY <1>1, <4>2 DEF ToSet
      <4> QED  BY <1>1, <4>1, <4>3 DEF Live
    <3>4. \A i \in DOMAIN ops' : ops'[i].kind \in {"orphan", "leave"} /\ (ops'[i].kind = "leave" => ~more /\ i > Len(ops) + 1)
      BY <1>8, <2>2, <3>2
    <3>5. \A i, j \in DOMAIN ops' : i < j /\ ops'[i].kind = "leave" => ops'[j].kind = "leave"
      <4> SUFFICES ASSUME NEW i \in DOMAIN ops', NEW j \in DOMAIN ops', i < j, ops'[i].kind = "leave" PROVE ops'[j].kind = "leave"
        OBVIOUS
      <4>1. i > Len(ops) + 1
        BY <3>4
      <4>2. j > Len(ops) + 1 /\ j \notin DOMAIN ops
        BY <1>6, <2>1, <4>1
      <4>3. j # Len(ops) + 1
        BY <1>6, <2>1, <4>2
      <4> QED  BY <2>2, <4>2, <4>3
    <3>6. ~more => dying' = <<>>
      <4>1. ~more => Len(dying') = 0
        BY <1>2, <1>16 DEF more
      <4> QED  BY <1>16, <4>1, EmptySeq
    <3>7. BeingKilled'
      BY <1>1, <3>1, <3>2, <3>4, <3>5, <3>6 DEF BeingKilled
    <3> QED  BY <1>1, <3>1, <3>3, <3>7
  <2> QED  BY <1>1, <1>26, <2>4, <2>5, <2>6 DEF PatienceRewarded
<1> QED  BY <1>5, <1>20, <1>21, <1>22, <1>23, <1>24, <1>25, <1>26

-----------------------------------------------------------------------------
(* The operations of the client at the head of the queue *)
LEMMA RunDetachKeeps ==
    ASSUME TreeIInv, RunDetach
    PROVE  TreeIInv' /\ (Patience => Patience')
<1> USE DEF TreeIInv
<1> DEFINE op == Head(ops)
           n == op.node
<1>1. /\ ops # <<>> /\ op.kind = "detach" /\ dying = <<>> /\ doomed = <<>>
      /\ UNCHANGED <<unborn, destroyed, reparenting, dying, doomed, creating, leaving, steps, stepParent, stepChildren, clicks, mishaps>>
  BY DEF RunDetach, Next1, remote, Killing
<1>2. /\ ops \in Seq(Operations) /\ 1 \in DOMAIN ops /\ op = ops[1] /\ op \in Operations /\ 1 \in 1..Len(ops)
      /\ Tail(ops) \in Seq(Operations)
      /\ \A i \in DOMAIN Tail(ops) : i + 1 \in DOMAIN ops /\ i + 1 # 1 /\ Tail(ops)[i] = ops[i + 1]
      /\ \A i \in DOMAIN ops : i # 1 => i - 1 \in DOMAIN Tail(ops) /\ Tail(ops)[i - 1] = ops[i]
      /\ \A i, j \in DOMAIN Tail(ops) : i + 1 = j + 1 => i = j
  BY <1>1, FirstOp DEF TreeTypeOK
<1>3. n \in Nodes /\ op.to \in Nodes /\ op.idx >= -1 /\ op.idx \in Int
  BY <1>1, <1>2 DEF TreeTypeOK, Operations
<1>4. ASSUME NEW path, Follows(mishaps, path, Server, ops, Client) PROVE path[1] = Server
  BY <1>1, <1>2, <1>4 DEF Follows, Leads
<1>5. CASE parent[n] = None
  <2>1. ops' = Tail(ops) /\ UNCHANGED <<parent, children>>
    BY <1>5 DEF RunDetach
  <2>2. TreeTypeOK' /\ NodesLinked' /\ Loose' /\ Queued' /\ Killing' /\ ToLeave' = ToLeave
    BY <1>1, <2>1, PoppedOp DEF TreeTypeOK, local
  <2>3. Tracked'
    BY <1>1, <2>2 DEF Tracked
  <2>4. OnItsWay'
    <3> SUFFICES ASSUME mishaps' \intersect {"lost", "refused", "thrown"} = {}
                 PROVE  \E path : Follows(mishaps', path, Server', ops', Client')
      BY DEF OnItsWay
    <3>1. PICK path : Follows(mishaps, path, Server, ops, Client)
      BY <1>1 DEF OnItsWay
    <3>2. path[1] = Server
      BY <1>4, <3>1
    <3>3. \E path2 : Follows(mishaps, path2, path[1], Tail(ops), Client)
      BY <1>1, <1>2, <3>1, PathShorter
    <3>4. Server' = Server /\ Client' = Client
      BY <1>1, <2>1 DEF Server, Client
    <3> QED  BY <1>1, <2>1, <3>2, <3>3, <3>4
  <2>5. ASSUME Patience PROVE Patience'
    <3> USE <2>5 DEF Patience
    <3>1. RootStays' /\ Asked'
      BY <1>1, <2>1, PoppedPatience DEF local
    <3>2. mishaps # {}
      BY <1>1, <1>2, <1>5 DEF Patient, BeingKilled, BeingCreated, BeingMoved
    <3> QED  BY <1>1, <3>1, <3>2 DEF Patient, PatienceRewarded
  <2> QED  BY <2>2, <2>3, <2>4, <2>5
<1>6. CASE parent[n] # None
  <2> DEFINE first == Op("orphan", n)
             second == [op EXCEPT !.kind = "attach"]
             q == Append(Tail(ops), first)
             r == Append(q, second)
  <2>1. /\ Detach(n) /\ ops' = Tail(ops) \o <<first, second>>
    BY <1>6 DEF RunDetach
  <2>2. first \in Operations /\ first.kind = "orphan" /\ first.node = n
    BY <1>3 DEF Op, Operations
  <2>3. second \in Operations /\ second.kind = "attach" /\ second.node = n /\ second.to = op.to /\ second.idx = op.idx
    BY <1>2 DEF Operations
  <2>4. ops' = r
    BY <1>2, <2>1, <2>2, <2>3, TwoAppended
  <2> HIDE DEF first, second
  <2>5. /\ q \in Seq(Operations)
        /\ \A i \in DOMAIN q : (i \in DOMAIN Tail(ops) /\ q[i] = Tail(ops)[i]) \/ (i = Len(Tail(ops)) + 1 /\ q[i] = first)
        /\ \A i \in DOMAIN Tail(ops) : i \in DOMAIN q /\ q[i] = Tail(ops)[i]
    BY <1>2, <2>2, AppendedOp
  <2> HIDE DEF q
  <2>6. /\ r \in Seq(Operations)
        /\ \A i \in DOMAIN r : (i \in DOMAIN q /\ r[i] = q[i]) \/ (i = Len(q) + 1 /\ r[i] = second)
        /\ \A i \in DOMAIN q : i \in DOMAIN r /\ r[i] = q[i]
    BY <2>3, <2>5, AppendedOp
  <2> HIDE DEF r
  <2>7. \A i \in DOMAIN ops' :
           \/ i + 1 \in DOMAIN ops /\ i + 1 # 1 /\ ops'[i] = ops[i + 1]
           \/ ops'[i] = first
           \/ i = Len(q) + 1 /\ ops'[i] = second
    BY <1>2, <2>4, <2>5, <2>6
  <2>8. \A i \in DOMAIN ops : i # 1 => i - 1 \in DOMAIN ops' /\ ops'[i - 1] = ops[i]
    BY <1>2, <2>4, <2>5, <2>6
  <2>9. n \notin destroyed /\ n \notin unborn /\ creating[n] = None /\ \A i \in DOMAIN ops : ops[i].kind = "attach" => ops[i].node # n
    BY <1>3, <1>6 DEF Loose, Queued
  <2>10. /\ parent' \in [Nodes -> Nodes \union {None}] /\ children' \in [Nodes -> Seq(Nodes)]
         /\ \A m \in Nodes : parent'[m] = IF m = n THEN None ELSE parent[m]
         /\ NodesLinked'
         /\ Client' = Orphaned(Client, n)
    BY <1>3, <1>6, <2>1, DetachedNode
  <2>11. TreeTypeOK'
    <3>1. \A i \in DOMAIN ops' :
             /\ ops'[i].kind \in {"detach", "attach", "reparent"} => ops'[i].to \in Nodes /\ ops'[i].idx >= -1
             /\ ops'[i].kind = "reparent" => ops'[i].idx >= 0
      BY <1>3, <2>2, <2>3, <2>7 DEF TreeTypeOK
    <3>2. ops' \in Seq(Operations)
      BY <2>4, <2>6
    <3> QED  BY <1>1, <2>10, <3>1, <3>2 DEF TreeTypeOK
  <2>12. Loose'
    BY <1>1, <2>10 DEF Loose
  <2>13. Queued'
    <3>1. ASSUME NEW i \in DOMAIN ops', ops'[i].kind = "attach"
          PROVE  /\ parent'[ops'[i].node] = None /\ creating'[ops'[i].node] = None
                 /\ ops'[i].node \notin (destroyed \union unborn)'
      <4>1. CASE i + 1 \in DOMAIN ops /\ ops'[i] = ops[i + 1]
        <5>1. ops[i + 1].node \in Nodes /\ parent[ops[i + 1].node] = None
          BY <3>1, <4>1, OpsTyped DEF Queued
        <5> QED  BY <1>1, <2>10, <3>1, <4>1, <5>1 DEF Queued
      <4>2. CASE ops'[i] = second
        BY <1>1, <1>3, <2>3, <2>9, <2>10, <4>2
      <4> QED  BY <2>2, <2>7, <3>1, <4>1, <4>2
    <3>2. ASSUME NEW i \in DOMAIN ops', ops'[i].kind = "leave"
          PROVE  ops'[i].node \in (destroyed \ leaving)'
      BY <1>1, <2>2, <2>3, <2>7, <3>2 DEF Queued
    <3>3. ASSUME NEW i \in DOMAIN ops', NEW j \in DOMAIN ops',
                 ops'[i].kind = ops'[j].kind, ops'[i].kind \in {"attach", "leave"}, ops'[i].node = ops'[j].node
          PROVE  i = j
      <4> DEFINE Old(k) == k + 1 \in DOMAIN ops /\ k + 1 # 1 /\ ops'[k] = ops[k + 1]
                 New(k) == k = Len(q) + 1 /\ ops'[k] = second
      <4>1. (Old(i) \/ New(i)) /\ (Old(j) \/ New(j))
        BY <2>2, <2>7, <3>3
      <4>2. ASSUME Old(i), Old(j) PROVE i = j
        <5>1. i + 1 = j + 1
          BY <3>3, <4>2 DEF Queued
        <5>2. i \in Nat /\ j \in Nat
          BY <2>4, <2>6
        <5> QED  BY <5>1, <5>2
      <4>3. \A k, m \in DOMAIN ops' : Old(k) /\ New(m) /\ ops'[k].kind = ops'[m].kind => ops'[k].node # ops'[m].node
        BY <2>3, <2>9
      <4> QED  BY <3>3, <4>1, <4>2, <4>3
    <3>4. (leaving \subseteq destroyed)'
      BY <1>1 DEF Queued
    <3> QED  BY <3>1, <3>2, <3>3, <3>4 DEF Queued
  <2>14. Killing'
    BY <1>1 DEF Killing, ToSet, IsInjective
  <2>15. Tracked'
    <3>1. \A i \in DOMAIN ops : ops[i].kind = "leave" => i # 1
      BY <1>1, <1>2
    <3>2. {ops'[i].node : i \in {j \in DOMAIN ops' : ops'[j].kind = "leave"}}
             \subseteq {ops[i].node : i \in {j \in DOMAIN ops : ops[j].kind = "leave"}}
      BY <2>2, <2>3, <2>7
    <3>3. ASSUME NEW i \in DOMAIN ops, ops[i].kind = "leave"
          PROVE  ops[i].node \in {ops'[k].node : k \in {j \in DOMAIN ops' : ops'[j].kind = "leave"}}
      <4>1. i - 1 \in DOMAIN ops' /\ ops'[i - 1] = ops[i]
        BY <2>8, <3>1, <3>3
      <4> QED  BY <3>3, <4>1
    <3>4. ToLeave' = ToLeave
      BY <1>1, <3>2, <3>3 DEF ToLeave
    <3> QED  BY <1>1, <3>4 DEF Tracked
  <2>16. OnItsWay'
    <3> SUFFICES ASSUME mishaps' \intersect {"lost", "refused", "thrown"} = {}
                 PROVE  \E path : Follows(mishaps', path, Server', ops', Client')
      BY DEF OnItsWay
    <3>1. PICK path : Follows(mishaps, path, Server, ops, Client)
      BY <1>1 DEF OnItsWay
    <3>2. PICK path2 : Follows(mishaps, path2, Server, Tail(ops), Client)
      <4>1. path[1] = Server
        BY <1>4, <3>1
      <4>2. \E path2 : Follows(mishaps, path2, path[1], Tail(ops), Client)
        BY <1>1, <1>2, <3>1, PathShorter
      <4> QED  BY <4>1, <4>2
    <3>3. Leads(mishaps, first, Client, Client') /\ Leads(mishaps, second, Client', Client')
      BY <1>6, <2>2, <2>3, <2>10 DEF Leads, Accepted, Client, Tree
    <3>4. PICK path3 : Follows(mishaps, path3, Server, q, Client')
      <4>1. \E path3 : Follows(mishaps, path3, Server, Append(Tail(ops), first), Client')
        BY <1>2, <2>2, <3>2, <3>3, PathLonger
      <4> QED  BY <4>1 DEF q
    <3>5. \E path4 : Follows(mishaps, path4, Server, Append(q, second), Client')
      BY <2>3, <2>5, <3>3, <3>4, PathLonger
    <3>6. Server' = Server
      BY <1>1 DEF Server
    <3> QED  BY <1>1, <2>4, <3>5, <3>6 DEF r
  <2>17. ASSUME Patience PROVE Patience'
    <3> USE <2>17 DEF Patience
    <3>1. n # Root
      BY <1>6 DEF RootStays
    <3>2. RootStays'
      <4>1. \A i \in DOMAIN ops' : ops'[i].kind \in {"detach", "attach"} => ops'[i].node # Root
        BY <2>2, <2>3, <2>7, <3>1 DEF RootStays
      <4>2. parent'[Root] = None
        BY <2>10, NodesAssumption DEF RootStays
      <4> QED  BY <1>1, <4>1, <4>2 DEF RootStays
    <3>3. Asked'
      <4>1. ops' \in Seq(Operations)
        BY <2>4, <2>6
      <4> SUFFICES ASSUME NEW i \in DOMAIN ops', ops'[i].kind \in {"orphan", "reparent"}
                   PROVE  /\ ops'[i].node \notin unborn' /\ creating'[ops'[i].node] = None
                          /\ ops'[i].node \in destroyed' =>
                                \/ ops'[i].node \in ToSet(doomed')
                                \/ \E j \in DOMAIN ops' : i < j /\ ops'[j].kind = "leave" /\ ops'[j].node = ops'[i].node
        BY DEF Asked
      <4>2. CASE i + 1 \in DOMAIN ops /\ ops'[i] = ops[i + 1]
        BY <1>1, <2>8, <4>1, <4>2, StillAsked
      <4>3. CASE ops'[i] = first
        BY <1>1, <2>2, <2>9, <4>3
      <4> QED  BY <2>3, <2>7, <4>2, <4>3
    <3>4. Patient'
      <4> SUFFICES ASSUME mishaps' = {}
                   PROVE  /\ \A m \in Nodes : parent'[m] # None => Live(parent[m])'
                          /\ reparenting' = None /\ dying' = <<>> /\ leaving' = {} /\ BeingMoved'
        BY DEF Patient
      <4>1. /\ \A m \in Nodes : parent[m] # None => Live(parent[m])
            /\ reparenting = None /\ leaving = {} /\ \A m \in Nodes : creating[m] = None
            /\ Len(ops) = 1 /\ Target(op) /\ (op.idx = AtTheEnd \/ (op.to = parent[n] /\ op.idx < Len(children[op.to])))
        BY <1>1, <1>2 DEF Patient, Calm, BeingKilled, BeingCreated, BeingMoved
      <4>2. \A m : Live(m)' <=> Live(m)
        BY <1>1 DEF Live
      <4>3. \A m \in Nodes : parent'[m] # None => Live(parent[m])'
        BY <1>1, <2>10, <4>1 DEF Live
      <4>4. Len(ops') = 2 /\ ops'[1] = first /\ ops'[2] = second
        <5>1. Len(Tail(ops)) = Len(ops) - 1
          BY <1>1, <1>2, HeadTailProperties
        <5>2. Len(Tail(ops)) = 0
          BY <4>1, <5>1
        <5>3. Tail(ops) = <<>>
          BY <1>2, <5>2, EmptySeq
        <5>4. ops' = <<>> \o <<first, second>>
          BY <2>1, <5>3
        <5> QED  BY <5>4
      <4>5. n \notin Above(parent', op.to) /\ op.to \notin unborn' \union destroyed' /\ creating'[op.to] = None
        <5>1. n \notin Above(parent, op.to) /\ Live(op.to)
          BY <4>1 DEF Target
        <5>2. parent \in [Nodes -> Nodes \union {None}]
          BY DEF TreeTypeOK
        <5>3. op.to \in Above(parent, op.to) /\ \A x \in Above(parent, op.to) : parent[x] \in Above(parent, op.to) \union {None}
          BY <1>3, <5>2, AboveClosed
        <5>4. Above(parent, op.to) \in SUBSET Nodes
          BY DEF Above
        <5>5. \A x \in Above(parent, op.to) : parent'[x] \in Above(parent, op.to) \union {None}
          BY <2>10, <5>3, <5>4
        <5>6. Above(parent', op.to) \subseteq Above(parent, op.to)
          BY <5>3, <5>4, <5>5, AboveLeast
        <5> QED  BY <1>1, <5>1, <5>6 DEF Live
      <4>6. op.idx = AtTheEnd \/ op.idx <= Len(children'[op.to])
        <5>1. CASE op.idx = AtTheEnd
          BY <5>1
        <5>2. CASE op.to = parent[n] /\ op.idx < Len(children[op.to])
          <6>1. Len(children'[op.to]) = Len(children[op.to]) - 1
            BY <1>3, <1>6, <2>1, <5>2, DetachedNode
          <6>2. Len(children[op.to]) \in Nat
            BY <1>3 DEF TreeTypeOK
          <6> QED  BY <1>3, <5>2, <6>1, <6>2
        <5> QED  BY <4>1, <5>1, <5>2
      <4>7. ops'[Len(ops')] = second /\ Len(ops') \in 1..2 /\ ops'[1].kind = "orphan"
        BY <2>2, <4>4
      <4>8. Target(ops[Len(ops)])' /\ Fits(ops[Len(ops)])'
        BY <2>3, <4>5, <4>6, <4>7 DEF Target, Fits, Live
      <4>9. BeingMoved'
        BY <1>1, <2>3, <4>1, <4>7, <4>8 DEF BeingMoved
      <4> QED  BY <1>1, <4>1, <4>3, <4>9
    <3> QED  BY <1>1, <3>2, <3>3, <3>4 DEF PatienceRewarded
  <2> QED  BY <2>10, <2>11, <2>12, <2>13, <2>14, <2>15, <2>16, <2>17
<1> QED  BY <1>5, <1>6

LEMMA RunAttachKeeps ==
    ASSUME TreeIInv, Patience, RunAttach
    PROVE  TreeIInv'
<1> USE DEF TreeIInv
<1> DEFINE op == Head(ops)
           n == op.node
           p == op.to
           idx == IF op.idx = AtTheEnd THEN Len(children[p]) ELSE op.idx
           new == Placing("reparent", n, p, idx)
           q == Tail(ops)
<1>1. /\ ops # <<>> /\ op.kind = "attach" /\ dying = <<>> /\ doomed = <<>> /\ Attach(n, p, idx)
      /\ \/ ops' = Append(q, new) /\ mishaps' = mishaps
         \/ ops' = q /\ mishaps' = mishaps \union {"thrown"}
      /\ UNCHANGED <<unborn, destroyed, reparenting, dying, doomed, creating, leaving, steps, stepParent, stepChildren, clicks>>
  BY DEF RunAttach, Next1, remote, Killing
<1>2. /\ ops \in Seq(Operations) /\ 1 \in DOMAIN ops /\ op = ops[1] /\ op \in Operations /\ 1 \in 1..Len(ops)
      /\ q \in Seq(Operations)
      /\ \A i \in DOMAIN q : i + 1 \in DOMAIN ops /\ i + 1 # 1 /\ q[i] = ops[i + 1]
      /\ \A i \in DOMAIN ops : i # 1 => i - 1 \in DOMAIN q /\ q[i - 1] = ops[i]
      /\ \A i, j \in DOMAIN q : i + 1 = j + 1 => i = j
  BY <1>1, FirstOp DEF TreeTypeOK
<1>3. n \in Nodes /\ p \in Nodes /\ idx \in Nat
  <2>1. n \in Nodes /\ p \in Nodes /\ op.idx >= -1 /\ op.idx \in Int
    BY <1>1, <1>2 DEF TreeTypeOK, Operations
  <2>2. children[p] \in Seq(Nodes)
    BY <2>1 DEF TreeTypeOK
  <2> HIDE DEF op
  <2> QED  BY <2>1, <2>2 DEF AtTheEnd
<1>4. new \in Operations /\ new.kind = "reparent" /\ new.node = n /\ new.to = p /\ new.idx = idx
  BY <1>3 DEF Placing, Operations
<1>5. ASSUME NEW path, Follows(mishaps, path, Server, ops, Client) PROVE path[1] = Server
  BY <1>1, <1>2, <1>5 DEF Follows, Leads
<1>6. /\ parent[n] = None /\ creating[n] = None /\ n \notin destroyed /\ n \notin unborn
      /\ \A i \in DOMAIN ops : i # 1 /\ ops[i].kind = "attach" => ops[i].node # n
  BY <1>1, <1>2 DEF Queued
<1> HIDE DEF q, new, idx, n, p
<1>7. /\ ops' \in Seq(Operations)
      /\ \A i \in DOMAIN ops' : (i \in DOMAIN q /\ ops'[i] = q[i]) \/ (i = Len(q) + 1 /\ ops'[i] = new)
      /\ \A i \in DOMAIN q : i \in DOMAIN ops' /\ ops'[i] = q[i]
  <2>1. CASE ops' = Append(q, new)
    BY <1>2, <1>4, <2>1, AppendedOp
  <2>2. CASE ops' = q
    BY <1>2, <2>2
  <2> QED  BY <1>1, <2>1, <2>2
<1>8. \A i \in DOMAIN ops' :
         \/ i + 1 \in DOMAIN ops /\ i + 1 # 1 /\ ops'[i] = ops[i + 1]
         \/ ops'[i] = new
  BY <1>2, <1>7
<1>9. \A i \in DOMAIN ops : i # 1 => i - 1 \in DOMAIN ops' /\ ops'[i - 1] = ops[i]
  BY <1>2, <1>7
<1>10. /\ parent' \in [Nodes -> Nodes \union {None}] /\ children' \in [Nodes -> Seq(Nodes)]
       /\ \A m \in Nodes : parent'[m] = IF m = n THEN p ELSE parent[m]
       /\ NodesLinked'
       /\ idx <= Len(children[p]) => Client' = Reparented(Client, n, p, idx)
  BY <1>1, <1>3, <1>6, AttachedNode
<1>11. TreeTypeOK'
  <2>1. \A i \in DOMAIN ops' :
           /\ ops'[i].kind \in {"detach", "attach", "reparent"} => ops'[i].to \in Nodes /\ ops'[i].idx >= -1
           /\ ops'[i].kind = "reparent" => ops'[i].idx >= 0
    <3>1. new.idx >= 0 /\ new.idx >= -1
      BY <1>3, <1>4
    <3> QED  BY <1>3, <1>4, <1>8, <3>1 DEF TreeTypeOK
  <2> QED  BY <1>1, <1>7, <1>10, <2>1 DEF TreeTypeOK
<1>12. Loose'
  BY <1>1, <1>6, <1>10 DEF Loose
<1>13. Queued'
  <2>1. ASSUME NEW i \in DOMAIN ops', ops'[i].kind = "attach"
        PROVE  /\ parent'[ops'[i].node] = None /\ creating'[ops'[i].node] = None
               /\ ops'[i].node \notin (destroyed \union unborn)'
    <3>1. i + 1 \in DOMAIN ops /\ i + 1 # 1 /\ ops'[i] = ops[i + 1]
      BY <1>4, <1>8, <2>1
    <3>2. ops[i + 1].node \in Nodes /\ ops[i + 1].node # n
      BY <1>6, <2>1, <3>1, OpsTyped
    <3> QED  BY <1>1, <1>10, <2>1, <3>1, <3>2 DEF Queued
  <2>2. ASSUME NEW i \in DOMAIN ops', ops'[i].kind = "leave"
        PROVE  ops'[i].node \in (destroyed \ leaving)'
    BY <1>1, <1>4, <1>8, <2>2 DEF Queued
  <2>3. ASSUME NEW i \in DOMAIN ops', NEW j \in DOMAIN ops',
               ops'[i].kind = ops'[j].kind, ops'[i].kind \in {"attach", "leave"}, ops'[i].node = ops'[j].node
        PROVE  i = j
    <3>1. i + 1 = j + 1
      BY <1>4, <1>8, <2>3 DEF Queued
    <3>2. i \in Nat /\ j \in Nat
      BY <1>7
    <3> QED  BY <3>1, <3>2
  <2>4. (leaving \subseteq destroyed)'
    BY <1>1 DEF Queued
  <2> QED  BY <2>1, <2>2, <2>3, <2>4 DEF Queued
<1>14. Killing'
  BY <1>1 DEF Killing, ToSet, IsInjective
<1>15. Tracked'
  <2>1. \A i \in DOMAIN ops : ops[i].kind = "leave" => i # 1
    BY <1>1, <1>2
  <2>2. {ops'[i].node : i \in {j \in DOMAIN ops' : ops'[j].kind = "leave"}}
           \subseteq {ops[i].node : i \in {j \in DOMAIN ops : ops[j].kind = "leave"}}
    BY <1>4, <1>8
  <2>3. ASSUME NEW i \in DOMAIN ops, ops[i].kind = "leave"
        PROVE  ops[i].node \in {ops'[k].node : k \in {j \in DOMAIN ops' : ops'[j].kind = "leave"}}
    <3>1. i - 1 \in DOMAIN ops' /\ ops'[i - 1] = ops[i]
      BY <1>9, <2>1, <2>3
    <3> QED  BY <2>3, <3>1
  <2>4. {ops[i].node : i \in {j \in DOMAIN ops : ops[j].kind = "leave"}}
           \subseteq {ops'[i].node : i \in {j \in DOMAIN ops' : ops'[j].kind = "leave"}}
    BY <2>3
  <2>5. ToLeave' = ToLeave
    BY <1>1, <2>2, <2>4 DEF ToLeave
  <2> QED  BY <1>1, <2>5 DEF Tracked
<1>16. OnItsWay'
  <2> SUFFICES ASSUME mishaps' \intersect {"lost", "refused", "thrown"} = {}
               PROVE  \E path : Follows(mishaps', path, Server', ops', Client')
    BY DEF OnItsWay
  <2>0. ops' = Append(q, new) /\ mishaps' = mishaps
    BY <1>1
  <2>1. PICK path : Follows(mishaps, path, Server, ops, Client)
    BY <2>0 DEF OnItsWay
  <2>2. PICK path2 : Follows(mishaps, path2, Server, q, Client)
    <3>1. path[1] = Server
      BY <1>5, <2>1
    <3>2. \E path2 : Follows(mishaps, path2, path[1], Tail(ops), Client)
      BY <1>1, <1>2, <2>1, PathShorter
    <3> QED  BY <3>1, <3>2 DEF q
  <2>3. Leads(mishaps, new, Client, Client')
    <3>1. Client.children = children
      BY DEF Client, Tree
    <3>2. mishaps = {} => Accepted(new, Client)
      <4> SUFFICES ASSUME mishaps = {} PROVE Accepted(new, Client)
        OBVIOUS
      <4>1. Fits(op) /\ (parent[p] # None => n \notin Above(parent, parent[p]))
        BY <1>1, MoveAccepted DEF n, p
      <4>2. idx <= Len(children[p])
        BY <1>3, <4>1 DEF Fits, idx, p, AtTheEnd, TreeTypeOK
      <4> QED  BY <1>4, <1>6, <3>1, <4>1, <4>2 DEF Accepted, Client, Tree
    <3> QED  BY <1>4, <1>10, <3>1, <3>2 DEF Leads
  <2>4. \E path3 : Follows(mishaps, path3, Server, Append(q, new), Client')
    BY <1>2, <1>4, <2>2, <2>3, PathLonger
  <2>5. Server' = Server
    BY <1>1 DEF Server
  <2> QED  BY <2>0, <2>4, <2>5
<1> QED  BY <1>10, <1>11, <1>12, <1>13, <1>14, <1>15, <1>16

LEMMA RunLeaveKeeps ==
    ASSUME TreeIInv, RunLeave
    PROVE  TreeIInv'
<1> USE DEF TreeIInv
<1> DEFINE n == Head(ops).node
<1>1. /\ ops # <<>> /\ Head(ops).kind = "leave" /\ dying = <<>> /\ doomed = <<>> /\ ops' = Tail(ops)
      /\ leaving' = leaving \union {n}
      /\ UNCHANGED <<parent, children, unborn, destroyed, reparenting, dying, doomed, creating, steps, stepParent, stepChildren, clicks, mishaps>>
  BY DEF RunLeave, Next1, remote, local, Killing
<1>2. /\ ops \in Seq(Operations) /\ 1 \in DOMAIN ops /\ Head(ops) = ops[1] /\ 1 \in 1..Len(ops)
      /\ ops' \in Seq(Operations)
      /\ \A i \in DOMAIN ops' : i + 1 \in DOMAIN ops /\ i + 1 # 1 /\ ops'[i] = ops[i + 1]
      /\ \A i \in DOMAIN ops : i # 1 => i - 1 \in DOMAIN ops' /\ ops'[i - 1] = ops[i]
      /\ \A i, j \in DOMAIN ops' : i + 1 = j + 1 => i = j
  BY <1>1, FirstOp DEF TreeTypeOK
<1>3. n \in Nodes /\ n \in destroyed
  BY <1>1, <1>2, OpsTyped DEF Queued
<1>4. \A i \in DOMAIN ops : i # 1 /\ ops[i].kind = "leave" => ops[i].node # n
  BY <1>1, <1>2 DEF Queued
<1>5. TreeTypeOK'
  <2>1. \A i \in DOMAIN ops' :
           /\ ops'[i].kind \in {"detach", "attach", "reparent"} => ops'[i].to \in Nodes /\ ops'[i].idx >= -1
           /\ ops'[i].kind = "reparent" => ops'[i].idx >= 0
    BY <1>2 DEF TreeTypeOK
  <2>2. ops' \in Seq(Operations)
    BY <1>2
  <2> QED  BY <1>1, <1>3, <2>1, <2>2 DEF TreeTypeOK
<1>6. NodesLinked' /\ Loose'
  BY <1>1 DEF NodesLinked, Loose
<1>7. Queued'
  <2>1. \A i \in DOMAIN ops' :
           /\ ops'[i].kind = "attach" => /\ parent[ops'[i].node] = None /\ creating[ops'[i].node] = None
                                         /\ ops'[i].node \notin destroyed \union unborn
           /\ ops'[i].kind = "leave" => ops'[i].node \in destroyed \ leaving /\ ops'[i].node # n
    BY <1>2, <1>4 DEF Queued
  <2>2. ASSUME NEW i \in DOMAIN ops', NEW j \in DOMAIN ops',
               ops'[i].kind = ops'[j].kind, ops'[i].kind \in {"attach", "leave"}, ops'[i].node = ops'[j].node
        PROVE  i = j
    <3>1. /\ i + 1 \in DOMAIN ops /\ ops'[i] = ops[i + 1]
          /\ j + 1 \in DOMAIN ops /\ ops'[j] = ops[j + 1]
      BY <1>2
    <3>2. i + 1 = j + 1
      BY <2>2, <3>1 DEF Queued
    <3> QED  BY <1>2, <3>2
  <2>3. (leaving \subseteq destroyed)'
    BY <1>1, <1>3 DEF Queued
  <2> QED  BY <1>1, <2>1, <2>2, <2>3 DEF Queued
<1>8. Killing'
  BY <1>1 DEF Killing, ToSet, IsInjective
<1>9. Tracked'
  <2>1. \A i \in DOMAIN ops' : ops'[i].kind = "leave" => ops'[i].node \in ToLeave
    BY <1>2 DEF ToLeave
  <2>2. n \in ToLeave
    BY <1>1, <1>2 DEF ToLeave
  <2>3. ASSUME NEW i \in DOMAIN ops, ops[i].kind = "leave"
        PROVE  ops[i].node \in ToLeave'
    <3>1. CASE i = 1
      BY <1>1, <1>2, <3>1 DEF ToLeave
    <3>2. CASE i # 1
      <4>1. i - 1 \in DOMAIN ops' /\ ops'[i - 1] = ops[i]
        BY <1>2, <3>2
      <4> QED  BY <2>3, <4>1 DEF ToLeave
    <3> QED  BY <3>1, <3>2
  <2>4. ToLeave' \subseteq ToLeave
    BY <1>1, <2>1, <2>2 DEF ToLeave, ToSet
  <2>5. ToLeave \subseteq ToLeave'
    <3>1. leaving \union ToSet(doomed) \subseteq ToLeave'
      BY <1>1 DEF ToLeave, ToSet
    <3> QED  BY <2>3, <3>1 DEF ToLeave
  <2> QED  BY <1>1, <2>4, <2>5 DEF Tracked
<1>10. OnItsWay'
  <2> SUFFICES ASSUME mishaps' \intersect {"lost", "refused", "thrown"} = {}
               PROVE  \E path : Follows(mishaps', path, Server', ops', Client')
    BY DEF OnItsWay
  <2>1. PICK path : Follows(mishaps, path, Server, ops, Client)
    BY <1>1 DEF OnItsWay
  <2>2. path[1] = Server
    BY <1>1, <1>2, <2>1 DEF Follows, Leads
  <2>3. \E path2 : Follows(mishaps, path2, path[1], Tail(ops), Client)
    BY <1>1, <1>2, <2>1, PathShorter
  <2>4. Server' = Server /\ Client' = Client
    BY <1>1 DEF Server, Client
  <2> QED  BY <1>1, <2>2, <2>3, <2>4
<1> QED  BY <1>5, <1>6, <1>7, <1>8, <1>9, <1>10

-----------------------------------------------------------------------------
(* A user who waits is never refused *)
LEMMA ClickedPatience ==
    ASSUME TreeIInv, Patience, Click
    PROVE  /\ PatienceRewarded'
           /\ mishaps' = {} => /\ mishaps = {} /\ ops = <<>> /\ dying = <<>> /\ leaving = {}
                               /\ \A n \in Nodes : creating[n] = None
                               /\ \A n \in Nodes : parent[n] # None => Live(parent[n])
                               /\ reparenting # None => parent[reparenting] # None
<1>1. mishaps' \intersect {"refused", "thrown"} # {} => mishaps \intersect {"refused", "thrown"} # {}
  BY Clicked DEF TreeIInv
<1>2. mishaps \subseteq mishaps'
  BY DEF Click
<1>3. PatienceRewarded'
  BY <1>1, <1>2 DEF Patience, PatienceRewarded
<1>4. mishaps' = {} => mishaps = {} /\ Calm
  BY Clicked DEF TreeIInv
<1> QED  BY <1>3, <1>4 DEF Calm, Patience, Patient

(* A node on the page is the root or has a parent. *)
LEMMA VisibleLives ==
    ASSUME TreeIInv, RootStays, NEW n \in Nodes, Visible(n)
    PROVE  Live(n) /\ (n = Root \/ parent[n] # None)
<1>1. n = Root \/ parent[n] # None
  <2> SUFFICES ASSUME n # Root, parent[n] = None PROVE FALSE
    OBVIOUS
  <2>1. {n} \in SUBSET Nodes /\ \A x \in {n} : parent[x] \in {n} \union {None}
    OBVIOUS
  <2>2. Above(parent, n) \subseteq {n}
    BY <2>1, AboveLeast
  <2> QED  BY <2>2 DEF Visible
<1>2. Live(n)
  BY <1>1 DEF Live, RootStays, TreeIInv, Loose
<1> QED  BY <1>1, <1>2

LEMMA CreateChildPatient ==
    ASSUME TreeIInv, Patience, NEW p \in Nodes, Visible(p), CreateChild(p)
    PROVE  Patience'
<1> USE DEF Patience
<1>1. PICK n \in unborn : unborn' = unborn \ {n} /\ creating' = [creating EXCEPT ![n] = p]
  BY DEF CreateChild
<1>2. UNCHANGED <<parent, children, destroyed, dying, doomed, ops, leaving>> /\ reparenting' = None /\ Click
  BY DEF CreateChild
<1>3. n \in Nodes /\ p # None /\ \A m \in Nodes : creating'[m] = IF m = n THEN p ELSE creating[m]
  BY <1>1, NodesAssumption DEF TreeIInv, TreeTypeOK
<1>4. RootStays'
  BY <1>1, <1>2, <1>3, NodesAssumption DEF RootStays
<1>5. Asked'
  <2>1. \A i \in DOMAIN ops : ops[i].node \in Nodes
    BY OpsTyped DEF TreeIInv
  <2> QED  BY <1>1, <1>2, <1>3, <2>1 DEF Asked
<1>6. Patient'
  <2> SUFFICES ASSUME mishaps' = {}
               PROVE  /\ \A m \in Nodes : parent'[m] # None => Live(parent[m])'
                      /\ reparenting' = None /\ dying' = <<>> /\ leaving' = {} /\ BeingCreated'
    BY DEF Patient
  <2>1. /\ ops = <<>> /\ dying = <<>> /\ leaving = {} /\ \A m \in Nodes : creating[m] = None
        /\ \A m \in Nodes : parent[m] # None => Live(parent[m])
    BY <1>2, ClickedPatience
  <2>2. Live(p) /\ p # n
    BY <1>1, VisibleLives DEF Live
  <2>3. \A m \in Nodes : m # n /\ Live(m) => Live(m)'
    BY <1>1, <1>2, <1>3 DEF Live
  <2>4. \A m \in Nodes : parent[m] # None => parent[m] \in Nodes /\ parent[m] # n /\ Live(parent[m])
    BY <1>1, <2>1 DEF Live, TreeIInv, TreeTypeOK
  <2>5. BeingCreated'
    BY <1>2, <1>3, <2>1, <2>2, <2>3 DEF BeingCreated
  <2> QED  BY <1>2, <2>1, <2>3, <2>4, <2>5
<1> QED  BY <1>2, <1>4, <1>5, <1>6, ClickedPatience

LEMMA KillNodePatient ==
    ASSUME TreeIInv, Patience, NEW n \in Clickable, KillNode(n)
    PROVE  Patience'
<1> USE DEF Patience
<1>1. /\ UNCHANGED <<parent, children, unborn, destroyed, doomed, ops, creating, leaving>>
      /\ reparenting' = None /\ dying' = <<n>> /\ Click
  BY DEF KillNode
<1>2. RootStays'
  BY <1>1, NodesAssumption DEF RootStays
<1>3. Asked'
  BY <1>1 DEF Asked, ToSet
<1>4. Patient'
  BY <1>1, ClickedPatience DEF Patient, BeingKilled, Live
<1> QED  BY <1>1, <1>2, <1>3, <1>4, ClickedPatience

LEMMA KillChildPatient ==
    ASSUME TreeIInv, Patience, KillChild
    PROVE  Patience'
<1> USE DEF Patience
<1>1. dying # <<>> /\ UNCHANGED <<parent, children, unborn, destroyed, reparenting, doomed, ops, creating, leaving, mishaps>>
  BY DEF KillChild
<1>2. RootStays' /\ PatienceRewarded'
  BY <1>1 DEF RootStays, PatienceRewarded
<1>3. Asked'
  BY <1>1 DEF Asked, ToSet
<1>4. Patient'
  <2> SUFFICES ASSUME mishaps' = {}
               PROVE  /\ \A m \in Nodes : parent'[m] # None => Live(parent[m])'
                      /\ reparenting' = None /\ BeingKilled'
    BY DEF Patient
  <2>1. /\ \A m \in Nodes : parent[m] # None => Live(parent[m])
        /\ reparenting = None /\ BeingKilled
    BY <1>1 DEF Patient, Calm
  <2>2. \A m \in Nodes : parent'[m] # None => Live(parent[m])'
    BY <1>1, <2>1 DEF Live
  <2>3. BeingKilled'
    BY <1>1, <2>1 DEF BeingKilled
  <2> QED  BY <1>1, <2>1, <2>2, <2>3
<1> QED  BY <1>2, <1>3, <1>4

(* A move begins. *)
LEMMA MoveQueuedPatient ==
    ASSUME TreeIInv, Patience, Click, NEW op \in Operations, op.kind = "detach", op.node # Root, ops' = Append(ops, op),
           reparenting' = None, UNCHANGED <<parent, children, unborn, destroyed, dying, doomed, creating, leaving>>,
           mishaps' = {} => /\ Target(op) /\ parent[op.node] # None
                            /\ op.idx = AtTheEnd \/ (op.to = parent[op.node] /\ op.idx < Len(children[op.to]))
    PROVE  Patience'
<1> USE DEF Patience
<1>1. /\ ops \in Seq(Operations) /\ ops' \in Seq(Operations)
      /\ \A i \in DOMAIN ops' : (i \in DOMAIN ops /\ ops'[i] = ops[i]) \/ (i = Len(ops) + 1 /\ ops'[i] = op)
      /\ \A i \in DOMAIN ops : i \in DOMAIN ops' /\ ops'[i] = ops[i]
  <2>1. ops \in Seq(Operations)
    BY DEF TreeIInv, TreeTypeOK
  <2> QED  BY <2>1, AppendedOp
<1>2. RootStays'
  BY <1>1, NodesAssumption DEF RootStays
<1>3. Asked'
  BY <1>1 DEF Asked, ToSet
<1>4. Patient'
  <2> SUFFICES ASSUME mishaps' = {}
               PROVE  /\ \A m \in Nodes : parent'[m] # None => Live(parent[m])'
                      /\ dying' = <<>> /\ leaving' = {} /\ BeingMoved'
    BY DEF Patient
  <2>1. /\ ops = <<>> /\ dying = <<>> /\ leaving = {} /\ \A m \in Nodes : creating[m] = None
        /\ \A m \in Nodes : parent[m] # None => Live(parent[m])
    BY ClickedPatience
  <2>2. Len(ops') = 1 /\ ops'[1] = op
    BY <2>1
  <2>3. \A m : Live(m)' <=> Live(m)
    BY DEF Live
  <2>4. Target(op)'
    BY <2>3 DEF Target
  <2>5. BeingMoved'
    BY <2>1, <2>2, <2>4 DEF BeingMoved
  <2> QED  BY <2>1, <2>3, <2>5
<1> QED  BY <1>2, <1>3, <1>4, ClickedPatience

LEMMA MovePatient ==
    ASSUME TreeIInv, Patience, NEW n \in Clickable, NEW up \in BOOLEAN, Move(n, up)
    PROVE  Patience'
<1> DEFINE siblings == children[parent[n]]
           idx == Index(siblings, n)
           op == Placing("detach", n, parent[n], IF up THEN idx - 1 ELSE idx + 1)
<1>1. n \in Nodes /\ parent[n] \in Nodes /\ parent[n] # None /\ n # Root /\ Visible(n)
  BY ParentOfVisible DEF TreeIInv, TreeTypeOK, Clickable
<1>2. siblings \in Seq(Nodes) /\ n \in ToSet(siblings)
  BY <1>1 DEF TreeIInv, TreeTypeOK, NodesLinked
<1>3. idx \in Nat /\ idx < Len(siblings) /\ Len(siblings) \in Nat
  <2>1. idx + 1 \in 1..Len(siblings) /\ idx = (CHOOSE i \in DOMAIN siblings : siblings[i] = n) - 1
    BY <1>2, Placed DEF Index
  <2>2. \E i \in DOMAIN siblings : siblings[i] = n
    BY <1>2 DEF ToSet
  <2>3. (CHOOSE i \in DOMAIN siblings : siblings[i] = n) \in Int
    BY <1>2, <2>2
  <2> QED  BY <1>2, <2>1, <2>3
<1> HIDE DEF idx, siblings
<1>4. /\ op \in Operations /\ op.kind = "detach" /\ op.node = n /\ op.to = parent[n]
      /\ op.idx = IF up THEN idx - 1 ELSE idx + 1
  BY <1>1, <1>3 DEF Placing, Operations
<1>5. ops' = Append(ops, op) /\ Click /\ reparenting' = None /\ (IF up THEN idx > 0 ELSE idx + 1 < Len(siblings))
      /\ UNCHANGED <<parent, children, unborn, destroyed, dying, doomed, creating, leaving>>
  BY DEF Move, Enqueue, idx, siblings
<1> HIDE DEF op
<1>6. op.idx < Len(children[op.to])
  BY <1>3, <1>4, <1>5 DEF siblings
<1>7. mishaps' = {} => Target(op)
  <2> SUFFICES ASSUME mishaps' = {} PROVE Target(op)
    OBVIOUS
  <2>1. Live(parent[n])
    BY <1>1, <1>5, ClickedPatience
  <2>2. n \notin Above(parent, parent[n])
    <3>1. parent \in [Nodes -> Nodes \union {None}] /\ parent[Root] = None
      BY DEF TreeIInv, TreeTypeOK, Patience, RootStays
    <3> QED  BY <1>1, <3>1, NoLoop DEF Visible
  <2> QED  BY <1>4, <2>1, <2>2 DEF Target
<1> QED  BY <1>1, <1>4, <1>5, <1>6, <1>7, MoveQueuedPatient

LEMMA ReparentPatient ==
    ASSUME TreeIInv, Patience, NEW n \in Clickable, Reparent(n)
    PROVE  Patience'
<1>1. n \in Nodes /\ n # Root /\ Visible(n) /\ parent[n] # None /\ Live(n)
  BY ParentOfVisible, VisibleLives DEF Clickable, TreeIInv, Patience
<1>2. /\ Click /\ UNCHANGED <<parent, children, unborn, destroyed, dying, doomed, creating, leaving>>
      /\ reparenting' = IF reparenting = None THEN n ELSE None
  BY DEF Reparent
<1>3. CASE /\ reparenting # None /\ ~IsDescendant(n, reparenting)
           /\ Enqueue(Placing("detach", reparenting, n, AtTheEnd))
  <2> DEFINE op == Placing("detach", reparenting, n, AtTheEnd)
  <2>1. op \in Operations /\ op.kind = "detach" /\ op.node = reparenting /\ op.to = n /\ op.idx = AtTheEnd
    BY <1>1, <1>3 DEF Placing, Operations, AtTheEnd, TreeIInv, TreeTypeOK
  <2>2. ops' = Append(ops, op) /\ reparenting' = None
    BY <1>2, <1>3 DEF Enqueue
  <2> HIDE DEF op
  <2>3. reparenting # Root /\ (mishaps' = {} => Target(op) /\ parent[op.node] # None)
    BY <1>1, <1>2, <1>3, <2>1, ClickedPatience DEF Target, IsDescendant, Patience, RootStays
  <2> QED  BY <1>2, <2>1, <2>2, <2>3, MoveQueuedPatient
<1>4. CASE ops' = ops
  <2>1. RootStays'
    BY <1>1, <1>2, <1>4, NodesAssumption DEF RootStays, Patience
  <2>2. Asked'
    BY <1>2, <1>4 DEF Asked, ToSet, Patience
  <2>3. Patient'
    <3> SUFFICES ASSUME mishaps' = {}
                 PROVE  /\ \A m \in Nodes : parent'[m] # None => Live(parent[m])'
                        /\ reparenting' # None => Calm' /\ parent'[reparenting'] # None
                        /\ BeingKilled'
      BY DEF Patient
    <3>1. /\ ops = <<>> /\ dying = <<>> /\ leaving = {} /\ \A m \in Nodes : creating[m] = None
          /\ \A m \in Nodes : parent[m] # None => Live(parent[m])
      BY <1>2, ClickedPatience
    <3>2. Calm' /\ BeingKilled'
      BY <1>2, <1>4, <3>1 DEF Calm, BeingKilled
    <3>3. \A m \in Nodes : parent'[m] # None => Live(parent[m])'
      BY <1>2, <3>1 DEF Live
    <3> QED  BY <1>1, <1>2, <3>2, <3>3
  <2> QED  BY <1>2, <2>1, <2>2, <2>3, ClickedPatience DEF Patience
<1> QED  BY <1>3, <1>4 DEF Reparent

LEMMA CreatedPatient ==
    ASSUME TreeIInv, Patience, NEW n \in Nodes, Created(n)
    PROVE  Patience'
<1> USE DEF Patience
<1> DEFINE p == creating[n]
           idx == Len(children[p])
           op == Placing("reparent", n, p, idx)
<1>1. p \in Nodes /\ idx \in Nat /\ parent[n] = None /\ n \notin destroyed /\ n \notin unborn /\ p # None /\ n # Root
  BY DEF Created, TreeIInv, TreeTypeOK, Loose, RootStays
<1>2. /\ Attach(n, p, idx) /\ ops' = Append(ops, op)
      /\ UNCHANGED <<unborn, destroyed, reparenting, dying, doomed, leaving, mishaps>>
  BY DEF Created, Enqueue
<1>3. \A m \in Nodes : creating'[m] = IF m = n THEN None ELSE creating[m]
  BY DEF Created, TreeIInv, TreeTypeOK
<1>4. op \in Operations /\ op.kind = "reparent" /\ op.node = n /\ op.to = p
  BY <1>1 DEF Placing, Operations
<1> HIDE DEF op, idx
<1>5. ops \in Seq(Operations) /\ Len(ops) \in Nat
  BY DEF TreeIInv, TreeTypeOK
<1>6. /\ \A i \in DOMAIN ops' : (i \in DOMAIN ops /\ ops'[i] = ops[i]) \/ (i = Len(ops) + 1 /\ ops'[i] = op)
      /\ \A i \in DOMAIN ops : i \in DOMAIN ops' /\ ops'[i] = ops[i]
  BY <1>2, <1>4, <1>5, AppendedOp
<1>7. \A m \in Nodes : parent'[m] = IF m = n THEN p ELSE parent[m]
  BY <1>1, <1>2, AttachedNode DEF TreeIInv
<1>8. RootStays'
  <2>1. parent'[Root] = None /\ creating'[Root] = None
    BY <1>1, <1>3, <1>7, NodesAssumption DEF RootStays
  <2>2. \A i \in DOMAIN ops' : ops'[i].kind \in {"detach", "attach"} => ops'[i].node # Root
    BY <1>4, <1>6 DEF RootStays
  <2> QED  BY <1>2, <2>1, <2>2 DEF RootStays
<1>9. Asked'
  <2>1. \A i \in DOMAIN ops : ops[i].node \in Nodes
    BY OpsTyped DEF TreeIInv
  <2>2. \A i \in DOMAIN ops : ops[i].kind \in {"orphan", "reparent"} =>
           /\ ops[i].node \notin unborn /\ creating'[ops[i].node] = None
           /\ ops[i].node \in destroyed =>
                 \/ ops[i].node \in ToSet(doomed)
                 \/ \E j \in DOMAIN ops' : i < j /\ ops'[j].kind = "leave" /\ ops'[j].node = ops[i].node
    BY <1>3, <1>6, <2>1 DEF Asked
  <2>3. ToSet(doomed') = ToSet(doomed)
    BY <1>2
  <2> QED  BY <1>1, <1>2, <1>3, <1>4, <1>6, <2>2, <2>3 DEF Asked
<1>10. Patient'
  <2> SUFFICES ASSUME mishaps' = {}
               PROVE  /\ \A m \in Nodes : parent'[m] # None => Live(parent[m])'
                      /\ reparenting' = None /\ dying' = <<>> /\ leaving' = {} /\ BeingMoved'
    BY DEF Patient
  <2>1. /\ ops = <<>> /\ dying = <<>> /\ leaving = {} /\ Live(p) /\ p # n
        /\ \A m \in Nodes : m # n => creating[m] = None
    BY <1>1, <1>2, CreationAccepted
  <2>2. (\A m \in Nodes : parent[m] # None => Live(parent[m])) /\ reparenting = None
    BY <1>1, <1>2 DEF Patient, Calm
  <2>3. \A m \in Nodes : Live(m) => Live(m)'
    BY <1>2, <1>3 DEF Live
  <2>4. \A m \in Nodes : parent'[m] # None => Live(parent[m])'
    <3> TAKE m \in Nodes
    <3>1. CASE m = n
      <4>1. parent'[m] = p
        BY <1>7, <3>1
      <4>2. p \in Nodes /\ Live(p)
        BY <1>1, <2>1
      <4>3. p \notin unborn' \union destroyed' /\ creating'[p] = None
        BY <2>3, <4>2 DEF Live
      <4> QED  BY <4>1, <4>3 DEF Live
    <3>2. CASE m # n
      <4>1. parent'[m] = parent[m] /\ (parent[m] # None => parent[m] \in Nodes /\ Live(parent[m])')
        <5>1. parent[m] # None => parent[m] \in Nodes /\ Live(parent[m])
          BY <2>2 DEF TreeIInv, TreeTypeOK
        <5>2. ASSUME NEW x, x \in Nodes, Live(x) PROVE x \notin unborn' \union destroyed' /\ creating'[x] = None
          BY <2>3, <5>2 DEF Live
        <5> QED  BY <1>7, <3>2, <5>1, <5>2 DEF Live
      <4> QED  BY <4>1 DEF Live
    <3> QED  BY <3>1, <3>2
  <2>5. Len(ops') = 1 /\ ops'[1] = op
    BY <1>2, <2>1
  <2>6. BeingMoved'
    BY <1>1, <1>3, <1>4, <2>1, <2>3, <2>5 DEF BeingMoved
  <2> QED  BY <1>2, <2>1, <2>2, <2>4, <2>6
<1> QED  BY <1>2, <1>8, <1>9, <1>10 DEF PatienceRewarded

LEMMA RunAttachPatient ==
    ASSUME TreeIInv, Patience, RunAttach
    PROVE  Patience'
<1> USE DEF Patience
<1> DEFINE op == Head(ops)
           n == op.node
           p == op.to
           idx == IF op.idx = AtTheEnd THEN Len(children[p]) ELSE op.idx
           new == Placing("reparent", n, p, idx)
           q == Tail(ops)
<1>1. /\ ops # <<>> /\ op.kind = "attach" /\ dying = <<>> /\ Attach(n, p, idx)
      /\ \/ ops' = Append(q, new) /\ mishaps' = mishaps
         \/ ops' = q /\ mishaps' = mishaps \union {"thrown"} /\ idx > Len(children[p]) + 1
      /\ UNCHANGED <<unborn, destroyed, reparenting, dying, doomed, creating, leaving>>
  BY DEF RunAttach, Next1, Throws
<1>2. /\ ops \in Seq(Operations) /\ 1 \in DOMAIN ops /\ op = ops[1] /\ op \in Operations
      /\ q \in Seq(Operations)
      /\ \A i \in DOMAIN q : i + 1 \in DOMAIN ops /\ i + 1 # 1 /\ q[i] = ops[i + 1]
      /\ \A i \in DOMAIN ops : i # 1 => i - 1 \in DOMAIN q /\ q[i - 1] = ops[i]
  BY <1>1, FirstOp DEF TreeIInv, TreeTypeOK
<1>3. n \in Nodes /\ p \in Nodes /\ p # None /\ idx \in Nat
  <2>1. n \in Nodes /\ p \in Nodes /\ op.idx >= -1 /\ op.idx \in Int
    BY <1>1, <1>2 DEF TreeIInv, TreeTypeOK, Operations
  <2>2. children[p] \in Seq(Nodes)
    BY <2>1 DEF TreeIInv, TreeTypeOK
  <2> HIDE DEF op
  <2> QED  BY <2>1, <2>2, NodesAssumption DEF AtTheEnd
<1>4. new \in Operations /\ new.kind = "reparent" /\ new.node = n /\ new.to = p
  BY <1>3 DEF Placing, Operations
<1>5. parent[n] = None /\ creating[n] = None /\ n \notin destroyed /\ n \notin unborn /\ n # Root
  BY <1>1, <1>2 DEF TreeIInv, Queued, RootStays
<1>m. mishaps = {} => ops' = Append(q, new) /\ mishaps' = mishaps
  <2> SUFFICES ASSUME mishaps = {} PROVE idx <= Len(children[p])
    BY <1>1, <1>3 DEF TreeIInv, TreeTypeOK
  <2>1. Fits(op)
    BY <1>1, MoveAccepted
  <2>2. children[p] \in Seq(Nodes)
    BY <1>3 DEF TreeIInv, TreeTypeOK
  <2> QED  BY <1>3, <2>1, <2>2 DEF Fits, AtTheEnd
<1> HIDE DEF new, idx
<1>6. /\ \A i \in DOMAIN ops' : (i \in DOMAIN q /\ ops'[i] = q[i]) \/ (i = Len(q) + 1 /\ ops'[i] = new)
      /\ \A i \in DOMAIN q : i \in DOMAIN ops' /\ ops'[i] = q[i]
  <2>1. CASE ops' = Append(q, new)
    BY <1>2, <1>4, <2>1, AppendedOp
  <2>2. CASE ops' = q
    BY <1>2, <2>2
  <2> QED  BY <1>1, <2>1, <2>2
<1>7. \A m \in Nodes : parent'[m] = IF m = n THEN p ELSE parent[m]
  BY <1>1, <1>3, <1>5, AttachedNode DEF TreeIInv
<1>n. DOMAIN q = 1..Len(q) /\ Len(q) \in Nat /\ DOMAIN ops = 1..Len(ops) /\ Len(ops) \in Nat
  BY <1>2
<1>8. RootStays'
  <2>1. parent'[Root] = None
    BY <1>5, <1>7, NodesAssumption DEF RootStays
  <2>2. \A i \in DOMAIN ops' : ops'[i].kind \in {"detach", "attach"} => ops'[i].node # Root
    BY <1>2, <1>4, <1>6 DEF RootStays
  <2> QED  BY <1>1, <2>1, <2>2 DEF RootStays
<1>9. Asked'
  <2>1. ASSUME NEW i \in DOMAIN ops', ops'[i].kind \in {"orphan", "reparent"}
        PROVE  /\ ops'[i].node \notin unborn /\ creating[ops'[i].node] = None
               /\ ops'[i].node \in destroyed =>
                     \/ ops'[i].node \in ToSet(doomed)
                     \/ \E j \in DOMAIN ops' : i < j /\ ops'[j].kind = "leave" /\ ops'[j].node = ops'[i].node
    <3>1. CASE ops'[i] = new
      BY <1>4, <1>5, <3>1
    <3>2. CASE i \in DOMAIN q /\ ops'[i] = q[i]
      <4>1. i + 1 \in DOMAIN ops /\ ops'[i] = ops[i + 1]
        BY <1>2, <3>2
      <4>2. /\ ops'[i].node \notin unborn /\ creating[ops'[i].node] = None
            /\ ops'[i].node \in destroyed =>
                  \/ ops'[i].node \in ToSet(doomed)
                  \/ \E j \in DOMAIN ops : i + 1 < j /\ ops[j].kind = "leave" /\ ops[j].node = ops'[i].node
        BY <2>1, <4>1 DEF Asked
      <4>3. ASSUME NEW j \in DOMAIN ops, i + 1 < j
            PROVE  j - 1 \in DOMAIN ops' /\ i < j - 1 /\ ops'[j - 1] = ops[j]
        <5>1. j # 1 /\ i < j - 1
          BY <1>n, <3>2, <4>3
        <5> QED  BY <1>2, <1>6, <5>1
      <4> QED  BY <4>2, <4>3
    <3> QED  BY <1>6, <3>1, <3>2
  <2>2. ToSet(doomed') = ToSet(doomed)
    BY <1>1
  <2> QED  BY <1>1, <2>1, <2>2 DEF Asked
<1>10. Patient'
  <2> SUFFICES ASSUME mishaps' = {}
               PROVE  /\ \A m \in Nodes : parent'[m] # None => Live(parent[m])'
                      /\ reparenting' = None /\ dying' = <<>> /\ leaving' = {} /\ BeingMoved'
    BY DEF Patient
  <2>0. mishaps = {}
    BY <1>1
  <2>1. Len(ops) = 1 /\ leaving = {} /\ Live(p) /\ \A m \in Nodes : creating[m] = None
    BY <1>1, <2>0, MoveAccepted DEF Target
  <2>2. (\A m \in Nodes : parent[m] # None => Live(parent[m])) /\ reparenting = None
    BY <1>1, <2>0 DEF Patient, Calm
  <2>3. \A m \in Nodes : Live(m) => Live(m)'
    BY <1>1 DEF Live
  <2>4. \A m \in Nodes : parent'[m] # None => Live(parent[m])'
    <3> TAKE m \in Nodes
    <3>1. CASE m = n
      <4>1. parent'[m] = p
        BY <1>7, <3>1
      <4>2. p \in Nodes /\ Live(p)
        BY <1>3, <2>1
      <4>3. p \notin unborn' \union destroyed' /\ creating'[p] = None
        BY <2>3, <4>2 DEF Live
      <4> QED  BY <4>1, <4>3 DEF Live
    <3>2. CASE m # n
      <4>1. parent'[m] = parent[m] /\ (parent[m] # None => parent[m] \in Nodes /\ Live(parent[m])')
        <5>1. parent[m] # None => parent[m] \in Nodes /\ Live(parent[m])
          BY <2>2 DEF TreeIInv, TreeTypeOK
        <5>2. ASSUME NEW x, x \in Nodes, Live(x) PROVE x \notin unborn' \union destroyed' /\ creating'[x] = None
          BY <2>3, <5>2 DEF Live
        <5> QED  BY <1>7, <3>2, <5>1, <5>2 DEF Live
      <4> QED  BY <4>1 DEF Live
    <3> QED  BY <3>1, <3>2
  <2>5. q = <<>>
    <3>1. Len(q) = Len(ops) - 1
      BY <1>1, <1>2, HeadTailProperties
    <3>2. Len(q) = 0
      BY <2>1, <3>1
    <3> QED  BY <1>2, <3>2, EmptySeq
  <2>6. Len(ops') = 1 /\ ops'[1] = new
    <3>1. ops' = Append(<<>>, new)
      BY <1>m, <2>0, <2>5
    <3> QED  BY <3>1
  <2>7. BeingMoved'
    BY <1>1, <1>3, <1>4, <2>1, <2>3, <2>6 DEF BeingMoved
  <2> QED  BY <1>1, <2>1, <2>2, <2>4, <2>7
<1>11. PatienceRewarded'
  BY <1>1, <1>m DEF TreeIInv, TreeTypeOK, PatienceRewarded
<1> QED  BY <1>8, <1>9, <1>10, <1>11

LEMMA RunLeavePatient ==
    ASSUME TreeIInv, Patience, RunLeave
    PROVE  Patience'
<1> USE DEF Patience
<1>1. /\ ops # <<>> /\ Head(ops).kind = "leave" /\ dying = <<>> /\ ops' = Tail(ops)
      /\ leaving' = leaving \union {Head(ops).node} /\ UNCHANGED <<local, creating, mishaps>>
  BY DEF RunLeave, Next1
<1>2. UNCHANGED <<parent, unborn, destroyed, reparenting, dying>>
  BY <1>1 DEF local
<1>3. /\ ops \in Seq(Operations) /\ 1 \in DOMAIN ops /\ Head(ops) = ops[1]
      /\ \A i \in DOMAIN ops' : i + 1 \in DOMAIN ops /\ i + 1 # 1 /\ ops'[i] = ops[i + 1]
  BY <1>1, FirstOp DEF TreeIInv, TreeTypeOK
<1>4. RootStays' /\ Asked'
  BY <1>1, PoppedPatience
<1>5. Patient'
  <2> SUFFICES ASSUME mishaps' = {}
               PROVE  /\ \A m \in Nodes : parent'[m] # None => Live(parent[m])'
                      /\ reparenting' = None /\ BeingKilled'
    BY DEF Patient
  <2>1. /\ \A m \in Nodes : parent[m] # None => Live(parent[m])
        /\ reparenting = None /\ BeingKilled
    BY <1>1, <1>3 DEF Patient, Calm, BeingCreated, BeingMoved
  <2>2. DOMAIN ops = 1..Len(ops) /\ Len(ops) \in Nat
    BY <1>3
  <2>3. \A i \in DOMAIN ops : i # 1 => 1 < i
    BY <2>2
  <2>4. \A i \in DOMAIN ops' : ops'[i].kind = "leave"
    BY <1>1, <1>3, <2>1, <2>3 DEF BeingKilled
  <2>5. BeingKilled'
    BY <1>1, <1>2, <2>1, <2>4 DEF BeingKilled
  <2>6. \A m \in Nodes : parent'[m] # None => Live(parent[m])'
    BY <1>1, <1>2, <2>1 DEF Live
  <2> QED  BY <1>2, <2>1, <2>5, <2>6
<1> QED  BY <1>1, <1>4, <1>5 DEF PatienceRewarded

(* The server does what the first operation asks. *)
LEMMA FirstAccepted ==
    ASSUME TreeIInv, Asked, mishaps = {}, ops # <<>>, Head(ops).kind \in {"orphan", "reparent"}
    PROVE  Head(ops).node \in steps /\ Accepted(Head(ops), Server)
<1> DEFINE n == Head(ops).node
<1>1. /\ ops \in Seq(Operations) /\ 1 \in DOMAIN ops /\ Head(ops) = ops[1] /\ 1 \in 1..Len(ops)
      /\ ops[1] \in Operations
  BY FirstOp DEF TreeIInv, TreeTypeOK
<1>2. Accepted(Head(ops), Server)
  <2>1. PICK path : Follows(mishaps, path, Server, ops, Client)
    BY DEF TreeIInv, OnItsWay
  <2>2. Leads(mishaps, ops[1], path[0], path[1]) /\ path[0] = Server
    BY <1>1, <2>1 DEF Follows
  <2> QED  BY <1>1, <2>2 DEF Leads
<1>3. n \in Nodes \ unborn /\ creating[n] = None /\ (n \in destroyed => n \in ToLeave)
  <2>1. n \in Nodes
    BY <1>1 DEF Operations
  <2> QED  BY <1>1, <2>1 DEF Asked, ToLeave
<1>4. n \in steps
  BY <1>3 DEF TreeIInv, Tracked
<1> QED  BY <1>2, <1>4

LEMMA AnswerOrphanPatient ==
    ASSUME TreeIInv, Patience, AnswerOrphan
    PROVE  Patience'
<1> USE DEF Patience
<1>1. /\ ops # <<>> /\ Head(ops).kind = "orphan" /\ dying = <<>> /\ ops' = Tail(ops)
      /\ UNCHANGED <<local, creating, leaving>>
  BY DEF AnswerOrphan, Next1
<1>2. UNCHANGED <<parent, unborn, destroyed, reparenting, dying>>
  BY <1>1 DEF local
<1>3. /\ ops \in Seq(Operations) /\ 1 \in DOMAIN ops /\ Head(ops) = ops[1]
      /\ ops' \in Seq(Operations) /\ \A i \in DOMAIN ops' : i + 1 \in DOMAIN ops /\ i + 1 # 1 /\ ops'[i] = ops[i + 1]
  BY <1>1, FirstOp DEF TreeIInv, TreeTypeOK
<1>4. RootStays' /\ Asked'
  BY <1>1, PoppedPatience
<1>5. mishaps \subseteq mishaps' /\ mishaps' \subseteq mishaps \union {"refused"}
  BY DEF AnswerOrphan, Refuse
<1>6. mishaps = {} => mishaps' = {}
  <2>1. mishaps = {} => Head(ops).node \in steps /\ stepParent[Head(ops).node] # None
    BY <1>1, FirstAccepted DEF Accepted, Server, Tree
  <2> QED  BY <2>1 DEF AnswerOrphan
<1>7. PatienceRewarded'
  BY <1>5, <1>6 DEF PatienceRewarded, TreeIInv, TreeTypeOK
<1>8. Patient'
  <2> SUFFICES ASSUME mishaps' = {}
               PROVE  /\ \A m \in Nodes : parent'[m] # None => Live(parent[m])'
                      /\ reparenting' = None /\ dying' = <<>> /\ leaving' = {} /\ (BeingKilled' \/ BeingMoved')
    BY DEF Patient
  <2>0. mishaps = {}
    BY <1>5
  <2>1. /\ \A m \in Nodes : parent[m] # None => Live(parent[m])
        /\ reparenting = None /\ leaving = {} /\ (BeingKilled \/ BeingMoved)
    BY <1>1, <1>3, <2>0 DEF Patient, Calm, BeingCreated, BeingKilled
  <2>2. \A m : Live(m)' <=> Live(m)
    BY <1>1, <1>2 DEF Live
  <2>3. DOMAIN ops = 1..Len(ops) /\ Len(ops) \in Nat /\ DOMAIN ops' = 1..Len(ops') /\ Len(ops') = Len(ops) - 1
    BY <1>1, <1>3, HeadTailProperties
  <2>4. ASSUME BeingKilled PROVE BeingKilled'
    <3>1. \A i, j \in DOMAIN ops' : i < j => i + 1 < j + 1
      BY <2>3
    <3> QED  BY <1>1, <1>2, <1>3, <2>1, <2>4, <3>1 DEF BeingKilled
  <2>5. ASSUME BeingMoved PROVE BeingMoved'
    <3>1. Len(ops) = 2 /\ ops[2].kind = "attach" /\ Target(ops[2]) /\ Fits(ops[2]) /\ \A m \in Nodes : creating[m] = None
      BY <1>1, <1>3, <2>3, <2>5 DEF BeingMoved
    <3>2. Len(ops') = 1 /\ ops'[1] = ops[2]
      BY <1>3, <2>3, <3>1
    <3>3. Target(ops[Len(ops)])' /\ Fits(ops[Len(ops)])'
      BY <1>1, <1>2, <3>1, <3>2 DEF Target, Fits, Live, local
    <3>4. ops'[Len(ops')].kind = "attach" /\ Len(ops') \in 1..2 /\ Len(ops') # 2
      BY <3>1, <3>2
    <3> QED  BY <1>1, <3>1, <3>3, <3>4 DEF BeingMoved
  <2> QED  BY <1>1, <1>2, <2>1, <2>2, <2>4, <2>5 DEF Live
<1> QED  BY <1>4, <1>7, <1>8

LEMMA AnswerReparentPatient ==
    ASSUME TreeIInv, Patience, AnswerReparent
    PROVE  Patience'
<1> USE DEF Patience
<1> DEFINE op == Head(ops)
           n == op.node
           p == op.to
<1>1. /\ ops # <<>> /\ op.kind = "reparent" /\ dying = <<>> /\ ops' = Tail(ops)
      /\ UNCHANGED <<local, creating, leaving>>
  BY DEF AnswerReparent, Next1
<1>2. UNCHANGED <<parent, unborn, destroyed, reparenting, dying>>
  BY <1>1 DEF local
<1>3. ops \in Seq(Operations) /\ 1 \in DOMAIN ops /\ op = ops[1] /\ ops' \in Seq(Operations)
  BY <1>1, FirstOp DEF TreeIInv, TreeTypeOK
<1>4. RootStays' /\ Asked'
  BY <1>1, PoppedPatience
<1>5. mishaps \subseteq mishaps' /\ mishaps' \subseteq mishaps \union {"refused"}
  BY DEF AnswerReparent, Refuse
<1>6. ASSUME mishaps = {}
      PROVE  /\ \A m \in Nodes : parent[m] # None => Live(parent[m])
             /\ reparenting = None /\ leaving = {} /\ Len(ops) = 1 /\ Live(p) /\ \A m \in Nodes : creating[m] = None
  BY <1>1, <1>3, <1>6 DEF Patient, Calm, BeingCreated, BeingKilled, BeingMoved
<1>7. ASSUME mishaps = {} PROVE mishaps' = {}
  <2>1. /\ n \in steps /\ stepParent[n] = None /\ op.idx <= Len(stepChildren[p])
        /\ stepParent[p] # None => n \notin Above(stepParent, stepParent[p])
    BY <1>1, <1>7, FirstAccepted DEF Accepted, Server, Tree
  <2>2. p \in Nodes
    BY <1>1, <1>3 DEF TreeIInv, TreeTypeOK
  <2>3. p \in steps
    BY <1>6, <1>7, <2>2 DEF Live, TreeIInv, Tracked
  <2>4. n \notin StepAncestors(stepParent[p])
    BY <2>1 DEF StepAncestors
  <2> HIDE DEF op
  <2> QED  BY <1>7, <2>1, <2>3, <2>4 DEF AnswerReparent, op
<1>8. PatienceRewarded'
  BY <1>5, <1>7 DEF PatienceRewarded, TreeIInv, TreeTypeOK
<1>9. Patient'
  <2> SUFFICES ASSUME mishaps' = {}
               PROVE  /\ \A m \in Nodes : parent'[m] # None => Live(parent[m])'
                      /\ reparenting' = None /\ BeingKilled'
    BY DEF Patient
  <2>1. mishaps = {}
    BY <1>5
  <2>2. ops' = <<>>
    <3>1. Len(ops') = Len(ops) - 1
      BY <1>1, <1>3, HeadTailProperties
    <3>2. Len(ops') = 0
      BY <1>6, <2>1, <3>1
    <3> QED  BY <1>3, <3>2, EmptySeq
  <2>3. \A m \in Nodes : parent'[m] # None => Live(parent[m])'
    BY <1>1, <1>2, <1>6, <2>1 DEF Live
  <2>4. BeingKilled'
    BY <1>1, <1>2, <1>6, <2>1, <2>2 DEF BeingKilled
  <2> QED  BY <1>2, <1>6, <2>1, <2>3, <2>4
<1> QED  BY <1>4, <1>8, <1>9

LEMMA LosePatient ==
    ASSUME TreeIInv, Patience, Lose
    PROVE  Patience'
<1> USE DEF Patience
<1>1. ops # <<>> /\ ops' = Tail(ops) /\ UNCHANGED <<local, creating>> /\ "lost" \in mishaps'
  BY DEF Lose
<1>2. RootStays' /\ Asked'
  BY <1>1, PoppedPatience
<1> QED  BY <1>1, <1>2 DEF Patient, PatienceRewarded

(* Operations that destroy ask nothing of the trees. *)
LEMMA PathOfLeaves ==
    ASSUME NEW wrong, NEW path, NEW from, NEW S, NEW q \in Seq(S), NEW to, Follows(wrong, path, from, q, to),
           \A i \in DOMAIN q : q[i].kind = "leave"
    PROVE  from = to
<1>1. Len(q) \in Nat /\ DOMAIN q = 1..Len(q)
  OBVIOUS
<1> DEFINE Other == {i \in 0..Len(q) : path[i] # from}
<1>2. ASSUME Other # {} PROVE FALSE
  <2>1. Other \subseteq Nat
    BY <1>1
  <2>2. PICK i \in Other : \A j \in Other : i <= j
    BY <1>2, <2>1, Least
  <2>3. i # 0 /\ i \in 1..Len(q) /\ i - 1 \in 0..Len(q)
    BY <1>1 DEF Follows
  <2>4. i - 1 \notin Other
    BY <1>1, <2>2, <2>3
  <2>5. path[i] = path[i - 1]
    BY <1>1, <2>3 DEF Follows, Leads
  <2> QED  BY <2>3, <2>4, <2>5
<1>3. Len(q) \in 0..Len(q)
  BY <1>1
<1> QED  BY <1>2, <1>3 DEF Follows

LEMMA AnswerDestroyPatient ==
    ASSUME TreeIInv, Patience, NEW n \in Nodes, AnswerDestroy(n)
    PROVE  Patience'
<1> USE DEF Patience
<1>1. /\ n \in leaving /\ leaving' = leaving \ {n} /\ dying = <<>>
      /\ UNCHANGED <<parent, children, unborn, destroyed, reparenting, dying, doomed, ops, creating>>
  BY DEF AnswerDestroy, Waits, local
<1>2. RootStays' /\ Asked'
  BY <1>1 DEF RootStays, Asked, ToSet
<1>3. mishaps \subseteq mishaps' /\ mishaps' \subseteq mishaps \union {"refused"}
  BY DEF AnswerDestroy, Refuse
<1>4. ASSUME mishaps = {}
      PROVE  /\ \A m \in Nodes : parent[m] # None => Live(parent[m])
             /\ reparenting = None /\ BeingKilled /\ \A i \in DOMAIN ops : ops[i].kind = "leave"
  BY <1>1, <1>4 DEF Patient, Calm, BeingKilled
<1>5. ASSUME mishaps = {} PROVE mishaps' = {}
  <2>1. Server = Client
    <3>1. PICK path : Follows(mishaps, path, Server, ops, Client)
      BY <1>5 DEF TreeIInv, OnItsWay
    <3>2. ops \in Seq(Operations)
      BY DEF TreeIInv, TreeTypeOK
    <3> QED  BY <1>4, <1>5, <3>1, <3>2, PathOfLeaves
  <2>2. stepParent = parent /\ stepChildren = children
    BY <2>1 DEF Server, Client, Tree
  <2>3. n \in destroyed
    BY <1>1 DEF TreeIInv, Queued
  <2>4. n \in steps
    BY <1>1, <1>5, <2>3 DEF TreeIInv, Tracked, ToLeave, Loose
  <2>5. children[n] = <<>>
    <3>1. children[n] \in Seq(Nodes)
      BY DEF TreeIInv, TreeTypeOK
    <3>2. \A m \in Nodes : parent[m] # n
      BY <1>4, <1>5, <2>3, NodesAssumption DEF Live
    <3>3. ToSet(children[n]) = {}
      BY <3>1, <3>2 DEF TreeIInv, NodesLinked, ToSet
    <3>4. children[n] # <<>> => 1 \in DOMAIN children[n]
      BY <3>1
    <3> QED  BY <3>3, <3>4 DEF ToSet
  <2>6. parent[n] = None
    BY <2>3 DEF TreeIInv, Loose
  <2> QED  BY <1>5, <2>2, <2>4, <2>5, <2>6 DEF AnswerDestroy
<1>6. PatienceRewarded'
  BY <1>3, <1>5 DEF PatienceRewarded, TreeIInv, TreeTypeOK
<1>7. Patient'
  <2> SUFFICES ASSUME mishaps' = {}
               PROVE  /\ \A m \in Nodes : parent'[m] # None => Live(parent[m])'
                      /\ reparenting' = None /\ BeingKilled'
    BY DEF Patient
  <2>1. mishaps = {}
    BY <1>3
  <2>2. \A m \in Nodes : parent'[m] # None => Live(parent[m])'
    BY <1>1, <1>4, <2>1 DEF Live
  <2>3. BeingKilled'
    BY <1>1, <1>4, <2>1 DEF BeingKilled
  <2> QED  BY <1>1, <1>4, <2>1, <2>2, <2>3
<1> QED  BY <1>2, <1>6, <1>7

-----------------------------------------------------------------------------
LEMMA TreeInitHolds ==
    ASSUME TreeInit
    PROVE  TreeIInv
<1>1. parent \in [Nodes -> Nodes \union {None}] /\ parent[Root] = None
  BY ShapesAssumption DEF TreeInit
<1>2. \A p \in Nodes : LET S == {n \in Nodes : parent[n] = p} IN
         SetToSeq(S) \in Seq(S) /\ IsInjective(SetToSeq(S)) /\ ToSet(SetToSeq(S)) = S
  <2> TAKE p \in Nodes
  <2>1. IsFiniteSet({n \in Nodes : parent[n] = p})
    BY NodesAssumption, FS_Subset
  <2> QED  BY <2>1, Listed
<1>3. ASSUME NEW p \in Nodes
      PROVE  children[p] \in Seq(Nodes) /\ IsInjective(children[p]) /\ ToSet(children[p]) = {n \in Nodes : parent[n] = p}
  <2>1. children[p] = SetToSeq({n \in Nodes : parent[n] = p})
    BY DEF TreeInit
  <2>2. Seq({n \in Nodes : parent[n] = p}) \subseteq Seq(Nodes)
    OBVIOUS
  <2> QED  BY <1>2, <2>1, <2>2
<1>4. children \in [Nodes -> Seq(Nodes)]
  BY <1>3 DEF TreeInit
<1>5. /\ ops = <<>> /\ dying = <<>> /\ doomed = <<>> /\ destroyed = {} /\ leaving = {} /\ mishaps = {}
      /\ unborn = {n \in Nodes \ {Root} : parent[n] = None} /\ creating = [n \in Nodes |-> None] /\ reparenting = None
      /\ steps = Nodes \ unborn /\ stepParent = parent /\ stepChildren = children
  BY DEF TreeInit
<1>6. TreeTypeOK
  BY <1>1, <1>4, <1>5 DEF TreeTypeOK
<1>7. NodesLinked
  BY <1>3 DEF NodesLinked
<1>8. Loose
  BY <1>5 DEF Loose
<1>9. Queued /\ Killing
  BY <1>5 DEF Queued, Killing, ToSet, IsInjective
<1>10. Tracked
  BY <1>5 DEF Tracked
<1>11. OnItsWay
  <2> DEFINE path == [i \in Nat |-> Client]
  <2>1. Follows(mishaps, path, Server, ops, Client)
    BY <1>5 DEF Follows, Server, Client
  <2> QED  BY <2>1 DEF OnItsWay
<1> QED  BY <1>6, <1>7, <1>8, <1>9, <1>10, <1>11 DEF TreeIInv

LEMMA PatienceHolds ==
    ASSUME TreeInit
    PROVE  Patience
<1>1. /\ ops = <<>> /\ dying = <<>> /\ destroyed = {} /\ leaving = {} /\ mishaps = {} /\ reparenting = None
      /\ unborn = {n \in Nodes \ {Root} : parent[n] = None} /\ \A n \in Nodes : creating[n] = None
  BY DEF TreeInit
<1>2. /\ parent \in [Nodes -> Nodes \union {None}] /\ parent[Root] = None
      /\ \A n \in Nodes : parent[n] \in {None, Root} \/ parent[parent[n]] # None
  BY ShapesAssumption DEF TreeInit
<1>3. RootStays
  BY <1>1, <1>2, NodesAssumption DEF RootStays
<1>4. Asked
  BY <1>1 DEF Asked
<1>5. \A n \in Nodes : parent[n] # None => Live(parent[n])
  BY <1>1, <1>2, NodesAssumption DEF Live
<1>6. BeingKilled
  BY <1>1 DEF BeingKilled
<1> QED  BY <1>1, <1>3, <1>4, <1>5, <1>6 DEF Patience, Patient, PatienceRewarded

LEMMA TreeStepKeeps ==
    ASSUME TreeIInv, Patience, [TreeNext]_treeVars
    PROVE  TreeIInv' /\ Patience'
<1>1. CASE TreeNext
  <2>1. ASSUME NEW n \in Clickable, KillNode(n) \/ Reparent(n) PROVE TreeIInv' /\ Patience'
    BY <2>1, KillNodeKeeps, ReparentKeeps, KillNodePatient, ReparentPatient
  <2>2. ASSUME NEW p \in Nodes, Visible(p), CreateChild(p) PROVE TreeIInv' /\ Patience'
    BY <2>2, CreateChildKeeps, CreateChildPatient
  <2>3. ASSUME NEW n \in Nodes, Created(n) \/ AnswerDestroy(n) PROVE TreeIInv' /\ Patience'
    BY <2>3, CreatedKeeps, AnswerDestroyKeeps, CreatedPatient, AnswerDestroyPatient
  <2>4. ASSUME NEW n \in Clickable, NEW up \in BOOLEAN, Move(n, up) PROVE TreeIInv' /\ Patience'
    BY <2>4, MoveKeeps, MovePatient
  <2>5. ASSUME KillChild \/ KillLeaf PROVE TreeIInv' /\ Patience'
    BY <2>5, KillChildKeeps, KillLeafKeeps, KillChildPatient
  <2>6. ASSUME RunDetach \/ RunAttach \/ RunLeave PROVE TreeIInv' /\ Patience'
    BY <2>6, RunDetachKeeps, RunAttachKeeps, RunLeaveKeeps, RunAttachPatient, RunLeavePatient
  <2>7. ASSUME AnswerOrphan \/ AnswerReparent \/ Lose PROVE TreeIInv' /\ Patience'
    BY <2>7, AnswerOrphanKeeps, AnswerReparentKeeps, LoseKeeps, AnswerOrphanPatient, AnswerReparentPatient, LosePatient
  <2> QED  BY <1>1, <2>1, <2>2, <2>3, <2>4, <2>5, <2>6, <2>7 DEF TreeNext
<1>2. CASE UNCHANGED treeVars
  <2>1. TreeIInv'
    BY <1>2 DEF treeVars, local, remote, TreeIInv, TreeTypeOK, NodesLinked, Loose, Queued, Killing, Tracked, ToLeave,
                OnItsWay, Server, Client
  <2>2. Patience'
    BY <1>2 DEF treeVars, local, remote, Patience, RootStays, Asked, Patient, PatienceRewarded, Live, Calm,
                BeingKilled, BeingCreated, BeingMoved, Target, Fits
  <2> QED  BY <2>1, <2>2
<1> QED  BY <1>1, <1>2

(* When nothing is under way the trees are the same *)
LEMMA CalmAgrees ==
    ASSUME TreeIInv
    PROVE  TreesAgree
<1> SUFFICES ASSUME Calm, mishaps \intersect {"lost", "refused", "thrown"} = {}
             PROVE  /\ steps = Nodes \ (unborn \union destroyed)
                    /\ \A n \in steps : stepParent[n] = parent[n] /\ stepChildren[n] = children[n]
  BY DEF TreesAgree
<1>1. ops = <<>> /\ dying = <<>> /\ leaving = {} /\ doomed = <<>> /\ \A n \in Nodes : creating[n] = None
  BY DEF Calm, TreeIInv, Killing
<1>2. steps = Nodes \ (unborn \union destroyed)
  <2>1. ToLeave = {}
    BY <1>1 DEF ToLeave, ToSet
  <2> QED  BY <1>1, <2>1 DEF TreeIInv, Tracked
<1>3. Server = Client
  <2>1. PICK path : Follows(mishaps, path, Server, ops, Client)
    BY DEF TreeIInv, OnItsWay
  <2>2. Len(ops) = 0
    BY <1>1
  <2> QED  BY <2>1, <2>2 DEF Follows
<1>4. stepParent = parent /\ stepChildren = children
  BY <1>3 DEF Server, Client, Tree
<1> QED  BY <1>2, <1>4

(* However the user clicks, and however late the answers come, once all of *)
(* them have arrived the server has the tree of the browser, unless a      *)
(* request was lost or refused or a move threw before it made its request  *)
(* (tree_workset.ts:399-466, tree_editor.ts:267, op_queue.ts).             *)
THEOREM ServerFollows == TreeSpec => []TreesAgree
<1>1. TreeInit => TreeIInv /\ Patience
  BY TreeInitHolds, PatienceHolds
<1>2. TreeIInv /\ Patience /\ [TreeNext]_treeVars => TreeIInv' /\ Patience'
  BY TreeStepKeeps
<1>3. TreeIInv => TreesAgree
  BY CalmAgrees
<1> QED  BY <1>1, <1>2, <1>3, PTL DEF TreeSpec

(* As long as every click waits for the queue and no request is lost, the  *)
(* server refuses none and no move throws: whatever a click was about      *)
(* still is there when the queue comes to it (tree_editor.ts,              *)
(* web/step.cpp).                                                          *)
THEOREM PatienceIsRewarded == TreeSpec => []PatienceRewarded
<1>1. TreeInit => TreeIInv /\ Patience
  BY TreeInitHolds, PatienceHolds
<1>2. TreeIInv /\ Patience /\ [TreeNext]_treeVars => TreeIInv' /\ Patience'
  BY TreeStepKeeps
<1>3. Patience => PatienceRewarded
  BY DEF Patience
<1> QED  BY <1>1, <1>2, <1>3, PTL DEF TreeSpec

=============================================================================
