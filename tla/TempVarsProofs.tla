--------------------------- MODULE TempVarsProofs ----------------------------
(***************************************************************************)
(* Temporary variables have one owner, however many allocators share the   *)
(* generator and whatever is refreshed (TemporariesOwned).                 *)
(*                                                                         *)
(* The invariant says with sets what the property counts: the variables    *)
(* that are free, those that allocators hold and those taken without one   *)
(* are disjoint and all there are, and no list has one twice.  What is     *)
(* being refreshed is a renaming so far; what was, has the variables of    *)
(* its own frame, and it is forgotten before that frame is released.       *)
(***************************************************************************)
EXTENDS TempVars, FiniteSetTheorems, SequenceTheorems, TLAPS

Temps == {lab \in DOMAIN temp_labs : IsTemp(lab)}

FreeAt(type, i) == type \in TempTypes /\ i \in DOMAIN free_temp_vars[type]
HeldAt(a, frame, i) ==
    /\ a \in Allocators /\ frame \in DOMAIN allocated[a]
    /\ i \in (Released(a, frame) + 1) .. Len(allocated[a][frame])

AreFree(lab) == \E type, i : FreeAt(type, i) /\ free_temp_vars[type][i] = lab
AreHeld(lab) == \E a, frame, i : HeldAt(a, frame, i) /\ allocated[a][frame][i] = lab

Named == [kind : {"temp"}, type : TempTypes, idx : Nat] \union [kind : {"hypothesis"}, name : HypNames]

Substs == UNION {[vars -> 1..MaxTemps] : vars \in SUBSET TreeVars}

Doings ==
    {Idle} \union [what : {"release"}, all : BOOLEAN, released : Nat]
    \union [what : {"refresh"}, trees : Refreshable, vars : SUBSET TreeVars, subst : Substs]

Renamings == {Renamed(trees, subst) : trees \in Refreshable, subst \in Substs}

TypeOK ==
    /\ temp_labs \in Seq(Named)
    /\ free_temp_vars \in [TempTypes -> Seq(Nat)]
    /\ allocated \in [Allocators -> Seq(Seq(Nat))]
    /\ doing \in [Allocators -> Doings]
    /\ fresh \in [Allocators -> Seq(Seq(Renamings))]

(* The lists of free variables: of one type each, and none twice. *)
FreeOnce ==
    /\ \A type, i : FreeAt(type, i) => /\ free_temp_vars[type][i] \in Temps
                                       /\ temp_labs[free_temp_vars[type][i]].type = type
    /\ \A type, i, j : FreeAt(type, i) /\ FreeAt(type, j) /\ free_temp_vars[type][i] = free_temp_vars[type][j] => i = j

(* The frames: what is in one is in no other, nor twice. *)
HeldOnce ==
    \A a, b, d, e, i, j : HeldAt(a, d, i) /\ HeldAt(b, e, j) /\ allocated[a][d][i] = allocated[b][e][j] =>
        a = b /\ d = e /\ i = j

Shared ==
    /\ \A lab : AreHeld(lab) \/ lab \in unframed => lab \in Temps /\ ~AreFree(lab)
    /\ \A lab \in unframed : ~AreHeld(lab)
    /\ \A lab \in Temps : AreFree(lab) \/ AreHeld(lab) \/ lab \in unframed

(* The frames in which what was refreshed can still be used *)
Usable(a) == IF doing[a].what # "release" THEN Len(allocated[a])
             ELSE IF doing[a].all THEN 0 ELSE Len(allocated[a]) - 1

Frame(a, d) == {allocated[a][d][i] : i \in DOMAIN allocated[a][d]}

FreshOwn ==
    \A a \in Allocators :
       /\ Len(fresh[a]) = Usable(a)
       /\ \A p \in FreshIn(a) :
             /\ NewLabels(Fresh(a, p)) \subseteq Frame(a, p[1]) /\ IsRenaming(Fresh(a, p))
             /\ \A q \in FreshIn(a) \ {p} : NewLabels(Fresh(a, p)) \cap NewLabels(Fresh(a, q)) = {}

Refreshing(a) ==
    LET old == DOMAIN doing[a].subst
    IN /\ allocated[a] # <<>>
       /\ doing[a].vars \subseteq VariablesOf(doing[a].trees)
       /\ old = VariablesOf(doing[a].trees) \ doing[a].vars
       /\ \A v \in old : /\ doing[a].subst[v] \in Frame(a, Len(allocated[a]))
                         /\ doing[a].subst[v] \in Temps
                         /\ temp_labs[doing[a].subst[v]].type = TypeOfVar[v]
                         /\ \A w \in old : doing[a].subst[v] = doing[a].subst[w] => v = w
                         /\ \A p \in FreshIn(a) : doing[a].subst[v] \notin NewLabels(Fresh(a, p))

Releasing(a) == allocated[a] # <<>> /\ doing[a].released <= Len(allocated[a][Len(allocated[a])])

Busy ==
    \A a \in Allocators : /\ doing[a].what = "refresh" => Refreshing(a)
                          /\ doing[a].what = "release" => Releasing(a)

IInv == TypeOK /\ FreeOnce /\ HeldOnce /\ Shared /\ FreshOwn /\ Busy

-----------------------------------------------------------------------------
LEMMA NamedTypes ==
    /\ \A n \in Named : n.kind \in {"temp", "hypothesis"} /\ (n.kind = "temp" => n.type \in TempTypes)
    /\ \A type \in TempTypes, idx \in Nat : TempVar(type, idx) \in Named
    /\ \A type, idx : TempVar(type, idx).kind = "temp" /\ TempVar(type, idx).type = type
    /\ \A name \in HypNames : Hypothesis(name) \in Named
    /\ \A name : Hypothesis(name).kind = "hypothesis"
BY DEF Named, TempVar, Hypothesis

LEMMA DoingTypes ==
    /\ Idle \in Doings /\ Idle.what = "nothing"
    /\ \A d \in Doings : d.what = "release" => d.released \in Nat /\ d.all \in BOOLEAN
    /\ \A d \in Doings : d.what = "refresh" =>
          /\ d.trees \in Refreshable /\ d.vars \in SUBSET TreeVars
          /\ d.subst \in Substs
BY DEF Doings, Idle

(* The labels made so far stay, and one more is made, or none. *)
LEMMA Appended ==
    ASSUME TypeOK, NEW n \in Named, temp_labs' = Append(temp_labs, n)
    PROVE  /\ temp_labs' \in Seq(Named)
           /\ DOMAIN temp_labs' = DOMAIN temp_labs \union {Len(temp_labs) + 1}
           /\ Len(temp_labs) + 1 \in Nat /\ Len(temp_labs) + 1 \notin DOMAIN temp_labs
           /\ \A lab \in DOMAIN temp_labs : temp_labs'[lab] = temp_labs[lab]
           /\ temp_labs'[Len(temp_labs) + 1] = n
<1>1. temp_labs \in Seq(Named)
  BY DEF TypeOK
<1>2. DOMAIN temp_labs = 1..Len(temp_labs) /\ Len(temp_labs) \in Nat
  BY <1>1
<1>3. /\ temp_labs' \in Seq(Named) /\ DOMAIN temp_labs' = 1..(Len(temp_labs) + 1)
      /\ \A i \in 1..Len(temp_labs) : temp_labs'[i] = temp_labs[i]
      /\ temp_labs'[Len(temp_labs) + 1] = n
  BY <1>1, AppendProperties
<1> QED  BY <1>2, <1>3

LEMMA TempsAppended ==
    ASSUME TypeOK, NEW n \in Named, temp_labs' = Append(temp_labs, n)
    PROVE  Temps' = Temps \union (IF n.kind = "temp" THEN {Len(temp_labs) + 1} ELSE {})
BY Appended DEF Temps, IsTemp

LEMMA FewTemps ==
    ASSUME TypeOK, NEW type
    PROVE  Cardinality({lab \in DOMAIN temp_labs : IsTemp(lab) /\ temp_labs[lab].type = type}) \in Nat
<1>1. Len(temp_labs) \in Nat /\ DOMAIN temp_labs = 1..Len(temp_labs)
  BY DEF TypeOK
<1>2. IsFiniteSet(DOMAIN temp_labs)
  BY <1>1, FS_Interval
<1>3. IsFiniteSet({lab \in DOMAIN temp_labs : IsTemp(lab) /\ temp_labs[lab].type = type})
  BY <1>2, FS_Subset
<1> QED  BY <1>3, FS_CardinalityType

(* The generator gives a variable that was free, or did not exist. *)
LEMMA Given ==
    ASSUME TypeOK, FreeOnce, NEW type \in TempTypes, NEW lab, NewTempVar(type, lab)
    PROVE  /\ temp_labs' \in Seq(Named) /\ free_temp_vars' \in [TempTypes -> Seq(Nat)]
           /\ lab \in Nat /\ Temps' = Temps \union {lab} /\ DOMAIN temp_labs \subseteq DOMAIN temp_labs'
           /\ \A x \in DOMAIN temp_labs : temp_labs'[x] = temp_labs[x]
           /\ temp_labs'[lab].type = type
           /\ lab \in Temps => AreFree(lab)
           /\ FreeOnce'
           /\ \A x : AreFree(x)' <=> AreFree(x) /\ x # lab
<1>1. CASE free_temp_vars[type] = <<>>
  <2>1. PICK n \in Named : n.kind = "temp" /\ n.type = type /\ temp_labs' = Append(temp_labs, n)
    <3>1. PICK idx \in Nat : temp_labs' = Append(temp_labs, TempVar(type, idx))
      <4>1. \A m \in Nat : m + 1 \in Nat
        OBVIOUS
      <4> QED  BY <1>1, <4>1, FewTemps DEF NewTempVar, CreateTempVar
    <3> QED  BY <3>1, NamedTypes
  <2>2. lab = Len(temp_labs) + 1 /\ UNCHANGED free_temp_vars
    BY <1>1 DEF NewTempVar
  <2>3. Temps' = Temps \union {lab} /\ lab \notin Temps
    BY <2>1, <2>2, TempsAppended, Appended DEF Temps
  <2>4. \A t, i : FreeAt(t, i)' <=> FreeAt(t, i)
    BY <2>2 DEF FreeAt
  <2>5. FreeOnce'
    BY <2>1, <2>2, <2>3, <2>4, Appended DEF FreeOnce, Temps
  <2>6. \A x : AreFree(x) => x \in Temps
    BY DEF AreFree, FreeOnce
  <2>7. \A x : AreFree(x)' <=> AreFree(x)
    BY <2>2, <2>4 DEF AreFree
  <2> QED  BY <2>1, <2>2, <2>3, <2>5, <2>6, <2>7, Appended DEF TypeOK
<1>2. CASE free_temp_vars[type] # <<>>
  <2> DEFINE list == free_temp_vars[type]
             n    == Len(list)
  <2>1. list \in Seq(Nat) /\ n \in Nat \ {0} /\ DOMAIN list = 1..n /\ lab = list[n] /\ lab \in Nat
    BY <1>2 DEF TypeOK, NewTempVar, Last
  <2>2. UNCHANGED temp_labs /\ free_temp_vars' = [free_temp_vars EXCEPT ![type] = Front(@)]
    BY <1>2 DEF NewTempVar
  <2>3. Front(list) \in Seq(Nat) /\ DOMAIN Front(list) = 1..(n - 1) /\ \A i \in 1..(n - 1) : Front(list)[i] = list[i]
    <3>1. Front(list) = SubSeq(list, 1, n - 1)
      BY DEF Front
    <3> QED  BY <2>1, <3>1
  <2> HIDE DEF list, n
  <2>4. /\ free_temp_vars' \in [TempTypes -> Seq(Nat)]
        /\ \A t \in TempTypes : free_temp_vars'[t] = IF t = type THEN Front(list) ELSE free_temp_vars[t]
    BY <2>2, <2>3 DEF TypeOK, list
  <2>5. FreeAt(type, n) /\ free_temp_vars[type][n] = lab
    BY <2>1 DEF FreeAt, list
  <2>6. \A t, i : FreeAt(t, i)' <=> FreeAt(t, i) /\ ~(t = type /\ i = n)
    BY <2>1, <2>3, <2>4 DEF FreeAt, list
  <2>7. \A t, i : FreeAt(t, i)' => free_temp_vars'[t][i] = free_temp_vars[t][i]
    BY <2>1, <2>3, <2>4, <2>6 DEF FreeAt, list
  <2>8. Temps' = Temps /\ lab \in Temps
    BY <2>2, <2>5 DEF Temps, IsTemp, FreeOnce
  <2>9. FreeOnce'
    BY <2>2, <2>6, <2>7, <2>8 DEF FreeOnce
  <2>10. \A t, i : FreeAt(t, i) /\ free_temp_vars[t][i] = lab => t = type /\ i = n
    BY <2>5 DEF FreeOnce
  <2>11. \A x : AreFree(x)' <=> AreFree(x) /\ x # lab
    BY <2>5, <2>6, <2>7, <2>10 DEF AreFree
  <2> QED  BY <2>1, <2>2, <2>4, <2>5, <2>8, <2>9, <2>11 DEF TypeOK, AreFree, FreeOnce
<1> QED  BY <1>1, <1>2

(* A variable that was not free is put on the list of its type. *)
LEMMA GivenBack ==
    ASSUME TypeOK, FreeOnce, NEW lab \in Temps, ~AreFree(lab), ReleaseTempVar(lab), UNCHANGED temp_labs
    PROVE  /\ free_temp_vars' \in [TempTypes -> Seq(Nat)]
           /\ FreeOnce'
           /\ \A x : AreFree(x)' <=> AreFree(x) \/ x = lab
<1> DEFINE type == temp_labs[lab].type
           list == free_temp_vars[type]
           n    == Len(list) + 1
<1>1. type \in TempTypes /\ lab \in Nat
  <2>1. temp_labs[lab] \in Named /\ temp_labs[lab].kind = "temp" /\ lab \in Nat
    BY DEF TypeOK, Temps, IsTemp
  <2> QED  BY <2>1, NamedTypes
<1>2. list \in Seq(Nat) /\ Len(list) \in Nat /\ DOMAIN list = 1..Len(list)
  BY <1>1 DEF TypeOK
<1>3. free_temp_vars' = [free_temp_vars EXCEPT ![type] = Append(list, lab)]
  BY DEF ReleaseTempVar
<1>4. /\ Append(list, lab) \in Seq(Nat) /\ DOMAIN Append(list, lab) = 1..n
      /\ \A i \in 1..Len(list) : Append(list, lab)[i] = list[i]
      /\ Append(list, lab)[n] = lab
  BY <1>1, <1>2, AppendProperties
<1>5. n \in Nat /\ 1..n = 1..Len(list) \union {n} /\ n \notin 1..Len(list)
  BY <1>2
<1> HIDE DEF list, n, type
<1>6. /\ free_temp_vars' \in [TempTypes -> Seq(Nat)]
      /\ \A t \in TempTypes : free_temp_vars'[t] = IF t = type THEN Append(list, lab) ELSE free_temp_vars[t]
  BY <1>1, <1>3, <1>4 DEF TypeOK
<1>7. \A t, i : FreeAt(t, i)' <=> FreeAt(t, i) \/ (t = type /\ i = n)
  BY <1>1, <1>2, <1>4, <1>5, <1>6 DEF FreeAt, list
<1>8. free_temp_vars'[type][n] = lab /\ \A t, i : FreeAt(t, i) => free_temp_vars'[t][i] = free_temp_vars[t][i]
  BY <1>1, <1>2, <1>4, <1>6 DEF FreeAt, list
<1>9. Temps' = Temps
  BY DEF Temps, IsTemp
<1>10. temp_labs'[lab].type = type
  BY DEF type
<1>11. \A t, i : FreeAt(t, i) => free_temp_vars[t][i] # lab
  BY DEF AreFree
<1>12. FreeOnce'
  BY <1>7, <1>8, <1>9, <1>10, <1>11 DEF FreeOnce
<1>13. \A x : AreFree(x)' <=> AreFree(x) \/ x = lab
  BY <1>7, <1>8 DEF AreFree
<1> QED  BY <1>6, <1>12, <1>13

-----------------------------------------------------------------------------
(* The labels made so far keep their meaning. *)
Extended == Temps \subseteq Temps' /\ \A x \in Temps : temp_labs'[x] = temp_labs[x]

LEMMA FramesTyped ==
    ASSUME TypeOK, NEW a \in Allocators
    PROVE  /\ allocated[a] \in Seq(Seq(Nat)) /\ Len(allocated[a]) \in Nat
           /\ DOMAIN allocated[a] = 1..Len(allocated[a])
           /\ \A d \in DOMAIN allocated[a] :
                 /\ allocated[a][d] \in Seq(Nat) /\ Len(allocated[a][d]) \in Nat
                 /\ DOMAIN allocated[a][d] = 1..Len(allocated[a][d])
           /\ doing[a] \in Doings
BY DEF TypeOK

(* What can be used lies in the frames that are not being released. *)
LEMMA UsableIsHeld ==
    ASSUME TypeOK, NEW a \in Allocators, NEW d \in 1..Usable(a)
    PROVE  d \in DOMAIN allocated[a] /\ \A x \in Frame(a, d) : AreHeld(x)
<1>1. Len(allocated[a]) \in Nat /\ DOMAIN allocated[a] = 1..Len(allocated[a])
  BY FramesTyped
<1>2. d \in DOMAIN allocated[a] /\ Released(a, d) = 0
  <2>1. CASE doing[a].what # "release"
    BY <1>1, <2>1 DEF Usable, Released
  <2>2. CASE doing[a].what = "release"
    BY <1>1, <2>2 DEF Usable, Released
  <2> QED  BY <2>1, <2>2
<1>3. Len(allocated[a][d]) \in Nat /\ DOMAIN allocated[a][d] = 1..Len(allocated[a][d])
  BY <1>2, FramesTyped
<1>4. \A i \in DOMAIN allocated[a][d] : HeldAt(a, d, i)
  BY <1>2, <1>3 DEF HeldAt
<1> QED  BY <1>2, <1>4 DEF Frame, AreHeld

LEMMA FreshPlaces ==
    ASSUME NEW a
    PROVE  /\ \A p \in FreshIn(a) : /\ p[1] \in DOMAIN fresh[a] /\ p[2] \in DOMAIN fresh[a][p[1]]
                                    /\ p = <<p[1], p[2]>> /\ Fresh(a, p) = fresh[a][p[1]][p[2]]
           /\ \A d \in DOMAIN fresh[a] : \A i \in DOMAIN fresh[a][d] : <<d, i>> \in FreshIn(a)
BY DEF FreshIn, Fresh

LEMMA FreshIsHeld ==
    ASSUME IInv, NEW a \in Allocators, NEW p \in FreshIn(a)
    PROVE  /\ p[1] \in 1..Usable(a)
           /\ \A x \in NewLabels(Fresh(a, p)) : AreHeld(x) /\ x \in Temps
<1>1. p[1] \in 1..Usable(a)
  BY FreshPlaces DEF IInv, TypeOK, FreshOwn
<1>2. NewLabels(Fresh(a, p)) \subseteq Frame(a, p[1])
  BY DEF IInv, FreshOwn
<1> QED  BY <1>1, <1>2, UsableIsHeld DEF IInv, Shared

(* What stays usable of an allocator stays what it was. *)
Keeps(a) ==
    /\ Len(fresh'[a]) = Usable(a)'
    /\ FreshIn(a)' \subseteq FreshIn(a)
    /\ \A p \in FreshIn(a)' : Fresh(a, p)' = Fresh(a, p) /\ Frame(a, p[1]) \subseteq Frame(a, p[1])'

LEMMA RenamingStays ==
    ASSUME IInv, Extended, NEW a \in Allocators, NEW p \in FreshIn(a), Fresh(a, p)' = Fresh(a, p)
    PROVE  IsRenaming(Fresh(a, p))'
<1> DEFINE f == Fresh(a, p)
<1>1. IsRenaming(f) /\ f' = f
  BY DEF IInv, FreshOwn
<1>2. \A q \in VarNodes(f) : temp_labs'[NewLabel(f, q)] = temp_labs[NewLabel(f, q)]
  BY FreshIsHeld DEF Extended, NewLabels
<1> HIDE DEF f
<1>3. IsRenaming(f)'
  BY <1>1, <1>2 DEF IsRenaming, VarNodes, OldLabel, NewLabel
<1> QED  BY <1>3 DEF f

LEMMA FreshStays ==
    ASSUME IInv, Extended, \A a \in Allocators : Keeps(a)
    PROVE  FreshOwn'
<1> SUFFICES ASSUME NEW a \in Allocators
             PROVE  /\ Len(fresh'[a]) = Usable(a)'
                    /\ \A p \in FreshIn(a)' :
                          /\ NewLabels(Fresh(a, p)') \subseteq Frame(a, p[1])' /\ IsRenaming(Fresh(a, p))'
                          /\ \A q \in FreshIn(a)' \ {p} : NewLabels(Fresh(a, p)') \cap NewLabels(Fresh(a, q)') = {}
  BY DEF FreshOwn, NewLabels, VarNodes, NewLabel
<1>1. /\ Len(fresh'[a]) = Usable(a)' /\ FreshIn(a)' \subseteq FreshIn(a)
      /\ \A p \in FreshIn(a)' : Fresh(a, p)' = Fresh(a, p) /\ Frame(a, p[1]) \subseteq Frame(a, p[1])'
  BY DEF Keeps
<1>2. \A p \in FreshIn(a) :
         /\ NewLabels(Fresh(a, p)) \subseteq Frame(a, p[1])
         /\ \A q \in FreshIn(a) \ {p} : NewLabels(Fresh(a, p)) \cap NewLabels(Fresh(a, q)) = {}
  BY DEF IInv, FreshOwn
<1> QED  BY <1>1, <1>2, RenamingStays

(* The other allocators go on with what they were doing. *)
LEMMA OthersStay ==
    ASSUME IInv, Extended, NEW b \in Allocators,
           doing'[b] = doing[b], allocated'[b] = allocated[b], fresh'[b] = fresh[b]
    PROVE  /\ doing'[b].what = "refresh" => Refreshing(b)'
           /\ doing'[b].what = "release" => Releasing(b)'
           /\ Keeps(b)
<1>1. FreshIn(b)' = FreshIn(b) /\ \A p \in FreshIn(b) : Fresh(b, p)' = Fresh(b, p)
  BY DEF FreshIn, Fresh
<1>2. \A d : Frame(b, d)' = Frame(b, d)
  BY DEF Frame
<1>3. Keeps(b)
  BY <1>1, <1>2 DEF Keeps, IInv, FreshOwn, Usable
<1>4. ASSUME doing'[b].what = "refresh" PROVE Refreshing(b)'
  <2>1. Refreshing(b)
    BY <1>4 DEF IInv, Busy
  <2> QED  BY <1>1, <1>2, <2>1 DEF Refreshing, Extended
<1>5. ASSUME doing'[b].what = "release" PROVE Releasing(b)'
  BY <1>5 DEF IInv, Busy, Releasing
<1> QED  BY <1>3, <1>4, <1>5

(* What is held stays held when neither the frames nor what has been      *)
(* released of them changes.                                              *)
LEMMA HeldStays ==
    ASSUME HeldOnce, \A a, d, i : HeldAt(a, d, i)' <=> HeldAt(a, d, i),
           \A a, d, i : HeldAt(a, d, i) => allocated'[a][d][i] = allocated[a][d][i]
    PROVE  HeldOnce' /\ \A x : AreHeld(x)' <=> AreHeld(x)
BY DEF HeldOnce, AreHeld

(* A variable is put on the last frame. *)
Pushes(a, lab) == allocated' = [allocated EXCEPT ![a][Len(allocated[a])] = Append(@, lab)]

LEMMA Pushed ==
    ASSUME TypeOK, HeldOnce, NEW a \in Allocators, NEW lab \in Nat, ~AreHeld(lab), allocated[a] # <<>>,
           Pushes(a, lab),
           doing[a].what # "release", doing'[a].what # "release",
           \A b \in Allocators \ {a} : doing'[b] = doing[b]
    PROVE  /\ allocated' \in [Allocators -> Seq(Seq(Nat))]
           /\ \A b \in Allocators \ {a} : allocated'[b] = allocated[b]
           /\ Len(allocated'[a]) = Len(allocated[a])
           /\ \A d : d \in DOMAIN allocated[a] => Frame(a, d) \subseteq Frame(a, d)'
           /\ lab \in Frame(a, Len(allocated[a]))'
           /\ HeldOnce' /\ \A x : AreHeld(x)' <=> AreHeld(x) \/ x = lab
<1>1. PICK n \in Nat \ {0} : n = Len(allocated[a]) /\ DOMAIN allocated[a] = 1..n /\ n \in 1..n
  <2>1. Len(allocated[a]) \in Nat /\ DOMAIN allocated[a] = 1..Len(allocated[a])
    BY FramesTyped
  <2>2. Len(allocated[a]) # 0
    BY FramesTyped, EmptySeq
  <2> QED  BY <2>1, <2>2
<1> DEFINE list == allocated[a][n]
<1>0. PICK m \in Nat : m = Len(list) + 1
  BY <1>1, FramesTyped
<1>2. list \in Seq(Nat) /\ Len(list) \in Nat /\ DOMAIN list = 1..Len(list)
  BY <1>1, FramesTyped
<1>3. /\ Append(list, lab) \in Seq(Nat) /\ Len(Append(list, lab)) = m /\ DOMAIN Append(list, lab) = 1..m
      /\ \A i \in 1..Len(list) : Append(list, lab)[i] = list[i]
      /\ Append(list, lab)[m] = lab
  BY <1>2, <1>0, AppendProperties
<1>4. m \in Nat /\ 1..m = 1..Len(list) \union {m} /\ m \notin 1..Len(list)
  <2>1. \A k \in Nat : k + 1 \in Nat /\ 1..(k + 1) = 1..k \union {k + 1} /\ k + 1 \notin 1..k
    OBVIOUS
  <2>2. Len(list) \in Nat
    BY <1>2
  <2> HIDE DEF list
  <2> QED  BY <1>0, <2>1, <2>2
<1>5. allocated' = [allocated EXCEPT ![a] = [allocated[a] EXCEPT ![n] = Append(list, lab)]]
  BY <1>1 DEF Pushes
<1> DEFINE after == [allocated[a] EXCEPT ![n] = Append(list, lab)]
<1>6. after \in Seq(Seq(Nat)) /\ Len(after) = n /\ DOMAIN after = 1..n
      /\ \A d \in 1..n : after[d] = IF d = n THEN Append(list, lab) ELSE allocated[a][d]
  BY <1>1, <1>3, FramesTyped, ExceptSeq
<1> HIDE DEF list, after
<1>7. /\ allocated' \in [Allocators -> Seq(Seq(Nat))]
      /\ \A b \in Allocators : allocated'[b] = IF b = a THEN after ELSE allocated[b]
  <2>1. allocated' = [allocated EXCEPT ![a] = after]
    BY <1>5 DEF after
  <2>2. after \in Seq(Seq(Nat))
    BY <1>6
  <2> QED  BY <2>1, <2>2 DEF TypeOK
<1>15. allocated'[a][n] = Append(list, lab) /\ \A d \in 1..n : d # n => allocated'[a][d] = allocated[a][d]
  BY <1>1, <1>6, <1>7
<1>8. \A b, d : b \in Allocators => Released(b, d)' = Released(b, d)
  BY <1>1, <1>6, <1>7 DEF Released
<1>9. Released(a, n) = 0
  BY DEF Released
<1>10. \A b, d, i : HeldAt(b, d, i)' <=> HeldAt(b, d, i) \/ (b = a /\ d = n /\ i = m)
  <2> SUFFICES ASSUME NEW b \in Allocators, NEW d, NEW i
               PROVE  HeldAt(b, d, i)' <=> HeldAt(b, d, i) \/ (b = a /\ d = n /\ i = m)
    BY <1>1 DEF HeldAt
  <2>1. CASE b # a
    BY <1>7, <1>8, <2>1 DEF HeldAt
  <2>2. CASE b = a /\ d # n
    <3>1. d \in DOMAIN allocated'[a] <=> d \in DOMAIN allocated[a]
      BY <1>1, <1>6, <1>7
    <3>2. d \in DOMAIN allocated[a] => allocated'[a][d] = allocated[a][d]
      BY <1>1, <1>15, <2>2
    <3>3. Released(a, d)' = Released(a, d)
      BY <1>8
    <3> QED  BY <2>2, <3>1, <3>2, <3>3 DEF HeldAt
  <2>3. CASE b = a /\ d = n
    <3>1. HeldAt(a, n, i)' <=> i \in (Released(a, n)' + 1)..Len(allocated'[a][n])
      BY <1>1, <1>6, <1>7 DEF HeldAt
    <3>2. Len(allocated'[a][n]) = m /\ Released(a, n)' = 0
      BY <1>1, <1>3, <1>6, <1>7, <1>8, <1>9
    <3>3. HeldAt(a, n, i) <=> i \in (0 + 1)..Len(list)
      BY <1>1, <1>9 DEF HeldAt, list
    <3> QED  BY <1>4, <2>3, <3>1, <3>2, <3>3
  <2> QED  BY <2>1, <2>2, <2>3
<1>11. /\ allocated'[a][n][m] = lab
       /\ \A b, d, i : HeldAt(b, d, i) => allocated'[b][d][i] = allocated[b][d][i]
  <2>1. allocated'[a][n][m] = lab
    BY <1>1, <1>3, <1>6, <1>7
  <2>2. ASSUME NEW b, NEW d, NEW i, HeldAt(b, d, i) PROVE allocated'[b][d][i] = allocated[b][d][i]
    <3>1. CASE b # a
      BY <1>7, <2>2, <3>1 DEF HeldAt
    <3>2. CASE b = a /\ d # n
      BY <1>1, <1>6, <1>7, <2>2, <3>2 DEF HeldAt
    <3>3. CASE b = a /\ d = n
      <4>1. i \in 1..Len(list)
        BY <1>9, <2>2, <3>3 DEF HeldAt, list
      <4> QED  BY <1>3, <1>15, <3>3, <4>1 DEF list
    <3> QED  BY <3>1, <3>2, <3>3
  <2> QED  BY <2>1, <2>2
<1>12. HeldOnce' /\ \A x : AreHeld(x)' <=> AreHeld(x) \/ x = lab
  <2>1. \A b, d, i : HeldAt(b, d, i) => allocated[b][d][i] # lab
    BY DEF AreHeld
  <2>2. HeldOnce'
    <3> SUFFICES ASSUME NEW b, NEW c, NEW d, NEW e, NEW i, NEW j, HeldAt(b, d, i)', HeldAt(c, e, j)',
                        allocated'[b][d][i] = allocated'[c][e][j]
                 PROVE  b = c /\ d = e /\ i = j
      BY DEF HeldOnce
    <3>1. CASE HeldAt(b, d, i) /\ HeldAt(c, e, j)
      BY <1>11, <3>1 DEF HeldOnce
    <3>2. CASE ~HeldAt(b, d, i) /\ HeldAt(c, e, j)
      BY <1>10, <1>11, <2>1, <3>2
    <3>3. CASE HeldAt(b, d, i) /\ ~HeldAt(c, e, j)
      BY <1>10, <1>11, <2>1, <3>3
    <3>4. CASE ~HeldAt(b, d, i) /\ ~HeldAt(c, e, j)
      BY <1>10, <3>4
    <3> QED  BY <3>1, <3>2, <3>3, <3>4
  <2>3. ASSUME NEW x PROVE AreHeld(x)' <=> AreHeld(x) \/ x = lab
    <3>1. AreHeld(x)' => AreHeld(x) \/ x = lab
      BY <1>10, <1>11 DEF AreHeld
    <3>2. AreHeld(x) => AreHeld(x)'
      BY <1>10, <1>11 DEF AreHeld
    <3>3. HeldAt(a, n, m)' /\ allocated'[a][n][m] = lab
      BY <1>10, <1>11
    <3>4. AreHeld(lab)'
      BY <3>3 DEF AreHeld
    <3> QED  BY <3>1, <3>2, <3>4
  <2> QED  BY <2>2, <2>3
<1>13. \A d : d \in DOMAIN allocated[a] => Frame(a, d) \subseteq Frame(a, d)'
  <2> SUFFICES ASSUME NEW d \in DOMAIN allocated[a] PROVE Frame(a, d) \subseteq Frame(a, d)'
    OBVIOUS
  <2>1. CASE d # n
    BY <1>1, <1>15, <2>1 DEF Frame
  <2>2. CASE d = n
    <3>1. \A i \in DOMAIN list : i \in DOMAIN Append(list, lab) /\ Append(list, lab)[i] = list[i]
      BY <1>2, <1>3, <1>4
    <3> QED  BY <1>15, <2>2, <3>1 DEF Frame, list
  <2> QED  BY <2>1, <2>2
<1>14. lab \in Frame(a, n)'
  <2>1. m \in DOMAIN Append(list, lab) /\ Append(list, lab)[m] = lab
    BY <1>3, <1>4
  <2> QED  BY <1>15, <2>1 DEF Frame
<1>16. lab \in Frame(a, Len(allocated[a]))'
  <2>1. Len(allocated'[a]) = n
    BY <1>6, <1>7
  <2> QED  BY <1>14, <2>1
<1> QED  BY <1>1, <1>6, <1>7, <1>12, <1>13, <1>16

-----------------------------------------------------------------------------
LEMMA Unchanged_Free ==
    ASSUME FreeOnce, Extended, UNCHANGED free_temp_vars
    PROVE  FreeOnce' /\ \A x : AreFree(x)' <=> AreFree(x)
<1>1. \A type, i : FreeAt(type, i)' <=> FreeAt(type, i)
  BY DEF FreeAt
<1> QED  BY <1>1 DEF FreeOnce, AreFree, Extended

LEMMA SharedStays ==
    ASSUME Shared, Temps' = Temps, UNCHANGED unframed,
           \A x : AreFree(x)' <=> AreFree(x), \A x : AreHeld(x)' <=> AreHeld(x)
    PROVE  Shared'
BY DEF Shared

LEMMA SameLabels ==
    ASSUME UNCHANGED temp_labs
    PROVE  Temps' = Temps /\ Extended
BY DEF Temps, IsTemp, Extended

(* An allocator goes on refreshing. *)
Further(d, v, lab) == [d EXCEPT !.vars = @ \ {v}, !.subst = SubstWith(@, v, lab)]

LEMMA OneMore ==
    ASSUME NEW d \in Doings, d.what = "refresh", NEW v \in d.vars, NEW lab \in 1..MaxTemps,
           NEW e, e = Further(d, v, lab)
    PROVE  /\ e \in Doings /\ e.what = "refresh" /\ e.trees = d.trees /\ e.vars = d.vars \ {v}
           /\ DOMAIN e.subst = DOMAIN d.subst \union {v}
           /\ \A w \in DOMAIN d.subst \ {v} : e.subst[w] = d.subst[w]
           /\ e.subst[v] = lab
<1>1. d.trees \in Refreshable /\ d.vars \in SUBSET TreeVars
      /\ d.subst \in Substs
  BY DoingTypes
<1>2. PICK old \in SUBSET TreeVars : d.subst \in [old -> 1..MaxTemps]
  BY <1>1 DEF Substs
<1> DEFINE s == SubstWith(d.subst, v, lab)
<1>3. s = [w \in old \union {v} |-> IF w = v THEN lab ELSE d.subst[w]]
  BY <1>2 DEF SubstWith
<1>4. s \in Substs
  BY <1>1, <1>2, <1>3 DEF Substs
<1>5. d = [what |-> "refresh", trees |-> d.trees, vars |-> d.vars, subst |-> d.subst]
  BY DEF Doings, Idle
<1> HIDE DEF s
<1>6. e = [what |-> "refresh", trees |-> d.trees, vars |-> d.vars \ {v}, subst |-> s]
  BY <1>5 DEF s, Further
<1>7. e \in Doings
  BY <1>1, <1>4, <1>6 DEF Doings
<1>8. e.what = "refresh" /\ e.trees = d.trees /\ e.vars = d.vars \ {v} /\ e.subst = s
  BY <1>6
<1>9. DOMAIN s = old \union {v} /\ DOMAIN d.subst = old
      /\ \A w \in old \union {v} : s[w] = IF w = v THEN lab ELSE d.subst[w]
  BY <1>2, <1>3
<1> QED  BY <1>7, <1>8, <1>9

LEMMA RefreshVarKeeps ==
    ASSUME IInv, NEW a \in Allocators, RefreshVar(a)
    PROVE  IInv'
<1> USE DEF IInv
<1>1. PICK v \in doing[a].vars, lab \in 1..MaxTemps :
         /\ NewTempVar(TypeOfVar[v], lab) /\ Pushes(a, lab)
         /\ doing' = [doing EXCEPT ![a].vars = @ \ {v}, ![a].subst = SubstWith(@, v, lab)]
  BY DEF RefreshVar, Pushes
<1>2. doing[a].what = "refresh" /\ UNCHANGED <<fresh, unframed>> /\ doing[a] \in Doings /\ Refreshing(a)
  BY DEF RefreshVar, TypeOK, Busy
<1>3. v \in TreeVars /\ TypeOfVar[v] \in TempTypes /\ v \in VariablesOf(doing[a].trees) /\ v \notin DOMAIN doing[a].subst
  <2>1. v \in TreeVars
    BY <1>1, <1>2, DoingTypes
  <2>2. TypeOfVar[v] \in TempTypes
    BY <2>1, TypesAssumption DEF TempTypes, Range
  <2> QED  BY <1>1, <1>2, <2>1, <2>2 DEF Refreshing
<1>4. /\ temp_labs' \in Seq(Named) /\ free_temp_vars' \in [TempTypes -> Seq(Nat)]
      /\ lab \in Nat /\ Temps' = Temps \union {lab} /\ Extended
      /\ temp_labs'[lab].type = TypeOfVar[v]
      /\ lab \in Temps => AreFree(lab)
      /\ FreeOnce' /\ \A x : AreFree(x)' <=> AreFree(x) /\ x # lab
  BY <1>1, <1>3, Given DEF Extended, Temps
<1>5. ~AreHeld(lab) /\ lab \notin unframed
  BY <1>4 DEF Shared
<1>6. /\ doing'[a] = [doing[a] EXCEPT !.vars = @ \ {v}, !.subst = SubstWith(@, v, lab)]
      /\ \A b \in Allocators \ {a} : doing'[b] = doing[b]
  BY <1>1 DEF TypeOK
<1>7. /\ doing'[a] \in Doings /\ doing'[a].what = "refresh" /\ doing'[a].trees = doing[a].trees
      /\ doing'[a].vars = doing[a].vars \ {v}
      /\ DOMAIN doing'[a].subst = DOMAIN doing[a].subst \union {v}
      /\ \A w \in DOMAIN doing[a].subst : doing'[a].subst[w] = doing[a].subst[w]
      /\ doing'[a].subst[v] = lab
  <2>1. /\ doing[a] \in Doings /\ doing[a].what = "refresh" /\ v \in doing[a].vars /\ lab \in 1..MaxTemps
        /\ doing'[a] = [doing[a] EXCEPT !.vars = @ \ {v}, !.subst = SubstWith(@, v, lab)]
    BY <1>1, <1>2, <1>6
  <2>2. /\ doing'[a] \in Doings /\ doing'[a].what = "refresh" /\ doing'[a].trees = doing[a].trees
        /\ doing'[a].vars = doing[a].vars \ {v}
        /\ DOMAIN doing'[a].subst = DOMAIN doing[a].subst \union {v}
        /\ \A w \in DOMAIN doing[a].subst \ {v} : doing'[a].subst[w] = doing[a].subst[w]
        /\ doing'[a].subst[v] = lab
    <3>1. PICK d, e : d = doing[a] /\ e = doing'[a]
      OBVIOUS
    <3>2. d \in Doings /\ d.what = "refresh" /\ v \in d.vars
          /\ e = Further(d, v, lab)
      BY <2>1, <3>1 DEF Further
    <3>3. /\ e \in Doings /\ e.what = "refresh" /\ e.trees = d.trees /\ e.vars = d.vars \ {v}
          /\ DOMAIN e.subst = DOMAIN d.subst \union {v}
          /\ \A w \in DOMAIN d.subst \ {v} : e.subst[w] = d.subst[w]
          /\ e.subst[v] = lab
      BY <3>2, OneMore
    <3> QED  BY <3>1, <3>3
  <2> QED  BY <1>3, <2>2
<1>8. /\ allocated' \in [Allocators -> Seq(Seq(Nat))]
      /\ \A b \in Allocators \ {a} : allocated'[b] = allocated[b]
      /\ Len(allocated'[a]) = Len(allocated[a])
      /\ \A d : d \in DOMAIN allocated[a] => Frame(a, d) \subseteq Frame(a, d)'
      /\ lab \in Frame(a, Len(allocated[a]))'
      /\ HeldOnce' /\ \A x : AreHeld(x)' <=> AreHeld(x) \/ x = lab
  BY <1>1, <1>2, <1>4, <1>5, <1>6, <1>7, Pushed DEF Refreshing
<1>9. TypeOK'
  <2>1. doing' \in [Allocators -> Doings]
    <3>1. DOMAIN doing' = Allocators /\ \A b \in Allocators : doing'[b] \in Doings
      BY <1>1, <1>6, <1>7 DEF TypeOK
    <3>2. doing' = [b \in Allocators |-> doing'[b]]
      BY <1>1 DEF TypeOK
    <3> QED  BY <3>1, <3>2
  <2>2. fresh' = fresh
    BY <1>2
  <2> QED  BY <1>4, <1>8, <2>1, <2>2 DEF TypeOK
<1>10. Shared'
  BY <1>2, <1>4, <1>5, <1>8 DEF Shared
<1>11. Keeps(a)
  <2>1. FreshIn(a)' = FreshIn(a) /\ \A p \in FreshIn(a) : Fresh(a, p)' = Fresh(a, p)
    BY <1>2 DEF FreshIn, Fresh
  <2>2. \A p \in FreshIn(a) : p[1] \in DOMAIN allocated[a]
    BY FreshIsHeld, UsableIsHeld
  <2>3. Usable(a)' = Usable(a) /\ Len(fresh'[a]) = Usable(a)
    BY <1>2, <1>7, <1>8 DEF Usable, FreshOwn
  <2> QED  BY <1>8, <2>1, <2>2, <2>3 DEF Keeps
<1>12. FreshOwn'
  BY <1>2, <1>4, <1>6, <1>8, <1>11, OthersStay, FreshStays
<1>13. Refreshing(a)'
  <2> DEFINE old == DOMAIN doing[a].subst
  <2>1. PICK n \in Nat \ {0} : n = Len(allocated[a]) /\ n \in DOMAIN allocated[a]
    <3>1. Len(allocated[a]) \in Nat /\ DOMAIN allocated[a] = 1..Len(allocated[a]) /\ Len(allocated[a]) # 0
      BY <1>2, FramesTyped, EmptySeq DEF Refreshing
    <3> QED  BY <3>1
  <2>2. \A w \in old : doing[a].subst[w] \in Frame(a, n) /\ doing[a].subst[w] # lab
    <3>1. Usable(a) = n
      BY <1>2, <2>1 DEF Usable
    <3>2. \A x \in Frame(a, n) : AreHeld(x)
      BY <2>1, <3>1, UsableIsHeld
    <3> QED  BY <1>2, <1>5, <2>1, <3>2 DEF Refreshing
  <2>3. FreshIn(a)' = FreshIn(a)
        /\ \A p \in FreshIn(a) : NewLabels(Fresh(a, p)') = NewLabels(Fresh(a, p)) /\ lab \notin NewLabels(Fresh(a, p))
    <3>1. \A p \in FreshIn(a) : lab \notin NewLabels(Fresh(a, p))
      BY <1>5, FreshIsHeld
    <3> QED  BY <1>2, <3>1 DEF FreshIn, Fresh
  <2>4. allocated'[a] # <<>>
    BY <1>8, <2>1, EmptySeq
  <2>5. doing'[a].vars \subseteq VariablesOf(doing[a].trees)
        /\ old \union {v} = VariablesOf(doing[a].trees) \ doing'[a].vars
    BY <1>2, <1>3, <1>7 DEF Refreshing
  <2>6. ASSUME NEW w \in old \union {v}
        PROVE  /\ doing'[a].subst[w] \in Frame(a, n)' /\ doing'[a].subst[w] \in Temps'
               /\ temp_labs'[doing'[a].subst[w]].type = TypeOfVar[w]
               /\ \A p \in FreshIn(a)' : doing'[a].subst[w] \notin NewLabels(Fresh(a, p)')
    <3>1. CASE w = v
      BY <1>4, <1>7, <1>8, <2>1, <2>3, <3>1
    <3>2. CASE w \in old
      <4> DEFINE x == doing[a].subst[w]
      <4>1. x \in Frame(a, n) /\ x \in Temps /\ temp_labs[x].type = TypeOfVar[w]
            /\ \A p \in FreshIn(a) : x \notin NewLabels(Fresh(a, p))
        BY <1>2, <2>1, <3>2 DEF Refreshing
      <4>2. doing'[a].subst[w] = x
        BY <1>7, <3>2
      <4>3. x \in Frame(a, n)' /\ x \in Temps' /\ temp_labs'[x].type = TypeOfVar[w]
        BY <1>4, <1>8, <2>1, <4>1 DEF Extended
      <4> QED  BY <2>3, <4>1, <4>2, <4>3
    <3> QED  BY <3>1, <3>2
  <2>7. \A w, u \in old \union {v} : doing'[a].subst[w] = doing'[a].subst[u] => w = u
    BY <1>2, <1>3, <1>7, <2>2 DEF Refreshing
  <2>8. n = Len(allocated'[a])
    BY <1>8, <2>1
  <2>9. Frame(a, Len(allocated[a]))' = Frame(a, n)'
    BY <2>8 DEF Frame
  <2> QED  BY <1>7, <2>4, <2>5, <2>6, <2>7, <2>9 DEF Refreshing
<1>14. Busy'
  BY <1>2, <1>4, <1>6, <1>7, <1>8, <1>13, OthersStay DEF Busy
<1> QED  BY <1>4, <1>8, <1>9, <1>10, <1>12, <1>14

LEMMA TakeUnframedKeeps ==
    ASSUME IInv, TakeUnframed
    PROVE  IInv'
<1> USE DEF IInv
<1>1. PICK type \in TempTypes, lab \in 1..MaxTemps : NewTempVar(type, lab) /\ unframed' = {lab}
  BY DEF TakeUnframed
<1>2. UNCHANGED <<allocated, doing, fresh>> /\ unframed = {}
  BY DEF TakeUnframed
<1>3. /\ temp_labs' \in Seq(Named) /\ free_temp_vars' \in [TempTypes -> Seq(Nat)]
      /\ Temps' = Temps \union {lab} /\ Extended
      /\ lab \in Temps => AreFree(lab)
      /\ FreeOnce' /\ \A x : AreFree(x)' <=> AreFree(x) /\ x # lab
  BY <1>1, Given DEF Extended, Temps
<1>4. \A a, d, i : HeldAt(a, d, i)' <=> HeldAt(a, d, i)
  BY <1>2 DEF HeldAt, Released
<1>5. HeldOnce' /\ \A x : AreHeld(x)' <=> AreHeld(x)
  BY <1>2, <1>4, HeldStays
<1>6. Shared'
  BY <1>1, <1>2, <1>3, <1>5 DEF Shared
<1>7. TypeOK'
  BY <1>2, <1>3 DEF TypeOK
<1> QED  BY <1>2, <1>3, <1>5, <1>6, <1>7, OthersStay, FreshStays DEF Busy

LEMMA NewTempLabelKeeps ==
    ASSUME IInv, NewTempLabel
    PROVE  IInv'
<1> USE DEF IInv
<1>1. PICK name \in HypNames : temp_labs' = Append(temp_labs, Hypothesis(name))
  BY DEF NewTempLabel
<1>2. UNCHANGED <<free_temp_vars, allocated, doing, fresh, unframed>>
  BY DEF NewTempLabel
<1>3. Hypothesis(name) \in Named /\ Hypothesis(name).kind = "hypothesis"
  BY NamedTypes
<1>4. Temps' = Temps /\ Extended /\ temp_labs' \in Seq(Named)
  <2>1. Temps' = Temps
    BY <1>1, <1>3, TempsAppended
  <2> QED  BY <1>1, <1>3, <2>1, Appended DEF Extended, Temps
<1>5. FreeOnce' /\ \A x : AreFree(x)' <=> AreFree(x)
  BY <1>2, <1>4, Unchanged_Free
<1>6. \A a, d, i : HeldAt(a, d, i)' <=> HeldAt(a, d, i)
  BY <1>2 DEF HeldAt, Released
<1>7. HeldOnce' /\ \A x : AreHeld(x)' <=> AreHeld(x)
  BY <1>2, <1>6, HeldStays
<1>8. TypeOK'
  BY <1>2, <1>4 DEF TypeOK
<1> QED  BY <1>2, <1>4, <1>5, <1>7, <1>8, SharedStays, OthersStay, FreshStays DEF Busy

-----------------------------------------------------------------------------
LEMMA NewFrameKeeps ==
    ASSUME IInv, NEW a \in Allocators, NewFrame(a)
    PROVE  IInv'
<1> USE DEF IInv
<1>1. /\ doing[a] = Idle /\ UNCHANGED <<temp_labs, free_temp_vars, doing, unframed>>
      /\ allocated' = [allocated EXCEPT ![a] = Append(@, <<>>)]
      /\ fresh' = [fresh EXCEPT ![a] = Append(@, <<>>)]
  BY DEF NewFrame
<1>2. doing[a].what = "nothing"
  BY <1>1, DoingTypes
<1>3. PICK n \in Nat : n = Len(allocated[a]) /\ DOMAIN allocated[a] = 1..n
  BY FramesTyped
<1>4. Len(fresh[a]) = n /\ fresh[a] \in Seq(Seq(Renamings)) /\ DOMAIN fresh[a] = 1..n
  BY <1>2, <1>3 DEF FreshOwn, Usable, TypeOK
<1>5. /\ allocated' \in [Allocators -> Seq(Seq(Nat))]
      /\ \A b \in Allocators \ {a} : allocated'[b] = allocated[b]
      /\ Len(allocated'[a]) = n + 1 /\ DOMAIN allocated'[a] = 1..(n + 1)
      /\ allocated'[a][n + 1] = <<>> /\ \A d \in 1..n : allocated'[a][d] = allocated[a][d]
  <2> DEFINE longer == Append(allocated[a], <<>>)
  <2>1. <<>> \in Seq(Nat) /\ allocated[a] \in Seq(Seq(Nat))
    BY FramesTyped, EmptySeq
  <2>2. /\ longer \in Seq(Seq(Nat)) /\ Len(longer) = n + 1 /\ DOMAIN longer = 1..(n + 1)
        /\ longer[n + 1] = <<>> /\ \A d \in 1..n : longer[d] = allocated[a][d]
    BY <1>3, <2>1, AppendProperties
  <2>3. allocated' = [allocated EXCEPT ![a] = longer]
    BY <1>1
  <2> HIDE DEF longer
  <2> QED  BY <2>2, <2>3 DEF TypeOK
<1>6. /\ fresh' \in [Allocators -> Seq(Seq(Renamings))]
      /\ \A b \in Allocators \ {a} : fresh'[b] = fresh[b]
      /\ Len(fresh'[a]) = n + 1 /\ DOMAIN fresh'[a] = 1..(n + 1)
      /\ fresh'[a][n + 1] = <<>> /\ \A d \in 1..n : fresh'[a][d] = fresh[a][d]
  <2> DEFINE longer == Append(fresh[a], <<>>)
  <2>1. <<>> \in Seq(Renamings)
    BY EmptySeq
  <2>2. /\ longer \in Seq(Seq(Renamings)) /\ Len(longer) = n + 1 /\ DOMAIN longer = 1..(n + 1)
        /\ longer[n + 1] = <<>> /\ \A d \in 1..n : longer[d] = fresh[a][d]
    BY <1>4, <2>1, AppendProperties
  <2>3. fresh' = [fresh EXCEPT ![a] = longer]
    BY <1>1
  <2> HIDE DEF longer
  <2> QED  BY <2>2, <2>3 DEF TypeOK
<1>7. 1..(n + 1) = 1..n \union {n + 1}
  BY <1>3
<1>8. DOMAIN <<>> = {} /\ Len(<<>>) = 0
  OBVIOUS
<1>9. \A b, d, i : HeldAt(b, d, i)' <=> HeldAt(b, d, i)
  <2> SUFFICES ASSUME NEW b \in Allocators, NEW d, NEW i PROVE HeldAt(b, d, i)' <=> HeldAt(b, d, i)
    BY DEF HeldAt
  <2>1. CASE b # a
    BY <1>1, <1>5, <2>1 DEF HeldAt, Released
  <2>2. CASE b = a
    <3>1. Released(a, d)' = 0 /\ Released(a, d) = 0
      BY <1>1, <1>2 DEF Released
    <3>2. i \notin (0 + 1)..Len(<<>>)
      BY <1>8
    <3> QED  BY <1>3, <1>5, <1>7, <2>2, <3>1, <3>2 DEF HeldAt
  <2> QED  BY <2>1, <2>2
<1>10. \A b, d, i : HeldAt(b, d, i) => allocated'[b][d][i] = allocated[b][d][i]
  BY <1>3, <1>5 DEF HeldAt
<1>11. HeldOnce' /\ \A x : AreHeld(x)' <=> AreHeld(x)
  BY <1>9, <1>10, HeldStays
<1>12. Temps' = Temps /\ Extended /\ FreeOnce' /\ \A x : AreFree(x)' <=> AreFree(x)
  BY <1>1, SameLabels, Unchanged_Free
<1>13. TypeOK'
  BY <1>1, <1>5, <1>6 DEF TypeOK
<1>14. Keeps(a)
  <2>1. FreshIn(a)' \subseteq FreshIn(a)
    <3> SUFFICES ASSUME NEW d \in DOMAIN fresh'[a], NEW i \in DOMAIN fresh'[a][d] PROVE <<d, i>> \in FreshIn(a)
      BY DEF FreshIn
    <3>1. d # n + 1
      BY <1>6, <1>8
    <3>2. d \in 1..n
      BY <1>6, <1>7, <3>1
    <3>3. d \in DOMAIN fresh[a] /\ i \in DOMAIN fresh[a][d]
      BY <1>4, <1>6, <3>2
    <3> QED  BY <3>3, FreshPlaces
  <2>2. \A p \in FreshIn(a) : p[1] \in 1..n
    BY <1>4, FreshPlaces
  <2>3. \A p \in FreshIn(a) : Fresh(a, p)' = Fresh(a, p)
    BY <1>6, <2>2 DEF Fresh
  <2>4. \A d \in 1..n : Frame(a, d)' = Frame(a, d)
    BY <1>5 DEF Frame
  <2>5. Len(fresh'[a]) = Usable(a)'
    BY <1>1, <1>2, <1>5, <1>6 DEF Usable
  <2> QED  BY <2>1, <2>2, <2>3, <2>4, <2>5 DEF Keeps
<1>15. FreshOwn'
  BY <1>1, <1>5, <1>6, <1>12, <1>14, OthersStay, FreshStays
<1>16. Busy'
  BY <1>1, <1>2, <1>5, <1>6, <1>12, OthersStay DEF Busy
<1>17. Shared'
  BY <1>1, <1>11, <1>12, SharedStays
<1> QED  BY <1>11, <1>12, <1>13, <1>15, <1>16, <1>17

LEMMA StartRefreshKeeps ==
    ASSUME IInv, NEW a \in Allocators, StartRefresh(a)
    PROVE  IInv'
<1> USE DEF IInv
<1>1. doing[a] = Idle /\ allocated[a] # <<>> /\ UNCHANGED <<temp_labs, free_temp_vars, allocated, fresh, unframed>>
  BY DEF StartRefresh, Open
<1>0. PICK trees \in Refreshable :
         doing' = [doing EXCEPT ![a] = [what |-> "refresh", trees |-> trees, subst |-> << >>, vars |-> VariablesOf(trees)]]
  BY DEF StartRefresh
<1>2. PICK e : /\ e = [what |-> "refresh", trees |-> trees, subst |-> << >>, vars |-> VariablesOf(trees)]
               /\ doing' = [doing EXCEPT ![a] = e]
  BY <1>0
<1>3. e \in Doings /\ e.what = "refresh" /\ e.trees = trees /\ e.vars = VariablesOf(trees) /\ DOMAIN e.subst = {}
  <2>1. VariablesOf(trees) \in SUBSET TreeVars
    BY DEF VariablesOf, CollectVariables
  <2>2. << >> \in Substs /\ DOMAIN << >> = {}
    <3>1. << >> \in [{} -> 1..MaxTemps]
      OBVIOUS
    <3> QED  BY <3>1 DEF Substs
  <2> QED  BY <1>2, <2>1, <2>2 DEF Doings
<1>4. /\ doing' \in [Allocators -> Doings] /\ doing'[a] = e
      /\ \A b \in Allocators \ {a} : doing'[b] = doing[b]
  BY <1>2, <1>3 DEF TypeOK
<1>5. doing[a].what = "nothing"
  BY <1>1, DoingTypes
<1>6. \A b, d, i : HeldAt(b, d, i)' <=> HeldAt(b, d, i)
  <2>1. \A b \in Allocators : \A d : Released(b, d)' = Released(b, d)
    BY <1>1, <1>3, <1>4, <1>5 DEF Released
  <2> QED  BY <1>1, <2>1 DEF HeldAt
<1>7. HeldOnce' /\ \A x : AreHeld(x)' <=> AreHeld(x)
  BY <1>1, <1>6, HeldStays
<1>8. Temps' = Temps /\ Extended /\ FreeOnce' /\ \A x : AreFree(x)' <=> AreFree(x)
  BY <1>1, SameLabels, Unchanged_Free
<1>9. TypeOK'
  BY <1>1, <1>4 DEF TypeOK
<1>10. Keeps(a)
  BY <1>1, <1>3, <1>4, <1>5 DEF Keeps, FreshIn, Fresh, Frame, Usable, FreshOwn
<1>11. FreshOwn'
  BY <1>1, <1>4, <1>8, <1>10, OthersStay, FreshStays
<1>12. Refreshing(a)'
  BY <1>1, <1>3, <1>4 DEF Refreshing
<1>13. Busy'
  BY <1>1, <1>3, <1>4, <1>8, <1>12, OthersStay DEF Busy
<1>14. Shared'
  BY <1>1, <1>7, <1>8, SharedStays
<1> QED  BY <1>7, <1>8, <1>9, <1>11, <1>13, <1>14

LEMMA StartReleaseKeeps ==
    ASSUME IInv, NEW a \in Allocators, StartRelease(a)
    PROVE  IInv'
<1> USE DEF IInv
<1>1. doing[a] = Idle /\ allocated[a] # <<>> /\ UNCHANGED <<temp_labs, free_temp_vars, allocated, unframed>>
  BY DEF StartRelease, Open
<1>0. PICK all \in BOOLEAN :
         /\ doing' = [doing EXCEPT ![a] = [what |-> "release", all |-> all, released |-> 0]]
         /\ fresh' = [fresh EXCEPT ![a] = IF all THEN <<>> ELSE Front(@)]
  BY DEF StartRelease
<1>2. PICK e : /\ e = [what |-> "release", all |-> all, released |-> 0]
               /\ doing' = [doing EXCEPT ![a] = e]
  BY <1>0
<1>3. e \in Doings /\ e.what = "release" /\ e.all = all /\ e.released = 0
  BY <1>2 DEF Doings
<1>4. /\ doing' \in [Allocators -> Doings] /\ doing'[a] = e
      /\ \A b \in Allocators \ {a} : doing'[b] = doing[b]
  BY <1>2, <1>3 DEF TypeOK
<1>5. doing[a].what = "nothing"
  BY <1>1, DoingTypes
<1>6. PICK n \in Nat \ {0} : n = Len(allocated[a]) /\ DOMAIN allocated[a] = 1..n
  <2>1. Len(allocated[a]) \in Nat /\ DOMAIN allocated[a] = 1..Len(allocated[a]) /\ Len(allocated[a]) # 0
    BY <1>1, FramesTyped, EmptySeq
  <2> QED  BY <2>1
<1>7. Len(fresh[a]) = n /\ fresh[a] \in Seq(Seq(Renamings)) /\ DOMAIN fresh[a] = 1..n
  BY <1>5, <1>6 DEF FreshOwn, Usable, TypeOK
<1>8. /\ fresh' \in [Allocators -> Seq(Seq(Renamings))]
      /\ \A b \in Allocators \ {a} : fresh'[b] = fresh[b]
      /\ Len(fresh'[a]) = IF all THEN 0 ELSE n - 1
      /\ DOMAIN fresh'[a] \subseteq 1..n
      /\ \A d \in DOMAIN fresh'[a] : fresh'[a][d] = fresh[a][d]
  <2>1. PICK left : left = (IF all THEN <<>> ELSE Front(fresh[a])) /\ fresh' = [fresh EXCEPT ![a] = left]
    BY <1>0
  <2>2. /\ left \in Seq(Seq(Renamings)) /\ Len(left) = (IF all THEN 0 ELSE n - 1)
        /\ DOMAIN left \subseteq 1..n /\ \A d \in DOMAIN left : left[d] = fresh[a][d]
    <3>1. CASE all
      BY <2>1, <3>1, EmptySeq
    <3>2. CASE ~all
      <4>1. left = SubSeq(fresh[a], 1, n - 1)
        BY <1>7, <2>1, <3>2 DEF Front
      <4>2. left \in Seq(Seq(Renamings)) /\ Len(left) = n - 1 /\ DOMAIN left = 1..(n - 1)
            /\ \A d \in 1..(n - 1) : left[d] = fresh[a][d]
        BY <1>6, <1>7, <4>1
      <4>3. 1..(n - 1) \subseteq 1..n /\ (IF all THEN 0 ELSE n - 1) = n - 1
        BY <1>6, <3>2
      <4> QED  BY <4>2, <4>3
    <3> QED  BY <3>1, <3>2
  <2> QED  BY <2>1, <2>2 DEF TypeOK
<1>9. \A b, d, i : HeldAt(b, d, i)' <=> HeldAt(b, d, i)
  <2>1. \A b \in Allocators : \A d : Released(b, d)' = Released(b, d)
    BY <1>1, <1>3, <1>4, <1>5 DEF Released
  <2> QED  BY <1>1, <2>1 DEF HeldAt
<1>10. HeldOnce' /\ \A x : AreHeld(x)' <=> AreHeld(x)
  BY <1>1, <1>9, HeldStays
<1>11. Temps' = Temps /\ Extended /\ FreeOnce' /\ \A x : AreFree(x)' <=> AreFree(x)
  BY <1>1, SameLabels, Unchanged_Free
<1>12. TypeOK'
  BY <1>1, <1>4, <1>8 DEF TypeOK
<1>13. Keeps(a)
  <2>1. FreshIn(a)' \subseteq FreshIn(a)
    BY <1>7, <1>8 DEF FreshIn
  <2>2. \A p \in FreshIn(a)' : Fresh(a, p)' = Fresh(a, p)
    BY <1>8 DEF FreshIn, Fresh
  <2>3. \A d : Frame(a, d)' = Frame(a, d)
    BY <1>1 DEF Frame
  <2>4. Len(fresh'[a]) = Usable(a)'
    BY <1>1, <1>3, <1>4, <1>6, <1>8 DEF Usable
  <2> QED  BY <2>1, <2>2, <2>3, <2>4 DEF Keeps
<1>14. FreshOwn'
  BY <1>1, <1>4, <1>8, <1>11, <1>13, OthersStay, FreshStays
<1>15. Releasing(a)'
  <2>1. Len(allocated[a][n]) \in Nat
    BY <1>6, FramesTyped
  <2> QED  BY <1>1, <1>3, <1>4, <1>6, <2>1 DEF Releasing
<1>16. Busy'
  BY <1>1, <1>3, <1>4, <1>8, <1>11, <1>15, OthersStay DEF Busy
<1>17. Shared'
  BY <1>1, <1>10, <1>11, SharedStays
<1> QED  BY <1>10, <1>11, <1>12, <1>14, <1>16, <1>17

(* An allocator has released m variables of its last frame. *)
Advanced(d, m) == [d EXCEPT !.released = m]

LEMMA AdvancedTyped ==
    ASSUME NEW d \in Doings, d.what = "release", NEW m \in Nat, NEW e, e = Advanced(d, m)
    PROVE  e \in Doings /\ e.what = "release" /\ e.all = d.all /\ e.released = m
<1>1. d = [what |-> "release", all |-> d.all, released |-> d.released] /\ d.all \in BOOLEAN
  BY DEF Doings, Idle
<1>2. e = [what |-> "release", all |-> d.all, released |-> m]
  BY <1>1 DEF Advanced
<1> QED  BY <1>1, <1>2 DEF Doings

LEMMA ReleaseVarKeeps ==
    ASSUME IInv, NEW a \in Allocators, ReleaseVar(a)
    PROVE  IInv'
<1> USE DEF IInv
<1>1. /\ doing[a].what = "release" /\ doing[a] \in Doings /\ Releasing(a)
      /\ UNCHANGED <<temp_labs, allocated, fresh, unframed>>
  BY DEF ReleaseVar, TypeOK, Busy
<1>2. PICK n \in Nat \ {0} : n = Len(allocated[a]) /\ DOMAIN allocated[a] = 1..n /\ n \in 1..n
  <2>1. Len(allocated[a]) \in Nat /\ DOMAIN allocated[a] = 1..Len(allocated[a]) /\ Len(allocated[a]) # 0
    BY <1>1, FramesTyped, EmptySeq DEF Releasing
  <2> QED  BY <2>1
<1> DEFINE list == allocated[a][n]
<1>3. list \in Seq(Nat) /\ Len(list) \in Nat /\ DOMAIN list = 1..Len(list) /\ Last(allocated[a]) = list
  BY <1>2, FramesTyped DEF Last
<1>4. PICK k \in Nat : k = doing[a].released
  BY <1>1, DoingTypes
<1>5. k < Len(list) /\ k + 1 \in 1..Len(list) /\ k + 1 \in Nat
  <2>1. k < Len(list)
    BY <1>3, <1>4 DEF ReleaseVar
  <2> QED  BY <1>3, <2>1
<1>6. PICK x : x = list[k + 1] /\ ReleaseTempVar(x)
  BY <1>3, <1>4 DEF ReleaseVar
<1>7. PICK e : e = Advanced(doing[a], k + 1) /\ doing' = [doing EXCEPT ![a] = e]
  BY <1>4 DEF ReleaseVar, Advanced
<1>8. e \in Doings /\ e.what = "release" /\ e.all = doing[a].all /\ e.released = k + 1
  <2>1. PICK d : d = doing[a]
    OBVIOUS
  <2>2. d \in Doings /\ d.what = "release" /\ k + 1 \in Nat /\ e = Advanced(d, k + 1)
    BY <1>1, <1>5, <1>7, <2>1
  <2>3. e \in Doings /\ e.what = "release" /\ e.all = d.all /\ e.released = k + 1
    BY <2>2, AdvancedTyped
  <2> QED  BY <2>1, <2>3
<1>9. /\ doing' \in [Allocators -> Doings] /\ doing'[a] = e
      /\ \A b \in Allocators \ {a} : doing'[b] = doing[b]
  BY <1>7, <1>8 DEF TypeOK
<1> HIDE DEF list
<1>10. /\ HeldAt(a, n, k + 1) /\ allocated[a][n][k + 1] = x
       /\ \A i : HeldAt(a, n, i) <=> i \in (k + 1)..Len(list)
       /\ \A i : HeldAt(a, n, i)' <=> i \in (k + 1 + 1)..Len(list)
  <2>1. Released(a, n) = k /\ Released(a, n)' = k + 1
    BY <1>1, <1>2, <1>4, <1>8, <1>9 DEF Released
  <2>2. \A i : HeldAt(a, n, i) <=> i \in (k + 1)..Len(list)
    BY <1>2, <2>1 DEF HeldAt, list
  <2>3. \A i : HeldAt(a, n, i)' <=> i \in (k + 1 + 1)..Len(list)
    BY <1>1, <1>2, <2>1 DEF HeldAt, list
  <2>4. k + 1 \in (k + 1)..Len(list)
    BY <1>3, <1>5
  <2> QED  BY <1>6, <2>2, <2>3, <2>4 DEF list
<1>11. \A b, d, i : HeldAt(b, d, i)' <=> HeldAt(b, d, i) /\ ~(b = a /\ d = n /\ i = k + 1)
  <2> SUFFICES ASSUME NEW b \in Allocators, NEW d, NEW i
               PROVE  HeldAt(b, d, i)' <=> HeldAt(b, d, i) /\ ~(b = a /\ d = n /\ i = k + 1)
    BY DEF HeldAt
  <2>1. CASE b = a /\ d = n
    <3>1. i \in (k + 1 + 1)..Len(list) <=> i \in (k + 1)..Len(list) /\ i # k + 1
      BY <1>3, <1>5
    <3> QED  BY <1>10, <2>1, <3>1
  <2>2. CASE b # a \/ d # n
    <3>1. Released(b, d)' = Released(b, d)
      BY <1>1, <1>2, <1>9, <2>2 DEF Released
    <3> QED  BY <1>1, <2>2, <3>1 DEF HeldAt
  <2> QED  BY <2>1, <2>2
<1>12. x \in Temps /\ ~AreFree(x) /\ x \notin unframed
  <2>1. AreHeld(x)
    BY <1>10 DEF AreHeld
  <2> QED  BY <2>1 DEF Shared
<1>13. HeldOnce' /\ \A y : AreHeld(y)' <=> AreHeld(y) /\ y # x
  <2>1. \A b, d, i : HeldAt(b, d, i) /\ allocated[b][d][i] = x => b = a /\ d = n /\ i = k + 1
    BY <1>10 DEF HeldOnce
  <2>2. HeldOnce'
    BY <1>1, <1>11 DEF HeldOnce
  <2>3. \A y : AreHeld(y)' => AreHeld(y) /\ y # x
    BY <1>1, <1>10, <1>11 DEF AreHeld, HeldOnce
  <2>4. ASSUME NEW y, AreHeld(y), y # x PROVE AreHeld(y)'
    <3>1. PICK b, d, i : HeldAt(b, d, i) /\ allocated[b][d][i] = y
      BY <2>4 DEF AreHeld
    <3>2. HeldAt(b, d, i)'
      BY <1>10, <1>11, <2>4, <3>1
    <3> QED  BY <1>1, <3>1, <3>2 DEF AreHeld
  <2> QED  BY <2>2, <2>3, <2>4
<1>14. Temps' = Temps /\ Extended
  BY <1>1, SameLabels
<1>15. /\ free_temp_vars' \in [TempTypes -> Seq(Nat)] /\ FreeOnce'
       /\ \A y : AreFree(y)' <=> AreFree(y) \/ y = x
  BY <1>1, <1>6, <1>12, GivenBack
<1>16. TypeOK'
  BY <1>1, <1>9, <1>15 DEF TypeOK
<1>17. Shared'
  BY <1>1, <1>12, <1>13, <1>14, <1>15 DEF Shared
<1>18. Keeps(a)
  <2>1. FreshIn(a)' = FreshIn(a) /\ \A p : Fresh(a, p)' = Fresh(a, p) /\ \A d : Frame(a, d)' = Frame(a, d)
    BY <1>1 DEF FreshIn, Fresh, Frame
  <2>2. Len(fresh'[a]) = Usable(a)'
    BY <1>1, <1>8, <1>9 DEF Usable, FreshOwn
  <2> QED  BY <2>1, <2>2 DEF Keeps
<1>19. FreshOwn'
  BY <1>1, <1>9, <1>14, <1>18, OthersStay, FreshStays
<1>20. Releasing(a)'
  <2>1. allocated'[a] # <<>> /\ doing'[a].released <= Len(list)
    BY <1>1, <1>3, <1>5, <1>8, <1>9 DEF Releasing
  <2> QED  BY <1>1, <1>2, <2>1 DEF Releasing, list
<1>21. Busy'
  BY <1>1, <1>8, <1>9, <1>14, <1>20, OthersStay DEF Busy
<1> QED  BY <1>13, <1>15, <1>16, <1>17, <1>19, <1>21

LEMMA ReleaseFrameKeeps ==
    ASSUME IInv, NEW a \in Allocators, ReleaseFrame(a)
    PROVE  IInv'
<1> USE DEF IInv
<1>1. /\ doing[a].what = "release" /\ doing[a] \in Doings /\ Releasing(a)
      /\ UNCHANGED <<temp_labs, free_temp_vars, fresh, unframed>>
  BY DEF ReleaseFrame, TypeOK, Busy
<1>2. PICK n \in Nat \ {0} : n = Len(allocated[a]) /\ DOMAIN allocated[a] = 1..n /\ n \in 1..n
  <2>1. Len(allocated[a]) \in Nat /\ DOMAIN allocated[a] = 1..Len(allocated[a]) /\ Len(allocated[a]) # 0
    BY <1>1, FramesTyped, EmptySeq DEF Releasing
  <2> QED  BY <2>1
<1>3. doing[a].released = Len(allocated[a][n])
  BY <1>2 DEF ReleaseFrame, Last
<1>4. /\ allocated' \in [Allocators -> Seq(Seq(Nat))]
      /\ \A b \in Allocators \ {a} : allocated'[b] = allocated[b]
      /\ Len(allocated'[a]) = n - 1 /\ DOMAIN allocated'[a] = 1..(n - 1)
      /\ \A d \in 1..(n - 1) : allocated'[a][d] = allocated[a][d]
  <2>1. PICK left : left = Front(allocated[a]) /\ allocated' = [allocated EXCEPT ![a] = left]
    BY DEF ReleaseFrame, Popped
  <2>2. left = SubSeq(allocated[a], 1, n - 1) /\ allocated[a] \in Seq(Seq(Nat))
    BY <1>2, <2>1, FramesTyped DEF Front
  <2>3. /\ left \in Seq(Seq(Nat)) /\ Len(left) = n - 1 /\ DOMAIN left = 1..(n - 1)
        /\ \A d \in 1..(n - 1) : left[d] = allocated[a][d]
    BY <1>2, <2>2
  <2> QED  BY <2>1, <2>3 DEF TypeOK
<1>5. PICK e : /\ e = IF doing[a].all /\ n > 1 THEN Advanced(doing[a], 0) ELSE Idle
               /\ doing' = [doing EXCEPT ![a] = e]
  BY <1>2 DEF ReleaseFrame, Advanced
<1>6. /\ e \in Doings
      /\ IF doing[a].all /\ n > 1 THEN e.what = "release" /\ e.all /\ e.released = 0 ELSE e.what = "nothing"
  <2>1. PICK d : d = doing[a]
    OBVIOUS
  <2>2. CASE d.all /\ n > 1
    <3>1. e = Advanced(d, 0) /\ d \in Doings /\ d.what = "release" /\ 0 \in Nat
      BY <1>1, <1>5, <2>1, <2>2
    <3>2. e \in Doings /\ e.what = "release" /\ e.all = d.all /\ e.released = 0
      BY <3>1, AdvancedTyped
    <3> QED  BY <2>1, <2>2, <3>2
  <2>3. CASE ~(d.all /\ n > 1)
    BY <1>5, <2>1, <2>3, DoingTypes
  <2> QED  BY <2>2, <2>3
<1>7. /\ doing' \in [Allocators -> Doings] /\ doing'[a] = e
      /\ \A b \in Allocators \ {a} : doing'[b] = doing[b]
  BY <1>5, <1>6 DEF TypeOK
<1>8. 1..n = 1..(n - 1) \union {n} /\ n \notin 1..(n - 1)
  BY <1>2
<1>9. \A b, d, i : HeldAt(b, d, i)' <=> HeldAt(b, d, i)
  <2> SUFFICES ASSUME NEW b \in Allocators, NEW d, NEW i PROVE HeldAt(b, d, i)' <=> HeldAt(b, d, i)
    BY DEF HeldAt
  <2>1. CASE b # a
    BY <1>4, <1>7, <2>1 DEF HeldAt, Released
  <2>2. CASE b = a /\ d \in 1..(n - 1)
    <3>1. Released(a, d) = 0
      BY <1>2, <1>8, <2>2 DEF Released
    <3>2. Released(a, d)' = 0
      BY <1>6, <1>7 DEF Released
    <3> QED  BY <1>2, <1>4, <1>8, <2>2, <3>1, <3>2 DEF HeldAt
  <2>3. CASE b = a /\ d = n
    <3>1. Released(a, n) = Len(allocated[a][n]) /\ Len(allocated[a][n]) \in Nat
      BY <1>1, <1>2, <1>3, FramesTyped DEF Released
    <3>2. \A m \in Nat : (m + 1)..m = {}
      OBVIOUS
    <3> QED  BY <1>4, <1>8, <2>3, <3>1, <3>2 DEF HeldAt
  <2>4. CASE b = a /\ d \notin 1..n
    BY <1>2, <1>4, <1>8, <2>4 DEF HeldAt
  <2> QED  BY <1>8, <2>1, <2>2, <2>3, <2>4
<1>10. \A b, d, i : HeldAt(b, d, i) => allocated'[b][d][i] = allocated[b][d][i]
  <2> SUFFICES ASSUME NEW b, NEW d, NEW i, HeldAt(b, d, i) PROVE allocated'[b][d][i] = allocated[b][d][i]
    OBVIOUS
  <2>1. b \in Allocators /\ d \in DOMAIN allocated'[b]
    BY <1>9 DEF HeldAt
  <2>2. CASE b # a
    BY <1>4, <2>1, <2>2
  <2>3. CASE b = a
    BY <1>4, <2>1, <2>3
  <2> QED  BY <2>2, <2>3
<1>11. HeldOnce' /\ \A x : AreHeld(x)' <=> AreHeld(x)
  BY <1>9, <1>10, HeldStays
<1>12. Temps' = Temps /\ Extended /\ FreeOnce' /\ \A x : AreFree(x)' <=> AreFree(x)
  BY <1>1, SameLabels, Unchanged_Free
<1>13. TypeOK'
  BY <1>1, <1>4, <1>7 DEF TypeOK
<1>14. Keeps(a)
  <2>1. FreshIn(a)' = FreshIn(a) /\ \A p : Fresh(a, p)' = Fresh(a, p)
    BY <1>1 DEF FreshIn, Fresh
  <2>2. \A p \in FreshIn(a) : p[1] \in 1..(n - 1)
    <3>1. Usable(a) = 0 \/ Usable(a) = n - 1
      BY <1>1, <1>2 DEF Usable
    <3>2. \A m \in 1..0 : FALSE
      OBVIOUS
    <3> QED  BY <3>1, <3>2, FreshIsHeld
  <2>3. \A d \in 1..(n - 1) : Frame(a, d)' = Frame(a, d)
    BY <1>4 DEF Frame
  <2>4. Len(fresh'[a]) = Usable(a)'
    <3>1. Len(fresh'[a]) = IF doing[a].all THEN 0 ELSE n - 1
      BY <1>1, <1>2 DEF FreshOwn, Usable
    <3>2. doing[a].all \in BOOLEAN
      BY <1>1, DoingTypes
    <3>3. CASE doing[a].all /\ n > 1
      BY <1>6, <1>7, <3>1, <3>3 DEF Usable
    <3>4. CASE ~(doing[a].all /\ n > 1)
      <4>1. Usable(a)' = n - 1
        BY <1>4, <1>6, <1>7, <3>4 DEF Usable
      <4> QED  BY <1>2, <3>1, <3>2, <3>4, <4>1
    <3> QED  BY <3>3, <3>4
  <2> QED  BY <2>1, <2>2, <2>3, <2>4 DEF Keeps
<1>15. FreshOwn'
  BY <1>1, <1>4, <1>7, <1>12, <1>14, OthersStay, FreshStays
<1>16. doing'[a].what = "release" => Releasing(a)'
  <2> SUFFICES ASSUME doing'[a].what = "release" PROVE Releasing(a)'
    OBVIOUS
  <2>1. n > 1 /\ doing'[a].released = 0
    BY <1>6, <1>7
  <2>2. PICK m \in Nat \ {0} : m = Len(allocated'[a]) /\ m = n - 1 /\ m \in 1..(n - 1)
    BY <1>2, <1>4, <2>1
  <2>3. Len(allocated'[a][m]) \in Nat
    BY <1>2, <1>4, <1>8, <2>2, FramesTyped
  <2>4. allocated'[a] # <<>>
    BY <2>2, EmptySeq
  <2> QED  BY <2>1, <2>2, <2>3, <2>4 DEF Releasing
<1>17. Busy'
  <2>1. doing'[a].what # "refresh"
    BY <1>6, <1>7
  <2> QED  BY <1>1, <1>4, <1>7, <1>12, <1>16, <2>1, OthersStay DEF Busy
<1>18. Shared'
  BY <1>1, <1>11, <1>12, SharedStays
<1> QED  BY <1>11, <1>12, <1>13, <1>15, <1>17, <1>18

-----------------------------------------------------------------------------
(* The nodes of a tree that stand for variables are relabelled, each by    *)
(* what its variable was given.                                            *)
LEMMA Relabelled ==
    ASSUME NEW trees \in Refreshable, NEW subst, DOMAIN subst = VariablesOf(trees),
           NEW f, f = Renamed(trees, subst), NEW q \in VarNodes(f)
    PROVE  OldLabel(f, q) \in VariablesOf(trees) /\ NewLabel(f, q) = subst[OldLabel(f, q)]
<1>1. f.from = trees /\ f.to = [i \in DOMAIN trees |-> Substitute2Simple(trees[i], subst)]
  BY DEF Renamed
<1>2. PICK i, j : /\ i \in DOMAIN trees /\ q = <<i, j>>
                  /\ j \in DOMAIN trees[i] /\ trees[i][j].lab \in TreeVars
  BY <1>1 DEF VarNodes
<1>3. q[1] = i /\ q[2] = j
  BY <1>2
<1> DEFINE v == trees[i][j].lab
<1>4. OldLabel(f, q) = v
  BY <1>1, <1>3 DEF OldLabel
<1>5. v \in VariablesOf(trees)
  BY <1>2 DEF VariablesOf, CollectVariables
<1>6. NewLabel(f, q) = Substitute2Simple(trees[i], subst)[j].lab
  BY <1>1, <1>2, <1>3 DEF NewLabel
<1>7. Substitute2Simple(trees[i], subst)[j] = [trees[i][j] EXCEPT !.lab = subst[v]]
  BY <1>2, <1>5 DEF Substitute2Simple
<1>8. trees[i][j] = [lab |-> v, desc |-> trees[i][j].desc]
  BY <1>2, RefreshableAssumption DEF Node
<1>9. PICK node : node = trees[i][j] /\ node = [lab |-> v, desc |-> node.desc]
  BY <1>8
<1> HIDE DEF v
<1>10. [node EXCEPT !.lab = subst[v]].lab = subst[v]
  BY <1>9
<1> QED  BY <1>4, <1>5, <1>6, <1>7, <1>9, <1>10

LEMMA RefreshedKeeps ==
    ASSUME IInv, NEW a \in Allocators, Refreshed(a)
    PROVE  IInv'
<1> USE DEF IInv
<1>1. /\ doing[a].what = "refresh" /\ doing[a].vars = {} /\ doing[a] \in Doings /\ Refreshing(a)
      /\ UNCHANGED <<temp_labs, free_temp_vars, allocated, unframed>>
      /\ doing' = [doing EXCEPT ![a] = Idle]
  BY DEF Refreshed, TypeOK, Busy
<1>2. PICK n \in Nat \ {0} : n = Len(allocated[a]) /\ DOMAIN allocated[a] = 1..n /\ n \in 1..n
  <2>1. Len(allocated[a]) \in Nat /\ DOMAIN allocated[a] = 1..Len(allocated[a]) /\ Len(allocated[a]) # 0
    BY <1>1, FramesTyped, EmptySeq DEF Refreshing
  <2> QED  BY <2>1
<1>3. PICK trees \in Refreshable, subst \in Substs : trees = doing[a].trees /\ subst = doing[a].subst
  BY <1>1, DoingTypes
<1>4. PICK f \in Renamings : f = Renamed(trees, subst)
  BY <1>3 DEF Renamings
<1>5. /\ Len(fresh[a]) = n /\ fresh[a] \in Seq(Seq(Renamings)) /\ DOMAIN fresh[a] = 1..n
      /\ fresh[a][n] \in Seq(Renamings)
  <2>1. Len(fresh[a]) = n /\ fresh[a] \in Seq(Seq(Renamings))
    BY <1>1, <1>2 DEF FreshOwn, Usable, TypeOK
  <2> QED  BY <1>2, <2>1
<1>6. PICK m \in Nat : m = Len(fresh[a][n]) + 1
  BY <1>5
<1>7. PICK list : /\ list = Append(fresh[a][n], f)
                  /\ fresh' = [fresh EXCEPT ![a] = [fresh[a] EXCEPT ![n] = list]]
  BY <1>2, <1>3, <1>4 DEF Refreshed
<1>8. /\ list \in Seq(Renamings) /\ DOMAIN list = 1..m /\ list[m] = f
      /\ \A i \in DOMAIN fresh[a][n] : i \in 1..m /\ i # m /\ list[i] = fresh[a][n][i]
      /\ \A i \in 1..m : i # m => i \in DOMAIN fresh[a][n]
  <2>1. PICK old : old = fresh[a][n] /\ old \in Seq(Renamings) /\ m = Len(old) + 1 /\ list = Append(old, f)
    BY <1>5, <1>6, <1>7
  <2>2. /\ list \in Seq(Renamings) /\ DOMAIN list = 1..m /\ list[m] = f
        /\ \A i \in 1..Len(old) : list[i] = old[i]
        /\ DOMAIN old = 1..Len(old) /\ Len(old) \in Nat
    BY <2>1, AppendProperties
  <2>3. \A i \in 1..m : i # m => i \in 1..Len(old)
    BY <2>1, <2>2
  <2>4. \A i \in 1..Len(old) : i \in 1..m /\ i # m
    BY <2>1, <2>2
  <2> QED  BY <2>1, <2>2, <2>3, <2>4
<1>9. /\ fresh' \in [Allocators -> Seq(Seq(Renamings))]
      /\ \A b \in Allocators \ {a} : fresh'[b] = fresh[b]
      /\ Len(fresh'[a]) = n /\ DOMAIN fresh'[a] = 1..n
      /\ \A d \in 1..n : fresh'[a][d] = IF d = n THEN list ELSE fresh[a][d]
  <2>1. PICK after : after = [fresh[a] EXCEPT ![n] = list] /\ fresh' = [fresh EXCEPT ![a] = after]
    BY <1>7
  <2>2. /\ after \in Seq(Seq(Renamings)) /\ Len(after) = n /\ DOMAIN after = 1..n
        /\ \A d \in 1..n : after[d] = IF d = n THEN list ELSE fresh[a][d]
    BY <1>2, <1>5, <1>8, <2>1, ExceptSeq
  <2> QED  BY <2>1, <2>2 DEF TypeOK
<1>10. /\ doing' \in [Allocators -> Doings] /\ doing'[a].what = "nothing"
       /\ \A b \in Allocators \ {a} : doing'[b] = doing[b]
  BY <1>1, DoingTypes DEF TypeOK
<1>11. \A b, d, i : HeldAt(b, d, i)' <=> HeldAt(b, d, i)
  <2>1. \A b \in Allocators : \A d : Released(b, d)' = Released(b, d)
    BY <1>1, <1>10 DEF Released
  <2> QED  BY <1>1, <2>1 DEF HeldAt
<1>12. HeldOnce' /\ \A x : AreHeld(x)' <=> AreHeld(x)
  BY <1>1, <1>11, HeldStays
<1>13. Temps' = Temps /\ Extended /\ FreeOnce' /\ \A x : AreFree(x)' <=> AreFree(x)
  BY <1>1, SameLabels, Unchanged_Free
<1>14. TypeOK'
  BY <1>1, <1>9, <1>10 DEF TypeOK
<1> DEFINE new == <<n, m>>
<1>15. /\ new \in FreshIn(a)' /\ Fresh(a, new)' = f
       /\ FreshIn(a)' \subseteq FreshIn(a) \union {new}
       /\ \A p \in FreshIn(a) : Fresh(a, p)' = Fresh(a, p)
  <2>1. n \in DOMAIN fresh'[a] /\ m \in DOMAIN fresh'[a][n] /\ fresh'[a][n][m] = f
    BY <1>2, <1>6, <1>8, <1>9
  <2>2. new \in FreshIn(a)'
    BY <2>1 DEF FreshIn
  <2>3. Fresh(a, new)' = f
    BY <2>1 DEF Fresh
  <2>4. ASSUME NEW p \in FreshIn(a)', p # new PROVE p \in FreshIn(a)
    <3>1. PICK d \in DOMAIN fresh'[a] : \E i \in DOMAIN fresh'[a][d] : p = <<d, i>>
      BY DEF FreshIn
    <3>2. PICK i \in DOMAIN fresh'[a][d] : p = <<d, i>>
      BY <3>1
    <3>3. d \in DOMAIN fresh[a] /\ i \in DOMAIN fresh[a][d]
      BY <1>5, <1>8, <1>9, <2>4, <3>2
    <3> QED  BY <3>2, <3>3, FreshPlaces
  <2>5. \A p \in FreshIn(a) : Fresh(a, p)' = Fresh(a, p)
    <3> SUFFICES ASSUME NEW p \in FreshIn(a) PROVE Fresh(a, p)' = Fresh(a, p)
      OBVIOUS
    <3>1. PICK d, i : d = p[1] /\ i = p[2] /\ d \in 1..n /\ i \in DOMAIN fresh[a][d]
      BY <1>5, FreshPlaces
    <3>2. Fresh(a, p) = fresh[a][d][i] /\ Fresh(a, p)' = fresh'[a][d][i]
      BY <3>1 DEF Fresh
    <3>3. CASE d = n
      BY <1>8, <1>9, <3>1, <3>2, <3>3
    <3>4. CASE d # n
      BY <1>9, <3>1, <3>2, <3>4
    <3> QED  BY <3>3, <3>4
  <2> QED  BY <2>2, <2>3, <2>4, <2>5
<1>16. /\ DOMAIN subst = VariablesOf(trees)
       /\ \A v \in DOMAIN subst : /\ subst[v] \in Frame(a, n) /\ subst[v] \in Temps
                                  /\ temp_labs[subst[v]].type = TypeOfVar[v]
                                  /\ \A w \in DOMAIN subst : subst[v] = subst[w] => v = w
                                  /\ \A p \in FreshIn(a) : subst[v] \notin NewLabels(Fresh(a, p))
  BY <1>1, <1>2, <1>3 DEF Refreshing
<1>17. \A q \in VarNodes(f) : OldLabel(f, q) \in DOMAIN subst /\ NewLabel(f, q) = subst[OldLabel(f, q)]
  BY <1>3, <1>4, <1>16, Relabelled
<1>18. /\ NewLabels(f) \subseteq Frame(a, n) /\ IsRenaming(f)
       /\ \A p \in FreshIn(a) : NewLabels(f) \cap NewLabels(Fresh(a, p)) = {}
  <2>1. NewLabels(f) \subseteq Frame(a, n) /\ \A p \in FreshIn(a) : NewLabels(f) \cap NewLabels(Fresh(a, p)) = {}
    BY <1>16, <1>17 DEF NewLabels
  <2>2. IsRenaming(f)
    BY <1>16, <1>17 DEF IsRenaming
  <2> QED  BY <2>1, <2>2
<1> HIDE DEF new
<1>19. FreshOwn'
  <2> SUFFICES ASSUME NEW b \in Allocators
               PROVE  /\ Len(fresh'[b]) = Usable(b)'
                      /\ \A p \in FreshIn(b)' :
                            /\ NewLabels(Fresh(b, p)') \subseteq Frame(b, p[1])' /\ IsRenaming(Fresh(b, p))'
                            /\ \A q \in FreshIn(b)' \ {p} : NewLabels(Fresh(b, p)') \cap NewLabels(Fresh(b, q)') = {}
    BY DEF FreshOwn, NewLabels, VarNodes, NewLabel
  <2>1. \A c, d : Frame(c, d)' = Frame(c, d)
    BY <1>1 DEF Frame
  <2>2. \A p \in FreshIn(b) :
           /\ NewLabels(Fresh(b, p)) \subseteq Frame(b, p[1])
           /\ \A q \in FreshIn(b) \ {p} : NewLabels(Fresh(b, p)) \cap NewLabels(Fresh(b, q)) = {}
    BY DEF FreshOwn
  <2>3. CASE b # a
    <3>1. Keeps(b)
      BY <1>1, <1>9, <1>10, <1>13, <2>3, OthersStay
    <3> QED  BY <1>13, <2>1, <2>2, <3>1, RenamingStays DEF Keeps
  <2>4. CASE b = a
    <3>1. Len(fresh'[a]) = Usable(a)'
      BY <1>1, <1>2, <1>9, <1>10 DEF Usable
    <3>2. IsRenaming(Fresh(a, new))'
      <4>1. IsRenaming(f)' <=> IsRenaming(f)
        BY <1>1 DEF IsRenaming, VarNodes, OldLabel, NewLabel
      <4>2. PICK g : g = Fresh(a, new)' /\ g = f
        BY <1>15
      <4>3. IsRenaming(g)'
        BY <1>18, <4>1, <4>2
      <4> QED  BY <4>2, <4>3, SMTT(30) DEF IsRenaming, VarNodes, OldLabel, NewLabel
    <3>3. ASSUME NEW p \in FreshIn(a)'
          PROVE  NewLabels(Fresh(a, p)') \subseteq Frame(a, p[1])' /\ IsRenaming(Fresh(a, p))'
      <4>1. CASE p = new
        BY <1>15, <1>18, <2>1, <3>2, <4>1 DEF new
      <4>2. CASE p # new
        BY <1>13, <1>15, <2>1, <2>2, <2>4, <4>2, RenamingStays
      <4> QED  BY <4>1, <4>2
    <3>4. ASSUME NEW p \in FreshIn(a)', NEW q \in FreshIn(a)', p # q
          PROVE  NewLabels(Fresh(a, p)') \cap NewLabels(Fresh(a, q)') = {}
      <4>1. CASE p # new /\ q # new
        BY <1>15, <2>2, <2>4, <3>4, <4>1
      <4>2. CASE p = new
        BY <1>15, <1>18, <3>4, <4>2
      <4>3. CASE q = new
        BY <1>15, <1>18, <3>4, <4>3
      <4> QED  BY <4>1, <4>2, <4>3
    <3> QED  BY <2>4, <3>1, <3>3, <3>4
  <2> QED  BY <2>3, <2>4
<1>20. Busy'
  BY <1>1, <1>9, <1>10, <1>13, OthersStay DEF Busy
<1>21. Shared'
  BY <1>1, <1>12, <1>13, SharedStays
<1> QED  BY <1>12, <1>13, <1>14, <1>19, <1>20, <1>21

-----------------------------------------------------------------------------
LEMMA InitOwns == TempInit => IInv
<1> SUFFICES ASSUME TempInit PROVE IInv
  OBVIOUS
<1>1. /\ temp_labs = <<>> /\ free_temp_vars = [type \in TempTypes |-> <<>>]
      /\ allocated = [a \in Allocators |-> <<>>] /\ doing = [a \in Allocators |-> Idle]
      /\ fresh = [a \in Allocators |-> <<>>] /\ unframed = {}
  BY DEF TempInit
<1>2. DOMAIN <<>> = {} /\ Len(<<>>) = 0
  OBVIOUS
<1>3. <<>> \in Seq(Named) /\ <<>> \in Seq(Nat) /\ <<>> \in Seq(Seq(Nat)) /\ <<>> \in Seq(Seq(Renamings))
  BY EmptySeq
<1>4. TypeOK
  BY <1>1, <1>3, DoingTypes DEF TypeOK
<1>5. Temps = {} /\ (\A type, i : ~FreeAt(type, i)) /\ (\A a, d, i : ~HeldAt(a, d, i))
  BY <1>1, <1>2 DEF Temps, FreeAt, HeldAt
<1>6. FreeOnce /\ HeldOnce /\ Shared
  BY <1>1, <1>5 DEF FreeOnce, HeldOnce, Shared, AreFree, AreHeld
<1>7. \A a \in Allocators : doing[a].what = "nothing" /\ FreshIn(a) = {} /\ Len(fresh[a]) = Usable(a)
  BY <1>1, <1>2, DoingTypes DEF FreshIn, Usable
<1> QED  BY <1>4, <1>6, <1>7 DEF IInv, FreshOwn, Busy

LEMMA NothingHappens ==
    ASSUME IInv, UNCHANGED tempVars
    PROVE  IInv'
<1> USE DEF IInv
<1>1. UNCHANGED <<temp_labs, free_temp_vars, allocated, doing, fresh, unframed>>
  BY DEF tempVars
<1>2. Temps' = Temps /\ Extended /\ FreeOnce' /\ \A x : AreFree(x)' <=> AreFree(x)
  BY <1>1, SameLabels, Unchanged_Free
<1>3. \A a, d, i : HeldAt(a, d, i)' <=> HeldAt(a, d, i)
  <2>1. \A a, d : Released(a, d)' = Released(a, d)
    BY <1>1 DEF Released
  <2> QED  BY <1>1, <2>1 DEF HeldAt
<1>4. HeldOnce' /\ \A x : AreHeld(x)' <=> AreHeld(x)
  BY <1>1, <1>3, HeldStays
<1>5. Shared'
  BY <1>1, <1>2, <1>4, SharedStays
<1>6. FreshOwn' /\ Busy'
  <2>1. \A b \in Allocators : /\ Keeps(b)
                              /\ doing'[b].what = "refresh" => Refreshing(b)'
                              /\ doing'[b].what = "release" => Releasing(b)'
    BY <1>1, <1>2, OthersStay
  <2> QED  BY <1>2, <2>1, FreshStays DEF Busy
<1>7. TypeOK'
  BY <1>1 DEF TypeOK
<1> QED  BY <1>2, <1>4, <1>5, <1>6, <1>7

LEMMA NextOwns == IInv /\ [TempNext]_tempVars => IInv'
<1> SUFFICES ASSUME IInv, [TempNext]_tempVars PROVE IInv'
  OBVIOUS
<1>1. ASSUME NEW a \in Allocators, NewFrame(a) PROVE IInv'
  BY <1>1, NewFrameKeeps
<1>2. ASSUME NEW a \in Allocators, StartRefresh(a) PROVE IInv'
  BY <1>2, StartRefreshKeeps
<1>3. ASSUME NEW a \in Allocators, RefreshVar(a) PROVE IInv'
  BY <1>3, RefreshVarKeeps
<1>4. ASSUME NEW a \in Allocators, Refreshed(a) PROVE IInv'
  BY <1>4, RefreshedKeeps
<1>5. ASSUME NEW a \in Allocators, StartRelease(a) PROVE IInv'
  BY <1>5, StartReleaseKeeps
<1>6. ASSUME NEW a \in Allocators, ReleaseVar(a) PROVE IInv'
  BY <1>6, ReleaseVarKeeps
<1>7. ASSUME NEW a \in Allocators, ReleaseFrame(a) PROVE IInv'
  BY <1>7, ReleaseFrameKeeps
<1>8. CASE NewTempLabel
  BY <1>8, NewTempLabelKeeps
<1>9. CASE TakeUnframed
  BY <1>9, TakeUnframedKeeps
<1>10. CASE UNCHANGED tempVars
  BY <1>10, NothingHappens
<1> QED  BY <1>1, <1>2, <1>3, <1>4, <1>5, <1>6, <1>7, <1>8, <1>9, <1>10 DEF TempNext

(* What the invariant says with sets, counted. *)
LEMMA OwnedOnce ==
    ASSUME IInv, NEW lab \in Temps
    PROVE  TimesOwned(lab) = 1
<1> USE DEF IInv
<1>1. \A r : r \in PlacesHeld(lab) <=>
         \E a, d, i : HeldAt(a, d, i) /\ allocated[a][d][i] = lab /\ r = <<a, <<d, i>>>>
  BY DEF PlacesHeld, Holds, Slots, HeldAt
<1>2. \A r : r \in PlacesFree(lab) <=> \E type, i : FreeAt(type, i) /\ free_temp_vars[type][i] = lab /\ r = <<type, i>>
  BY DEF PlacesFree, FreeAt
<1>3. Cardinality({}) = 0 /\ \A r : Cardinality({r}) = 1
  BY FS_EmptySet, FS_Singleton
<1>4. AreHeld(lab) => \E r : PlacesHeld(lab) = {r}
  <2> SUFFICES ASSUME AreHeld(lab) PROVE \E r : PlacesHeld(lab) = {r}
    OBVIOUS
  <2>1. PICK a, d, i : HeldAt(a, d, i) /\ allocated[a][d][i] = lab
    BY DEF AreHeld
  <2>2. \A r \in PlacesHeld(lab) : r = <<a, <<d, i>>>>
    BY <1>1, <2>1 DEF HeldOnce
  <2>3. <<a, <<d, i>>>> \in PlacesHeld(lab)
    BY <1>1, <2>1
  <2>4. PlacesHeld(lab) = {<<a, <<d, i>>>>}
    BY <2>2, <2>3
  <2> QED  BY <2>4
<1>5. AreFree(lab) => \E r : PlacesFree(lab) = {r}
  <2> SUFFICES ASSUME AreFree(lab) PROVE \E r : PlacesFree(lab) = {r}
    OBVIOUS
  <2>1. PICK type, i : FreeAt(type, i) /\ free_temp_vars[type][i] = lab
    BY DEF AreFree
  <2>2. \A r \in PlacesFree(lab) : r = <<type, i>>
    BY <1>2, <2>1 DEF FreeOnce
  <2>3. <<type, i>> \in PlacesFree(lab)
    BY <1>2, <2>1
  <2>4. PlacesFree(lab) = {<<type, i>>}
    BY <2>2, <2>3
  <2> QED  BY <2>4
<1>6. (~AreHeld(lab) => PlacesHeld(lab) = {}) /\ (~AreFree(lab) => PlacesFree(lab) = {})
  BY <1>1, <1>2 DEF AreHeld, AreFree
<1>7. unframed \cap {lab} = IF lab \in unframed THEN {lab} ELSE {}
  OBVIOUS
<1>8. CASE AreHeld(lab)
  <2>1. ~AreFree(lab) /\ lab \notin unframed
    BY <1>8 DEF Shared
  <2>2. Cardinality(PlacesHeld(lab)) = 1 /\ Cardinality(PlacesFree(lab)) = 0 /\ Cardinality(unframed \cap {lab}) = 0
    BY <1>3, <1>4, <1>6, <1>7, <1>8, <2>1
  <2> QED  BY <2>2 DEF TimesOwned
<1>9. CASE AreFree(lab)
  <2>1. ~AreHeld(lab) /\ lab \notin unframed
    BY <1>9 DEF Shared
  <2>2. Cardinality(PlacesHeld(lab)) = 0 /\ Cardinality(PlacesFree(lab)) = 1 /\ Cardinality(unframed \cap {lab}) = 0
    BY <1>3, <1>5, <1>6, <1>7, <1>9, <2>1
  <2> QED  BY <2>2 DEF TimesOwned
<1>10. CASE lab \in unframed
  <2>1. ~AreHeld(lab) /\ ~AreFree(lab)
    BY <1>10 DEF Shared
  <2>2. Cardinality(PlacesHeld(lab)) = 0 /\ Cardinality(PlacesFree(lab)) = 0 /\ Cardinality(unframed \cap {lab}) = 1
    BY <1>3, <1>6, <1>7, <1>10, <2>1
  <2> QED  BY <2>2 DEF TimesOwned
<1> QED  BY <1>8, <1>9, <1>10 DEF Shared

LEMMA InvariantOwns == IInv => TemporariesOwned
<1> SUFFICES ASSUME IInv PROVE TemporariesOwned
  OBVIOUS
<1>1. \A lab \in DOMAIN temp_labs : IsTemp(lab) => TimesOwned(lab) = 1
  BY OwnedOnce DEF Temps
<1>2. ASSUME NEW a \in Allocators, NEW p \in FreshIn(a), NEW lab \in NewLabels(Fresh(a, p))
      PROVE  Holds(a, lab) # {}
  <2>1. PICK d \in DOMAIN allocated[a] : d = p[1] /\ d \in 1..Usable(a)
    BY FreshIsHeld, UsableIsHeld DEF IInv
  <2>2. lab \in Frame(a, d)
    BY <2>1 DEF IInv, FreshOwn
  <2>3. Released(a, d) = 0
    <3>1. Len(allocated[a]) \in Nat /\ DOMAIN allocated[a] = 1..Len(allocated[a])
      BY FramesTyped DEF IInv
    <3>2. CASE doing[a].what = "release"
      BY <2>1, <3>1, <3>2 DEF Usable, Released
    <3>3. CASE doing[a].what # "release"
      BY <3>3 DEF Released
    <3> QED  BY <3>2, <3>3
  <2>4. PICK i \in 1..Len(allocated[a][d]) : allocated[a][d][i] = lab
    BY <2>2, FramesTyped DEF Frame, IInv
  <2>5. <<d, i>> \in Slots(a)
    <3>1. i \in (0 + 1)..Len(allocated[a][d])
      OBVIOUS
    <3> QED  BY <2>3, <3>1 DEF Slots
  <2>6. <<d, i>> \in Holds(a, lab)
    BY <2>4, <2>5 DEF Holds
  <2> QED  BY <2>6
<1> QED  BY <1>1, <1>2 DEF TemporariesOwned, IInv, FreshOwn

(* Every temporary variable is free or has one owner, and what was         *)
(* refreshed is a renaming by variables of its own: TempGenerator and      *)
(* temp_stacked_allocator, for any number of allocators and any trees.     *)
THEOREM VariablesHaveOneOwner == TempSpec => []TemporariesOwned
<1>1. TempInit => IInv
  BY InitOwns
<1>2. IInv /\ [TempNext]_tempVars => IInv'
  BY NextOwns
<1>3. IInv => TemporariesOwned
  BY InvariantOwns
<1> QED  BY <1>1, <1>2, <1>3, PTL DEF TempSpec

=============================================================================
