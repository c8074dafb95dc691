------------------------------ MODULE TempVars -------------------------------
(***************************************************************************)
(* Temporary variables and labels (mm/tempgen.cpp, the stacked allocator   *)
(* and the refreshing of mm/toolbox.cpp).                                  *)
(*                                                                         *)
(* Every thread has allocators of its own; the generator is shared, and    *)
(* its mutex covers one request.  Refreshing an assertion and releasing a  *)
(* frame take a request for each variable, so those of others come in      *)
(* between.  A label is a number; symbols follow the labels of variables.  *)
(***************************************************************************)
EXTENDS FlatTrees, FiniteSets, SequencesExt

CONSTANTS
    Allocators,
    Refreshable,    \* bound: the assertions that are refreshed: trees, of the hypotheses and the thesis
    HypNames,       \* bound: the names of new hypotheses
    MaxTemps,       \* bound: labels
    MaxFrames       \* bound: open frames of an allocator, and refreshed assertions of a frame

(* The trees that are refreshed are made of nodes. *)
ASSUME RefreshableAssumption ==
    \A trees \in Refreshable : \A i \in DOMAIN trees : \A j \in DOMAIN trees[i] :
       trees[i][j] = Node(trees[i][j].lab, trees[i][j].desc)
ASSUME TempsAssumption == MaxTemps \in Nat /\ MaxFrames \in Nat

VARIABLES
    temp_labs,      \* the labels in order: what they name
    free_temp_vars, \* of each type, the last released last
    allocated,      \* of every allocator: the frames; none before it is built
    doing,          \* of every allocator: what its thread is in the middle of
    fresh,          \* of every allocator: the assertions refreshed in each frame that its thread may still use
    unframed        \* the variables that were taken without an allocator

tempVars == <<temp_labs, free_temp_vars, allocated, doing, fresh, unframed>>

TempTypes == Range(TypeOfVar)
Idle == [what |-> "nothing"]
TempVar(type, idx) == [kind |-> "temp", type |-> type, idx |-> idx]
Hypothesis(name) == [kind |-> "hypothesis", name |-> name]
IsTemp(lab) == temp_labs[lab].kind = "temp"

TempInit ==
    /\ temp_labs = <<>>
    /\ free_temp_vars = [type \in TempTypes |-> <<>>]
    /\ allocated = [a \in Allocators |-> <<>>]
    /\ doing = [a \in Allocators |-> Idle]
    /\ fresh = [a \in Allocators |-> <<>>]
    /\ unframed = {}

-----------------------------------------------------------------------------
(* The generator. *)
CreateTempVar(type) ==
    LET idx == Cardinality({lab \in DOMAIN temp_labs : IsTemp(lab) /\ temp_labs[lab].type = type})
    IN Len(temp_labs) < MaxTemps /\ temp_labs' = Append(temp_labs, TempVar(type, idx + 1))

NewTempVar(type, lab) ==
    \/ free_temp_vars[type] = <<>> /\ CreateTempVar(type) /\ lab = Len(temp_labs) + 1 /\ UNCHANGED free_temp_vars
    \/ /\ free_temp_vars[type] # <<>> /\ lab = Last(free_temp_vars[type])
       /\ free_temp_vars' = [free_temp_vars EXCEPT ![type] = Front(@)]
       /\ UNCHANGED temp_labs

ReleaseTempVar(lab) ==
    free_temp_vars' = [free_temp_vars EXCEPT ![temp_labs[lab].type] = Append(@, lab)]

(* A hypothesis of the same name gets the same label in every engine. *)
NewTempLabel ==
    \E name \in HypNames :
       /\ \A lab \in DOMAIN temp_labs : temp_labs[lab] # Hypothesis(name)
       /\ Len(temp_labs) < MaxTemps
       /\ temp_labs' = Append(temp_labs, Hypothesis(name))
       /\ UNCHANGED <<free_temp_vars, allocated, doing, fresh, unframed>>

-----------------------------------------------------------------------------
(* The allocators. *)
Open(a) == doing[a] = Idle /\ allocated[a] # <<>>

NewFrame(a) ==   \* the first one is made with the allocator
    /\ doing[a] = Idle
    /\ Len(allocated[a]) < MaxFrames
    /\ allocated' = [allocated EXCEPT ![a] = Append(@, <<>>)]
    /\ fresh' = [fresh EXCEPT ![a] = Append(@, <<>>)]
    /\ UNCHANGED <<temp_labs, free_temp_vars, doing, unframed>>

VariablesOf(trees) == UNION {CollectVariables(trees[i]) : i \in DOMAIN trees}

(* The variables are a set, renamed here in any order. *)
StartRefresh(a) ==
    /\ Open(a)
    /\ Len(Last(fresh[a])) < MaxFrames
    /\ \E trees \in Refreshable :
          doing' = [doing EXCEPT ![a] = [what |-> "refresh", trees |-> trees, subst |-> << >>, vars |-> VariablesOf(trees)]]
    /\ UNCHANGED <<temp_labs, free_temp_vars, allocated, fresh, unframed>>

SubstWith(subst, var, lab) == [v \in DOMAIN subst \union {var} |-> IF v = var THEN lab ELSE subst[v]]

RefreshVar(a) ==
    /\ doing[a].what = "refresh"
    /\ \E var \in doing[a].vars, lab \in 1 .. MaxTemps :
          /\ NewTempVar(TypeOfVar[var], lab)
          /\ allocated' = [allocated EXCEPT ![a][Len(allocated[a])] = Append(@, lab)]
          /\ doing' = [doing EXCEPT ![a].vars = @ \ {var}, ![a].subst = SubstWith(@, var, lab)]
    /\ UNCHANGED <<fresh, unframed>>

Renamed(trees, subst) ==
    [from |-> trees, to |-> [i \in DOMAIN trees |-> Substitute2Simple(trees[i], subst)]]

Refreshed(a) ==
    /\ doing[a].what = "refresh"
    /\ doing[a].vars = {}
    /\ fresh' = [fresh EXCEPT ![a][Len(allocated[a])] = Append(@, Renamed(doing[a].trees, doing[a].subst))]
    /\ doing' = [doing EXCEPT ![a] = Idle]
    /\ UNCHANGED <<temp_labs, free_temp_vars, allocated, unframed>>

(* A frame is released by a thread that has no more use for what was       *)
(* refreshed in it (apps/learning.cpp:202-218); the destructor releases    *)
(* them all.                                                               *)
StartRelease(a) ==
    /\ Open(a)
    /\ \E all \in BOOLEAN :
          /\ doing' = [doing EXCEPT ![a] = [what |-> "release", all |-> all, released |-> 0]]
          /\ fresh' = [fresh EXCEPT ![a] = IF all THEN <<>> ELSE Front(@)]
          /\ ~all => Len(allocated[a]) > 1
    /\ UNCHANGED <<temp_labs, free_temp_vars, allocated, unframed>>

ReleaseVar(a) ==
    /\ doing[a].what = "release"
    /\ doing[a].released < Len(Last(allocated[a]))
    /\ ReleaseTempVar(Last(allocated[a])[doing[a].released + 1])
    /\ doing' = [doing EXCEPT ![a].released = @ + 1]
    /\ UNCHANGED <<temp_labs, allocated, fresh, unframed>>

Popped_Oldest(open) == Tail(open)
Popped(open) == Front(open)

ReleaseFrame(a) ==
    /\ doing[a].what = "release"
    /\ doing[a].released = Len(Last(allocated[a]))
    /\ allocated' = [allocated EXCEPT ![a] = Popped(@)]
    /\ doing' = [doing EXCEPT ![a] = IF doing[a].all /\ Len(allocated[a]) > 1 THEN [@ EXCEPT !.released = 0] ELSE Idle]
    /\ UNCHANGED <<temp_labs, free_temp_vars, fresh, unframed>>

(* Some tools ask the toolbox without an allocator and never give back. *)
TakeUnframed ==
    /\ unframed = {}
    /\ \E type \in TempTypes, lab \in 1 .. MaxTemps : NewTempVar(type, lab) /\ unframed' = {lab}
    /\ UNCHANGED <<allocated, doing, fresh>>

TempNext ==
    \/ \E a \in Allocators : \/ NewFrame(a) \/ StartRefresh(a) \/ RefreshVar(a) \/ Refreshed(a)
                             \/ StartRelease(a) \/ ReleaseVar(a) \/ ReleaseFrame(a)
    \/ NewTempLabel
    \/ TakeUnframed

TempSpec == TempInit /\ [][TempNext]_tempVars

-----------------------------------------------------------------------------
(* A thread that is releasing a frame still lists what it has released. *)
Released(a, frame) ==
    IF doing[a].what = "release" /\ frame = Len(allocated[a]) THEN doing[a].released ELSE 0
Slots(a) ==
    UNION {{frame} \X ((Released(a, frame) + 1) .. Len(allocated[a][frame])) : frame \in DOMAIN allocated[a]}

Holds(a, lab) == {slot \in Slots(a) : allocated[a][slot[1]][slot[2]] = lab}

PlacesHeld(lab) == UNION {{a} \X Holds(a, lab) : a \in Allocators}
PlacesFree(lab) ==
    UNION {{type} \X {i \in DOMAIN free_temp_vars[type] : free_temp_vars[type][i] = lab} : type \in TempTypes}
TimesOwned(lab) ==
    Cardinality(PlacesHeld(lab)) + Cardinality(PlacesFree(lab)) + Cardinality(unframed \cap {lab})

VarNodes(f) ==
    UNION {{i} \X {j \in DOMAIN f.from[i] : f.from[i][j].lab \in TreeVars} : i \in DOMAIN f.from}
OldLabel(f, at) == f.from[at[1]][at[2]].lab
NewLabel(f, at) == f.to[at[1]][at[2]].lab
NewLabels(f) == {NewLabel(f, at) : at \in VarNodes(f)}

FreshIn(a) == UNION {{frame} \X DOMAIN fresh[a][frame] : frame \in DOMAIN fresh[a]}
Fresh(a, p) == fresh[a][p[1]][p[2]]

IsRenaming(f) ==
    \A p, q \in VarNodes(f) :
       /\ (OldLabel(f, p) = OldLabel(f, q)) <=> (NewLabel(f, p) = NewLabel(f, q))
       /\ temp_labs[NewLabel(f, p)].type = TypeOfVar[OldLabel(f, p)]

(* Every temporary variable is free or has one owner, however the requests *)
(* of the threads interleave, and is never both; and an assertion that was *)
(* refreshed is a renaming by variables that its allocator holds and no    *)
(* other refreshed assertion has.                                          *)
TemporariesOwned ==
    /\ \A lab \in DOMAIN temp_labs : IsTemp(lab) => TimesOwned(lab) = 1
    /\ \A a \in Allocators : \A p \in FreshIn(a) :
          /\ IsRenaming(Fresh(a, p))
          /\ \A lab \in NewLabels(Fresh(a, p)) : Holds(a, lab) # {}
          /\ \A q \in FreshIn(a) \ {p} : NewLabels(Fresh(a, p)) \cap NewLabels(Fresh(a, q)) = {}

=============================================================================
