--------------------------------- MODULE Gui ---------------------------------
(***************************************************************************)
(* The GUI of the client programs (gui.py, widgets.py): a timer calls the  *)
(* program, exchanges values between its variables and the widgets, and    *)
(* between two calls the user moves the widgets. One thread does it all.   *)
(*                                                                         *)
(* A variable is a sequence of values; a toggle's is its first element, a  *)
(* tree's a dictionary whose elements are numbered here.                   *)
(***************************************************************************)
EXTENDS Naturals, Sequences, FiniteSets, SequencesExt

CONSTANTS
  Windows,      \* the programs' windows: their widgets in the order they are added
  Type,         \* the widgets' types, the variable each is for, whether it is read-only
  Loc,
  Readonly,
  Indices,      \* the elements each is for, one slider or menu for each
  Size,         \* the variables, with the number of their elements
  Values, LowValue, HighValue  \* the values, and the range of sliders and menus

ASSUME GuiAssumption ==
  /\ Values \subseteq Nat /\ {LowValue - 1, LowValue, HighValue} \subseteq Values /\ LowValue < HighValue
  /\ \A s \in Windows : IsInjective(s) /\ s \in Seq(DOMAIN Type)
  /\ \A w \in DOMAIN Type :
       /\ Type[w] \in {"M3GuiToggle", "M3GuiModes", "M3GuiSliders", "M3GuiTree"}
       /\ Loc[w] \in DOMAIN Size /\ Size[Loc[w]] \in Nat /\ Readonly[w] \in BOOLEAN
       /\ Indices[w] \in Seq(1..Size[Loc[w]])

Elems(l) == 1..Size[l]
Places(w) == 1..Len(Indices[w])

VARIABLES
  base_widgets,  \* the widgets of this program's window
  loc,        \* the program's variables
  value,      \* the value of each of base_widgets
  shown,      \* what the user sees and moves, by its place in the widget
  data_last,  \* M3GuiModes: the values last retrieved
  first_update,
  stopped,    \* who has raised, for then the timer is gone
  watched,    \* history: a widget, and the updates since the user has moved it,
  still       \* up to two

vars == <<base_widgets, loc, value, shown, data_last, first_update, stopped, watched, still>>

W == ToSet(base_widgets)
Locs == {Loc[w] : w \in W}

\* What the program has in a variable: a truth value in a toggle's.
Written(l) == IF \E w \in W : Type[w] = "M3GuiToggle" /\ Loc[w] = l THEN {LowValue, HighValue} ELSE Values

\* add(): the widget takes the value its variable has.
Init ==
  /\ base_widgets \in Windows
  /\ loc \in {f \in [Locs -> UNION {[Elems(l) -> Values] : l \in Locs}] :
                \A l \in Locs : f[l] \in [Elems(l) -> Written(l)]}
  /\ value = [w \in W |-> loc[Loc[w]]]
  /\ shown = [w \in W |-> [i \in Places(w) |-> value[w][i]]]
  /\ data_last = shown
  /\ first_update = TRUE /\ stopped = "no" /\ watched \in W /\ still = 0

(***************************************************************************)
(* step(): the values go from the widgets to the variables and back.       *)
(***************************************************************************)
\* The set callback of a widget: SeqSet copies its indices, DictSet everything,
\* a toggle is one value, and read-only widgets set nothing.
Sets(w) ==
  IF Readonly[w] THEN {}
  ELSE CASE Type[w] = "M3GuiTree"   -> Elems(Loc[w])
         [] Type[w] = "M3GuiToggle" -> {1}
         [] OTHER                   -> ToSet(Indices[w])

\* Mutant: the values go to the widgets before they come from them.
load_val_from_widgetsLate(variables) == variables

\* One widget after the other: the last that sets an element has it.
load_val_from_widgets(variables) ==
  [l \in Locs |-> [e \in Elems(l) |->
     LET setters == {i \in 1..Len(base_widgets) : Loc[base_widgets[i]] = l /\ e \in Sets(base_widgets[i])}
     IN IF setters = {} THEN variables[l][e] ELSE value[base_widgets[Max(setters)]][e]]]
load_val_to_widgets(variables, w) == variables[Loc[w]]

(***************************************************************************)
(* load and retrieve of the widgets. v is the widget's new value.          *)
(***************************************************************************)
Clamped(x) == IF x > HighValue THEN HighValue ELSE IF x < LowValue THEN LowValue ELSE x
\* A menu without the choice shows -1, one below the first.
Choice(x) == IF x \in LowValue..HighValue THEN x ELSE LowValue - 1

\* What a widget shows when it is built, and what it refuses. The menus are
\* filled from the first elements, whatever the indices are.
Built(w, v) ==
  [i \in Places(w) |->
     CASE Type[w] = "M3GuiModes"   -> Choice(v[i])
       [] Type[w] = "M3GuiSliders" -> Clamped(v[Indices[w][i]])
       [] OTHER                    -> v[Indices[w][i]]]
M3GuiBadReadOnly(w) == first_update /\ Readonly[w] /\ Type[w] \in {"M3GuiToggle", "M3GuiModes"}

\* Mutant: the writable widgets follow the value, too.
LoadedAlways(w, v) == Built(w, v)

\* Later loads: read-only sliders and trees follow the value.
Loaded(w, v) ==
  IF first_update \/ (Readonly[w] /\ Type[w] \in {"M3GuiSliders", "M3GuiTree"})
    THEN Built(w, v) ELSE shown[w]

\* A menu whose value is not the one last retrieved should follow it, but the
\* name it uses for it does not exist.
LastValue(w, v) == IF first_update THEN v ELSE data_last[w]
NameError(w, v) ==
  Type[w] = "M3GuiModes" /\ \E i \in Places(w) : LastValue(w, v)[i] # v[Indices[w][i]]

\* Place of element e in w.
At(w, e) == CHOOSE i \in Places(w) : Indices[w][i] = e
Retrieved(w, v, s) ==
  IF Type[w] = "M3GuiTree" \/ Readonly[w] THEN v
  ELSE [e \in Elems(Loc[w]) |-> IF e \in ToSet(Indices[w]) THEN s[At(w, e)] ELSE v[e]]

(***************************************************************************)
(* update(), called by the timer: the program's callback, which may change *)
(* its variables (bound: an element in each call), the exchange, and then  *)
(* the widgets one by one.                                                 *)
(***************************************************************************)
\* The widgets up to the first that raises have been loaded, and retrieved
\* unless it raises as the window is built.
Update(called) ==
  /\ stopped = "no"
  /\ \E variables \in called : loc' = load_val_from_widgets(variables)
  /\ LET v(w) == load_val_to_widgets(loc', w)
         raises == {i \in 1..Len(base_widgets) : M3GuiBadReadOnly(base_widgets[i]) \/ NameError(base_widgets[i], v(base_widgets[i]))}
         done == {base_widgets[i] : i \in {j \in 1..Len(base_widgets) : \A r \in raises : j < r}}
         retrieved == IF first_update /\ raises # {} THEN {} ELSE done
     IN /\ shown' = [w \in W |-> IF w \in done THEN Loaded(w, v(w)) ELSE shown[w]]
        /\ value' = [w \in W |-> IF w \in retrieved THEN Retrieved(w, v(w), shown'[w]) ELSE v(w)]
        /\ data_last' = [w \in W |-> IF w \in retrieved /\ Type[w] = "M3GuiModes"
                                       THEN shown'[w] ELSE data_last[w]]
        /\ stopped' = IF raises = {} THEN "no" ELSE "widget"
  /\ first_update' = FALSE
  /\ still' = (IF still < 2 THEN still + 1 ELSE 2) /\ UNCHANGED <<base_widgets, watched>>
update == Update({loc} \cup UNION {{[loc EXCEPT ![l][e] = x] : e \in Elems(l), x \in Written(l)} : l \in Locs})

\* The callback raises, before anything is exchanged.
CallbackRaises ==
  /\ stopped = "no" /\ stopped' = "program"
  /\ UNCHANGED <<base_widgets, loc, value, shown, data_last, first_update, watched, still>>

(***************************************************************************)
(* The user, while the main loop is idle.                                  *)
(***************************************************************************)
\* A read-only slider can be moved, too; only its tree cells cannot be edited.
Move(w, i, x) ==
  /\ ~first_update /\ stopped = "no"
  /\ Type[w] # "M3GuiTree"
  /\ x \in LowValue..HighValue /\ x # shown[w][i]
  /\ shown' = [shown EXCEPT ![w][i] = x] /\ still' = (IF w = watched THEN 0 ELSE still)
  /\ UNCHANGED <<base_widgets, loc, value, data_last, first_update, stopped, watched>>

\* edited_cb writes into the widget's dictionary, which is the program's own.
edited_cb(w, i, x) ==
  /\ ~first_update /\ stopped = "no"
  /\ Type[w] = "M3GuiTree" /\ ~Readonly[w]
  /\ LET e == Indices[w][i] IN
       /\ value' = [u \in W |-> IF Type[u] = "M3GuiTree" /\ Loc[u] = Loc[w]
                                  THEN [value[u] EXCEPT ![e] = x] ELSE value[u]]
       /\ loc' = [loc EXCEPT ![Loc[w]][e] = x]
  /\ shown' = [shown EXCEPT ![w][i] = x] /\ still' = (IF w = watched THEN 0 ELSE still)
  /\ UNCHANGED <<base_widgets, data_last, first_update, stopped, watched>>

User ==
  \E w \in W : \E i \in Places(w), x \in Values : Move(w, i, x) \/ edited_cb(w, i, x)

Next == update \/ CallbackRaises \/ User

Spec == Init /\ [][Next]_vars

(***************************************************************************)
(* Properties.                                                             *)
(***************************************************************************)
\* Two widgets that set the same element.
Sharing(w) == \E u \in W \ {w} : Loc[u] = Loc[w] /\ Sets(u) \cap Sets(w) # {}

\* The GUI freezes, with every exchange between the program and its widgets,
\* only for a widget that may not be read-only, a menu that is not for the first
\* elements or is not alone with them, or because the program raises: what the
\* program writes to a menu's variable, which should move the menu, never does.
FreezesOnlyFor ==
  stopped = "widget" =>
    \E w \in W : /\ Type[w] \in {"M3GuiToggle", "M3GuiModes"}
                 /\ \/ Readonly[w] \/ Sharing(w)
                    \/ \E i \in Places(w) : Indices[w][i] # i

\* What the user sets in a widget that is alone with its elements, and has each
\* of them once, is in the program's variable after two calls of the timer, and
\* stays there until the user moves it again, whatever the program writes there.
Once(w, i) == \A j \in Places(w) : Indices[w][j] = Indices[w][i] => j = i
EditArrives ==
  \A i \in Places(watched) :
    (stopped = "no" /\ still = 2 /\ ~Sharing(watched) /\ Once(watched, i)
       /\ Indices[watched][i] \in Sets(watched)) =>
      loc[Loc[watched]][Indices[watched][i]] = shown[watched][i]
=============================================================================
