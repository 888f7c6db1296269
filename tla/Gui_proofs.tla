----------------------------- MODULE Gui_proofs -----------------------------
(***************************************************************************)
(* Theorems about the GUI, for windows with any number of widgets, and any *)
(* variables and values.                                                   *)
(***************************************************************************)
EXTENDS Gui, SequenceTheorems, TLAPS

(***************************************************************************)
(* The inductive invariants.                                               *)
(***************************************************************************)
\* The elements of the variables, and the places of the widgets.
Shapes ==
  /\ base_widgets \in Windows /\ watched \in W
  /\ DOMAIN loc = Locs /\ \A l \in Locs : DOMAIN loc[l] = Elems(l)
  /\ DOMAIN value = W /\ \A w \in W : DOMAIN value[w] = Elems(Loc[w])
  /\ DOMAIN shown = W /\ \A w \in W : DOMAIN shown[w] = Places(w)
  /\ still \in 0..2 /\ (first_update => still = 0)

\* A menu that is for the first elements and is alone with them sets the
\* variable to what was last retrieved from it.
Steady(w) == Type[w] = "M3GuiModes" /\ ~Readonly[w] /\ ~Sharing(w) /\ \A i \in Places(w) : Indices[w][i] = i
MenusKnown ==
  stopped = "no" /\ ~first_update =>
    \A w \in W : Steady(w) => \A i \in Places(w) : value[w][i] = data_last[w][i]

\* A widget that is alone with an element has there what it shows, from the first
\* call of the timer after the user has moved it, and then so has the variable.
\* In a tree what is edited is the variable itself.
Alone(w, i) == ~Sharing(w) /\ Once(w, i) /\ Indices[w][i] \in Sets(w)
EditKnown ==
  stopped = "no" =>
    \A i \in Places(watched) : Alone(watched, i) =>
      /\ still > 0 \/ (Type[watched] = "M3GuiTree" /\ ~first_update) =>
           value[watched][Indices[watched][i]] = shown[watched][i]
      /\ still = 2 => loc[Loc[watched]][Indices[watched][i]] = shown[watched][i]

GuiInv == Shapes /\ MenusKnown /\ EditKnown /\ FreezesOnlyFor

(***************************************************************************)
(* The exchange between the variables and the widgets.                     *)
(***************************************************************************)
(* What is known of a widget of the window.                                *)
LEMMA WidgetTypes ==
  ASSUME base_widgets \in Windows, NEW w \in W
  PROVE  /\ w \in DOMAIN Type /\ Loc[w] \in Locs /\ Readonly[w] \in BOOLEAN
         /\ Type[w] \in {"M3GuiToggle", "M3GuiModes", "M3GuiSliders", "M3GuiTree"}
         /\ Len(Indices[w]) \in Nat /\ Indices[w] \in Seq(Elems(Loc[w]))
         /\ \A i \in Places(w) : Indices[w][i] \in Elems(Loc[w]) /\ i \in Nat
         /\ \E n \in 1..Len(base_widgets) : base_widgets[n] = w
         /\ Len(base_widgets) \in Nat
<1>1. base_widgets \in Seq(DOMAIN Type)
  BY GuiAssumption
<1>2. \E n \in 1..Len(base_widgets) : base_widgets[n] = w
  BY <1>1, LenProperties DEF W, ToSet
<1>3. w \in DOMAIN Type /\ Len(base_widgets) \in Nat
  BY <1>1, <1>2, LenProperties
<1>4. /\ Loc[w] \in DOMAIN Size /\ Readonly[w] \in BOOLEAN
      /\ Type[w] \in {"M3GuiToggle", "M3GuiModes", "M3GuiSliders", "M3GuiTree"}
      /\ Indices[w] \in Seq(Elems(Loc[w]))
  BY <1>3, GuiAssumption DEF Elems
<1>5. Len(Indices[w]) \in Nat /\ \A i \in Places(w) : Indices[w][i] \in Elems(Loc[w]) /\ i \in Nat
  BY <1>4, LenProperties DEF Places
<1> QED
  BY <1>2, <1>3, <1>4, <1>5 DEF Locs

(* An element that only one widget sets has that widget's value.           *)
LEMMA SoleSetter ==
  ASSUME base_widgets \in Windows, NEW w \in W, ~Sharing(w), NEW e \in Sets(w), e \in Elems(Loc[w]),
         NEW variables
  PROVE  load_val_from_widgets(variables)[Loc[w]][e] = value[w][e]
<1> DEFINE setters == {i \in 1..Len(base_widgets) : Loc[base_widgets[i]] = Loc[w] /\ e \in Sets(base_widgets[i])}
<1>1. PICK n \in 1..Len(base_widgets) : base_widgets[n] = w
  BY WidgetTypes
<1>2. base_widgets \in Seq(DOMAIN Type) /\ IsInjective(base_widgets)
  BY GuiAssumption
<1>3. DOMAIN base_widgets = 1..Len(base_widgets) /\ n \in Nat
  BY <1>1, <1>2, LenProperties
<1>4. setters = {n}
  <2>1. ASSUME NEW i \in setters  PROVE i = n
    <3>1. base_widgets[i] = w
      BY DEF Sharing, W, ToSet
    <3> QED
      BY <3>1, <1>1, <1>2, <1>3 DEF IsInjective
  <2>2. n \in setters
    BY <1>1
  <2> QED
    BY <2>1, <2>2
<1>5. Max(setters) = n
  <2>1. Max({n}) \in {n}
    BY <1>3 DEF Max
  <2> QED
    BY <2>1, <1>4
<1>6. Loc[w] \in Locs
  BY WidgetTypes
<1>7. load_val_from_widgets(variables)[Loc[w]][e]
        = IF setters = {} THEN variables[Loc[w]][e] ELSE value[base_widgets[Max(setters)]][e]
  BY <1>6 DEF load_val_from_widgets
<1> QED
  BY <1>1, <1>4, <1>5, <1>7

(***************************************************************************)
(* A call of the timer.                                                    *)
(***************************************************************************)
\* The widgets that raise.
Raises == \E w \in W : M3GuiBadReadOnly(w) \/ NameError(w, loc'[Loc[w]])

(* What update does to a widget, unless one raises.                        *)
LEMMA UpdateEffect ==
  ASSUME Shapes, update
  PROVE  /\ \E variables : loc' = load_val_from_widgets(variables)
         /\ UNCHANGED <<base_widgets, watched, W, Locs>>
         /\ stopped = "no" /\ stopped' \in {"no", "widget"} /\ ~first_update'
         /\ still' \in 1..2 /\ (still' = 2 => still > 0)
         /\ DOMAIN loc' = Locs /\ \A l \in Locs : DOMAIN loc'[l] = Elems(l)
         /\ DOMAIN value' = W /\ \A w \in W : DOMAIN value'[w] = Elems(Loc[w])
         /\ DOMAIN shown' = W /\ \A w \in W : DOMAIN shown'[w] = Places(w)
         /\ stopped' = "widget" => Raises
         /\ stopped' = "no" =>
              \A w \in W : /\ shown'[w] = Loaded(w, loc'[Loc[w]])
                           /\ value'[w] = Retrieved(w, loc'[Loc[w]], shown'[w])
                           /\ Type[w] = "M3GuiModes" => data_last'[w] = shown'[w]
<1> DEFINE v(w) == load_val_to_widgets(loc', w)
           raises == {i \in 1..Len(base_widgets) : M3GuiBadReadOnly(base_widgets[i]) \/ NameError(base_widgets[i], v(base_widgets[i]))}
           done == {base_widgets[i] : i \in {j \in 1..Len(base_widgets) : \A r \in raises : j < r}}
           retrieved == IF first_update /\ raises # {} THEN {} ELSE done
<1>1. PICK called : Update(called)
  BY DEF update
<1>2. PICK variables : loc' = load_val_from_widgets(variables)
  BY <1>1 DEF Update
<1>3. /\ shown' = [w \in W |-> IF w \in done THEN Loaded(w, v(w)) ELSE shown[w]]
      /\ value' = [w \in W |-> IF w \in retrieved THEN Retrieved(w, v(w), shown'[w]) ELSE v(w)]
      /\ data_last' = [w \in W |-> IF w \in retrieved /\ Type[w] = "M3GuiModes"
                                     THEN shown'[w] ELSE data_last[w]]
      /\ stopped' = IF raises = {} THEN "no" ELSE "widget"
  BY <1>1 DEF Update
<1>4. /\ stopped = "no" /\ ~first_update' /\ UNCHANGED <<base_widgets, watched>>
      /\ still' = IF still < 2 THEN still + 1 ELSE 2
  BY <1>1 DEF Update
<1>5. W' = W /\ Locs' = Locs
  BY <1>4 DEF W, Locs
<1>6. DOMAIN loc' = Locs /\ \A l \in Locs : DOMAIN loc'[l] = Elems(l)
  BY <1>2 DEF load_val_from_widgets
<1>7. \A w \in W : v(w) = loc'[Loc[w]] /\ DOMAIN v(w) = Elems(Loc[w])
  BY <1>6 DEF load_val_to_widgets, Locs
<1>8. \A w \in W : DOMAIN Loaded(w, v(w)) = Places(w) /\ DOMAIN shown[w] = Places(w)
  BY DEF Loaded, Built, Shapes
<1>9. \A w \in W : DOMAIN Retrieved(w, v(w), shown'[w]) = Elems(Loc[w])
  BY <1>7 DEF Retrieved
<1>10. DOMAIN shown' = W /\ \A w \in W : DOMAIN shown'[w] = Places(w)
  <2> HIDE DEF done, v
  <2> QED
    BY <1>3, <1>8
<1>11. DOMAIN value' = W /\ \A w \in W : DOMAIN value'[w] = Elems(Loc[w])
  <2> HIDE DEF retrieved, v
  <2> QED
    BY <1>3, <1>7, <1>9
<1>12. stopped' = "widget" => Raises
  <2>1. SUFFICES ASSUME raises # {}  PROVE Raises
    BY <1>3
  <2>2. PICK i \in 1..Len(base_widgets) :
          M3GuiBadReadOnly(base_widgets[i]) \/ NameError(base_widgets[i], loc'[Loc[base_widgets[i]]])
    BY <2>1 DEF load_val_to_widgets
  <2>3. base_widgets[i] \in W
    BY GuiAssumption, LenProperties DEF W, ToSet, Shapes
  <2> QED
    BY <2>2, <2>3 DEF Raises
<1>13. ASSUME stopped' = "no", NEW w \in W
       PROVE  /\ shown'[w] = Loaded(w, loc'[Loc[w]])
              /\ value'[w] = Retrieved(w, loc'[Loc[w]], shown'[w])
              /\ Type[w] = "M3GuiModes" => data_last'[w] = shown'[w]
  <2>1. raises = {}
    BY <1>3, <1>13
  <2>2. w \in done /\ retrieved = done
    BY <2>1, WidgetTypes DEF Shapes
  <2> HIDE DEF done, retrieved, v
  <2> QED
    BY <2>2, <1>3, <1>7
<1>14. still' \in 1..2 /\ (still' = 2 => still > 0)
  BY <1>4 DEF Shapes
<1>15. stopped' \in {"no", "widget"}
  BY <1>3
<1> QED
  BY <1>2, <1>4, <1>5, <1>6, <1>10, <1>11, <1>12, <1>13, <1>14, <1>15

(* Where an element of a widget is, if the widget has it once.             *)
LEMMA PlaceOf ==
  ASSUME base_widgets \in Windows, NEW w \in W, NEW i \in Places(w), Once(w, i)
  PROVE  At(w, Indices[w][i]) = i /\ Indices[w][i] \in ToSet(Indices[w])
<1>1. Indices[w] \in Seq(Elems(Loc[w])) /\ DOMAIN Indices[w] = Places(w)
  BY WidgetTypes DEF Places
<1> QED
  BY <1>1 DEF At, Once, ToSet

(* A steady menu has each of its elements once, and sets them.             *)
LEMMA SteadyMenu ==
  ASSUME base_widgets \in Windows, NEW w \in W, Steady(w), NEW i \in Places(w)
  PROVE  Indices[w][i] = i /\ Once(w, i) /\ i \in Sets(w) /\ i \in Elems(Loc[w]) /\ ~Sharing(w)
<1>1. Indices[w][i] = i /\ Once(w, i) /\ ~Sharing(w)
  BY DEF Steady, Once
<1>2. i \in ToSet(Indices[w])
  BY <1>1, PlaceOf
<1>3. i \in Sets(w)
  BY <1>2 DEF Steady, Sets
<1> QED
  BY <1>1, <1>3, WidgetTypes

(* An element that a widget sets itself.                                   *)
LEMMA AloneElement ==
  ASSUME base_widgets \in Windows, NEW w \in W, NEW i \in Places(w), Alone(w, i)
  PROVE  /\ ~Readonly[w] /\ Indices[w][i] \in Elems(Loc[w]) /\ Once(w, i) /\ ~Sharing(w)
         /\ Indices[w][i] \in Sets(w)
<1>1. Sets(w) # {}
  BY DEF Alone
<1>2. ~Readonly[w]
  BY <1>1 DEF Sets
<1> QED
  BY <1>2, WidgetTypes DEF Alone

(* The window stays, and what depends on it alone.                         *)
LEMMA SameWindow ==
  ASSUME UNCHANGED <<base_widgets, watched>>
  PROVE  /\ W' = W /\ Locs' = Locs /\ watched' = watched
         /\ \A w : Sharing(w)' <=> Sharing(w)
         /\ \A w : Steady(w)' <=> Steady(w)
         /\ \A w, i : Alone(w, i)' <=> Alone(w, i)
<1>1. W' = W /\ Locs' = Locs
  BY DEF W, Locs
<1>2. \A w : Sharing(w)' <=> Sharing(w)
  BY <1>1 DEF Sharing
<1>3. \A w : Steady(w)' <=> Steady(w)
  BY <1>2 DEF Steady
<1>4. \A w, i : Alone(w, i)' <=> Alone(w, i)
  BY <1>2 DEF Alone
<1> QED
  BY <1>1, <1>2, <1>3, <1>4

(* A call of the timer keeps the invariants: what the user has set is      *)
(* exchanged, and only the widgets FreezesOnlyFor names can raise.         *)
LEMMA UpdateStep == GuiInv /\ update => GuiInv'
<1> SUFFICES ASSUME GuiInv, update  PROVE GuiInv'
  OBVIOUS
<1>0. Shapes /\ MenusKnown /\ EditKnown
  BY DEF GuiInv
<1>1. base_widgets \in Windows /\ watched \in W
  BY <1>0 DEF Shapes
<1>2. PICK variables : loc' = load_val_from_widgets(variables)
  BY <1>0, UpdateEffect
<1>3. /\ UNCHANGED <<base_widgets, watched>> /\ W' = W /\ Locs' = Locs
      /\ stopped = "no" /\ stopped' \in {"no", "widget"} /\ ~first_update'
      /\ still' \in 1..2 /\ (still' = 2 => still > 0)
  BY <1>0, UpdateEffect
<1>4. stopped' = "no" =>
        \A w \in W : /\ shown'[w] = Loaded(w, loc'[Loc[w]])
                     /\ value'[w] = Retrieved(w, loc'[Loc[w]], shown'[w])
                     /\ Type[w] = "M3GuiModes" => data_last'[w] = shown'[w]
  BY <1>0, UpdateEffect
<1>5. Shapes'
  <2>1. /\ DOMAIN loc' = Locs /\ \A l \in Locs : DOMAIN loc'[l] = Elems(l)
        /\ DOMAIN value' = W /\ \A w \in W : DOMAIN value'[w] = Elems(Loc[w])
        /\ DOMAIN shown' = W /\ \A w \in W : DOMAIN shown'[w] = Places(w)
    BY <1>0, UpdateEffect
  <2> QED
    BY <2>1, <1>1, <1>3 DEF Shapes
<1>6. \A w \in W : \A e : ~Sharing(w) /\ e \in Sets(w) /\ e \in Elems(Loc[w]) => loc'[Loc[w]][e] = value[w][e]
  BY <1>1, <1>2, SoleSetter
<1>7. MenusKnown'
  <2>1. ASSUME stopped' = "no", NEW w \in W, Steady(w), NEW i \in Places(w)
        PROVE  value'[w][i] = data_last'[w][i]
    <3>1. Indices[w][i] = i /\ Once(w, i) /\ i \in Elems(Loc[w])
      BY <2>1, <1>1, SteadyMenu
    <3>2. At(w, i) = i /\ i \in ToSet(Indices[w])
      BY <3>1, <1>1, PlaceOf
    <3>3. Type[w] = "M3GuiModes" /\ ~Readonly[w]
      BY <2>1 DEF Steady
    <3>4. value'[w][i] = shown'[w][i]
      BY <3>1, <3>2, <3>3, <2>1, <1>4 DEF Retrieved
    <3> QED
      BY <3>3, <3>4, <2>1, <1>4
  <2> QED
    BY <2>1, <1>3, SameWindow DEF MenusKnown
<1>8. EditKnown'
  <2> DEFINE u == watched
  <2>1. ASSUME stopped' = "no", NEW i \in Places(watched), Alone(watched, i)
        PROVE  /\ value'[watched][Indices[watched][i]] = shown'[watched][i]
               /\ still' = 2 => loc'[Loc[watched]][Indices[watched][i]] = shown'[watched][i]
    <3> DEFINE e == Indices[u][i]
    <3>1. ~Readonly[u] /\ e \in Elems(Loc[u]) /\ Once(u, i) /\ ~Sharing(u) /\ e \in Sets(u)
      BY <2>1, <1>1, AloneElement
    <3>2. loc'[Loc[u]][e] = value[u][e]
      BY <3>1, <1>1, <1>6
    <3>3. /\ shown'[u] = Loaded(u, loc'[Loc[u]])
          /\ value'[u] = Retrieved(u, loc'[Loc[u]], shown'[u])
      BY <2>1, <1>1, <1>4
    <3>4. ~first_update => shown'[u] = shown[u]
      BY <3>1, <3>3 DEF Loaded
    <3>5. still > 0 => ~first_update /\ value[u][e] = shown[u][i]
      <4>1. still > 0 => ~first_update
        BY <1>0 DEF Shapes
      <4> QED
        BY <4>1, <2>1, <1>0, <1>3 DEF EditKnown
    <3>6. CASE Type[u] = "M3GuiTree"
      <4>1. value'[u][e] = loc'[Loc[u]][e]
        BY <3>3, <3>6 DEF Retrieved
      <4>2. first_update => shown'[u][i] = loc'[Loc[u]][e]
        BY <3>3, <3>6, <2>1 DEF Loaded, Built
      <4>3. ~first_update => value[u][e] = shown[u][i]
        BY <3>6, <2>1, <1>0, <1>3 DEF EditKnown
      <4> QED
        BY <4>1, <4>2, <4>3, <3>2, <3>4, <3>5, <1>3
    <3>7. CASE Type[u] # "M3GuiTree"
      <4>1. At(u, e) = i /\ e \in ToSet(Indices[u])
        BY <3>1, <2>1, <1>1, PlaceOf
      <4>2. value'[u][e] = shown'[u][i]
        BY <4>1, <3>1, <3>3, <3>7 DEF Retrieved
      <4> QED
        BY <4>2, <3>2, <3>4, <3>5, <1>3
    <3> QED
      BY <3>6, <3>7
  <2> QED
    BY <2>1, <1>3, SameWindow DEF EditKnown
<1>9. FreezesOnlyFor'
  <2>1. SUFFICES ASSUME stopped' = "widget"
                 PROVE  \E w \in W : /\ Type[w] \in {"M3GuiToggle", "M3GuiModes"}
                                     /\ \/ Readonly[w] \/ Sharing(w)
                                        \/ \E i \in Places(w) : Indices[w][i] # i
    BY <1>3, SameWindow DEF FreezesOnlyFor
  <2>2. PICK w \in W : M3GuiBadReadOnly(w) \/ NameError(w, loc'[Loc[w]])
    BY <2>1, <1>0, UpdateEffect DEF Raises
  <2>3. CASE M3GuiBadReadOnly(w)
    BY <2>3 DEF M3GuiBadReadOnly
  <2>4. CASE NameError(w, loc'[Loc[w]])
    <3>1. SUFFICES ASSUME ~Readonly[w], ~Sharing(w), \A i \in Places(w) : Indices[w][i] = i  PROVE FALSE
      BY <2>4 DEF NameError
    <3>2. Steady(w)
      BY <3>1, <2>4 DEF Steady, NameError
    <3>3. PICK i \in Places(w) : LastValue(w, loc'[Loc[w]])[i] # loc'[Loc[w]][Indices[w][i]]
      BY <2>4 DEF NameError
    <3>4. Indices[w][i] = i /\ i \in Sets(w) /\ i \in Elems(Loc[w])
      BY <3>2, <1>1, SteadyMenu
    <3>5. ~first_update => data_last[w][i] = loc'[Loc[w]][i]
      BY <3>1, <3>2, <3>4, <1>0, <1>3, <1>6 DEF MenusKnown
    <3> QED
      BY <3>3, <3>4, <3>5 DEF LastValue
  <2> QED
    BY <2>2, <2>3, <2>4
<1> QED
  BY <1>5, <1>7, <1>8, <1>9 DEF GuiInv

(***************************************************************************)
(* The program and the user.                                               *)
(***************************************************************************)
(* A callback that raises ends the exchange, and nothing else.             *)
LEMMA CallbackStep == GuiInv /\ CallbackRaises => GuiInv'
<1> SUFFICES ASSUME GuiInv, CallbackRaises  PROVE GuiInv'
  OBVIOUS
<1>1. stopped' = "program" /\ UNCHANGED <<base_widgets, loc, value, shown, first_update, watched, still>>
  BY DEF CallbackRaises
<1>2. Shapes'
  BY <1>1, SameWindow DEF GuiInv, Shapes
<1> QED
  BY <1>1, <1>2 DEF GuiInv, MenusKnown, EditKnown, FreezesOnlyFor

(* The user moves a widget: what the others show and have stays.           *)
LEMMA MoveStep ==
  ASSUME GuiInv, NEW w \in W, NEW i \in Places(w), NEW x \in Values, Move(w, i, x)
  PROVE  GuiInv'
<1>0. Shapes /\ MenusKnown /\ EditKnown
  BY DEF GuiInv
<1>1. /\ ~first_update /\ stopped = "no" /\ Type[w] # "M3GuiTree"
      /\ shown' = [shown EXCEPT ![w][i] = x] /\ still' = IF w = watched THEN 0 ELSE still
      /\ UNCHANGED <<base_widgets, loc, value, data_last, first_update, stopped, watched>>
  BY DEF Move
<1>2. W' = W /\ Locs' = Locs
  BY <1>1, SameWindow
<1>3. /\ DOMAIN shown' = W /\ \A u \in W : DOMAIN shown'[u] = Places(u)
      /\ \A u \in W : u # w => shown'[u] = shown[u]
  BY <1>0, <1>1 DEF Shapes
<1>4. Shapes'
  BY <1>0, <1>1, <1>2, <1>3 DEF Shapes
<1>5. MenusKnown'
  BY <1>0, <1>1, SameWindow DEF MenusKnown
<1>6. EditKnown'
  <2>1. CASE w = watched
    BY <2>1, <1>1 DEF EditKnown
  <2>2. CASE w # watched
    <3>1. shown'[watched] = shown[watched] /\ still' = still
      BY <2>2, <1>0, <1>1, <1>3 DEF Shapes
    <3> QED
      BY <3>1, <1>0, <1>1, SameWindow DEF EditKnown
  <2> QED
    BY <2>1, <2>2
<1>7. FreezesOnlyFor'
  BY <1>1 DEF FreezesOnlyFor
<1> QED
  BY <1>4, <1>5, <1>6, <1>7 DEF GuiInv

(* The user edits a tree: it sets all of its dictionary, so that no other  *)
(* widget that writes there is alone.                                      *)
LEMMA EditStep ==
  ASSUME GuiInv, NEW w \in W, NEW i \in Places(w), NEW x \in Values, edited_cb(w, i, x)
  PROVE  GuiInv'
<1> DEFINE e == Indices[w][i]
<1>0. Shapes /\ MenusKnown /\ EditKnown /\ base_widgets \in Windows /\ watched \in W
  BY DEF GuiInv, Shapes
<1>1. /\ ~first_update /\ stopped = "no" /\ Type[w] = "M3GuiTree" /\ ~Readonly[w]
      /\ value' = [u \in W |-> IF Type[u] = "M3GuiTree" /\ Loc[u] = Loc[w]
                                 THEN [value[u] EXCEPT ![e] = x] ELSE value[u]]
      /\ loc' = [loc EXCEPT ![Loc[w]][e] = x]
      /\ shown' = [shown EXCEPT ![w][i] = x] /\ still' = IF w = watched THEN 0 ELSE still
      /\ UNCHANGED <<base_widgets, data_last, first_update, stopped, watched>>
  BY DEF edited_cb
<1>2. W' = W /\ Locs' = Locs
  BY <1>1, SameWindow
<1>3. Loc[w] \in Locs /\ e \in Elems(Loc[w])
  BY <1>0, WidgetTypes
<1>4. Shapes'
  <2>1. /\ DOMAIN shown' = W /\ \A u \in W : DOMAIN shown'[u] = Places(u)
        /\ DOMAIN value' = W /\ \A u \in W : DOMAIN value'[u] = Elems(Loc[u])
        /\ DOMAIN loc' = Locs /\ \A l \in Locs : DOMAIN loc'[l] = Elems(l)
    BY <1>0, <1>1, <1>3 DEF Shapes
  <2> QED
    BY <2>1, <1>0, <1>1, <1>2 DEF Shapes
<1>5. MenusKnown'
  <2>1. \A u \in W : Type[u] = "M3GuiModes" => value'[u] = value[u]
    BY <1>1
  <2> QED
    BY <2>1, <1>0, <1>1, <1>2, SameWindow DEF MenusKnown, Steady
<1>6. EditKnown'
  <2>1. SUFFICES ASSUME NEW j \in Places(watched), Alone(watched, j)
        PROVE  /\ still' > 0 \/ (Type[watched] = "M3GuiTree" /\ ~first_update) =>
                    value'[watched][Indices[watched][j]] = shown'[watched][j]
               /\ still' = 2 => loc'[Loc[watched]][Indices[watched][j]] = shown'[watched][j]
    BY <1>1, SameWindow DEF EditKnown
  <2>2. /\ Indices[watched][j] \in Elems(Loc[watched]) /\ Indices[watched][j] \in Sets(watched)
        /\ Once(watched, j) /\ ~Sharing(watched)
    BY <2>1, <1>0, AloneElement
  <2>3. /\ still > 0 \/ Type[watched] = "M3GuiTree" =>
             value[watched][Indices[watched][j]] = shown[watched][j]
        /\ still = 2 => loc[Loc[watched]][Indices[watched][j]] = shown[watched][j]
    BY <2>1, <1>0, <1>1 DEF EditKnown
  <2>4. CASE w = watched
    <3>1. value'[watched] = [value[watched] EXCEPT ![e] = x] /\ shown'[watched] = [shown[watched] EXCEPT ![i] = x]
      BY <2>4, <1>0, <1>1 DEF Shapes
    <3>2. j # i => Indices[watched][j] # e
      BY <2>2, <2>4 DEF Once
    <3>3. /\ DOMAIN value[watched] = Elems(Loc[watched]) /\ DOMAIN shown[watched] = Places(watched)
      BY <1>0 DEF Shapes
    <3> QED
      BY <3>1, <3>2, <3>3, <2>1, <2>2, <2>3, <2>4, <1>1
  <2>5. CASE w # watched
    <3>1. Loc[watched] # Loc[w]
      <4>1. Sets(w) = Elems(Loc[w])
        BY <1>1 DEF Sets
      <4> QED
        BY <4>1, <2>2, <2>5 DEF Sharing
    <3>2. /\ value'[watched] = value[watched] /\ shown'[watched] = shown[watched] /\ still' = still
          /\ loc'[Loc[watched]] = loc[Loc[watched]]
      <4>1. Loc[watched] \in Locs
        BY <1>0 DEF Locs
      <4> QED
        BY <4>1, <3>1, <2>5, <1>0, <1>1 DEF Shapes
    <3> QED
      BY <3>2, <2>3, <1>1
  <2> QED
    BY <2>4, <2>5
<1>7. FreezesOnlyFor'
  BY <1>1 DEF FreezesOnlyFor
<1> QED
  BY <1>4, <1>5, <1>6, <1>7 DEF GuiInv

(***************************************************************************)
(* The GUI.                                                                *)
(***************************************************************************)
(* It starts with every widget showing what its variable has.              *)
LEMMA GuiStart == Init => GuiInv
<1> SUFFICES ASSUME Init  PROVE GuiInv
  OBVIOUS
<1>1. /\ base_widgets \in Windows /\ watched \in W /\ first_update /\ stopped = "no" /\ still = 0
      /\ DOMAIN loc = Locs /\ \A l \in Locs : loc[l] \in [Elems(l) -> Written(l)]
      /\ value = [w \in W |-> loc[Loc[w]]]
      /\ shown = [w \in W |-> [i \in Places(w) |-> value[w][i]]]
  BY DEF Init
<1>2. Shapes
  BY <1>1 DEF Shapes, Locs
<1> QED
  BY <1>1, <1>2 DEF GuiInv, MenusKnown, EditKnown, FreezesOnlyFor

(* The invariants hold for every window, whatever the program writes and   *)
(* the user does.                                                          *)
THEOREM GuiInvariant == Spec => []GuiInv
<1>1. GuiInv /\ [Next]_vars => GuiInv'
  <2> SUFFICES ASSUME GuiInv, [Next]_vars  PROVE GuiInv'
    OBVIOUS
  <2>1. CASE User
    BY <2>1, MoveStep, EditStep DEF User
  <2>2. CASE UNCHANGED vars
    <3>1. UNCHANGED <<base_widgets, loc, value, shown, data_last, first_update, stopped, watched, still>>
      BY <2>2 DEF vars
    <3> QED
      BY <3>1, SameWindow DEF GuiInv, Shapes, MenusKnown, EditKnown, FreezesOnlyFor
  <2> QED
    BY <2>1, <2>2, UpdateStep, CallbackStep DEF Next
<1> QED
  BY <1>1, GuiStart, PTL DEF Spec

(* The timer stops for no other widget than a toggle or a menu that is     *)
(* read-only, shares an element or is not for the first elements.          *)
THEOREM StopsOnlyFor == Spec => []FreezesOnlyFor
<1>1. GuiInv => FreezesOnlyFor
  BY DEF GuiInv
<1> QED
  BY <1>1, GuiInvariant, PTL

(* What the user sets is in the program's variable after two calls of the  *)
(* timer, and stays there.                                                 *)
THEOREM EditsArrive == Spec => []EditArrives
<1>1. GuiInv => EditArrives
  BY DEF GuiInv, EditKnown, Alone, EditArrives
<1> QED
  BY <1>1, GuiInvariant, PTL
=============================================================================
