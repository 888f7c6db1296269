----------------------------- MODULE MCRtSystem -----------------------------
(* Small instances of RtSystem for TLC: one or two slaves, the component   *)
(* r1 that drives them and, above it, the component r2 that drives r1.     *)
EXTENDS RtSystem, TLC

CONSTANTS e1, e2, r1, r2

MCDrives == [r \in RtComps |-> IF r = r1 THEN EcComps ELSE {r1}]
MCPriority == [c \in Comps |-> IF c = r2 THEN 1 ELSE 0]
MCPosition == [c \in Comps |-> IF c = e2 THEN 1 ELSE 0]
Symmetry == Permutations(Values) \* values are only compared
MCSidx == [e \in Slaves |-> IF e = e2 THEN 1 ELSE 0]
=============================================================================
