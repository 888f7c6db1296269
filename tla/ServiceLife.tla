---------------------------- MODULE ServiceLife ----------------------------
(***************************************************************************)
(* What M3RtService promises of the real-time system it owns, without its  *)
(* clients, counts and threads: a system is created, runs, comes to rest   *)
(* and only then is deleted, or is given up by a service that is ending;   *)
(* once the service is ending no other system is created, and an ending    *)
(* service never comes back.                                               *)
(***************************************************************************)

VARIABLES system,   \* "none", "created", "running" or "resting"
          ending    \* no system is created any more

vars == <<system, ending>>

Init == system = "none" /\ ending = FALSE

Create == ~ending /\ system = "none" /\ system' = "created" /\ UNCHANGED ending

Run == system = "created" /\ system' = "running" /\ UNCHANGED ending

Fail == system = "created" /\ system' = "none" /\ UNCHANGED ending

Rest == system = "running" /\ system' = "resting" /\ UNCHANGED ending

Delete == system = "resting" /\ system' = "none" /\ UNCHANGED ending

GiveUp == ending /\ system = "running" /\ system' = "none" /\ UNCHANGED ending

End == ~ending /\ ending' = TRUE /\ UNCHANGED system

Next == Create \/ Run \/ Fail \/ Rest \/ Delete \/ GiveUp \/ End

Spec == Init /\ [][Next]_vars
=============================================================================
