---------------------------- MODULE M3Component ----------------------------
(***************************************************************************)
(* The components of the real-time system: the state machine every         *)
(* component carries (base/component.h) and one step of each kind of       *)
(* component (base/component_ec.cpp, base/component_shm.cpp).              *)
(*                                                                         *)
(* A component's status message is abstracted to the parity of the cycle   *)
(* that produced it, a command message to one value, and a slave's command *)
(* PDO (`shm->cmd') to the value it encodes, Zero being the all-zero PDO   *)
(* that is safe by convention on M3 devices.                               *)
(***************************************************************************)
EXTENDS Naturals, FiniteSets

CONSTANTS
  EcComps,      \* components with an EtherCAT slave of their own (m3ec_list)
  VirtualComps, \* the EC components configured with virtual_mode
  RtComps,      \* the other components (m3rt_list)
  Drives,       \* Drives[r]: the components whose command r computes
  Priority,     \* GetPriority() of each component
  Position,     \* its place in m3ec_list or m3rt_list
  Faulty,       \* the components that may raise an error of their own
  Values,       \* the command values a client can send
  Zero          \* the command nobody has set, and the all-zero PDO

Comps == EcComps \cup RtComps
Slaves == EcComps \ VirtualComps
States == {"INIT", "ERR", "SAFEOP", "OP"}
Commands == Values \cup {Zero}
MaxPriority == 8

ASSUME ComponentAssumption ==
  /\ EcComps \cap RtComps = {}
  /\ VirtualComps \subseteq EcComps
  /\ Drives \in [RtComps -> SUBSET Comps]
  /\ Priority \in [Comps -> 0..MaxPriority] /\ Position \in [Comps -> Nat]
  /\ Faulty \subseteq Comps
  /\ Zero \notin Values

VARIABLES
  state,    \* state[c]: state() of the component's base status
  status,   \* status[c]: parity of the cycle that last produced its status
  command,  \* command[c]: its command message
  ecOk,     \* ecOk[e]: slave e is online, operational, active and in AL state 8
  pdo       \* pdo[e]: shm->cmd, the command the kernel module reads

compVars == <<state, status, command, ecOk, pdo>>

ComponentTypeOK ==
  /\ state \in [Comps -> States]
  /\ status \in [Comps -> {0, 1}]
  /\ command \in [Comps -> Commands]
  /\ ecOk \in [Slaves -> BOOLEAN]
  /\ pdo \in [Slaves -> Commands]

-----------------------------------------------------------------------------
(* The setters map the state a component is in to the state it gets.  The  *)
(* real-time thread is the only writer of ERR, so its own check of ERR and *)
(* the write that follows are one step; see RtSystem for the RPC thread.   *)

\* Mutant of SetStateOp: the check of ERR is lost.
SetStateOpUnguarded(s) == IF s = "INIT" THEN s ELSE "OP"

SetStateOp(s) == IF s = "ERR" THEN s ELSE "OP"
SetStateSafeOp(s) == IF s = "ERR" THEN s ELSE "SAFEOP"

(* The visiting orders of Step: ascending priority for status, descending  *)
(* priority for commands, and list order within one priority.              *)
FirstUp(c, S) ==
  \A d \in S : \/ Priority[c] < Priority[d]
               \/ Priority[c] = Priority[d] /\ Position[c] <= Position[d]

\* Mutant of FirstDown: the status order is used for commands too.
FirstDownAscending(c, S) == FirstUp(c, S)

FirstDown(c, S) ==
  \A d \in S : \/ Priority[c] > Priority[d]
               \/ Priority[c] = Priority[d] /\ Position[c] <= Position[d]

(* What the code of a component may do to its own state in any of its      *)
(* steps: nothing, or SetStateError.                                       *)
Raised(c, s) == IF c \in Faulty THEN {s, "ERR"} ELSE {s}

-----------------------------------------------------------------------------
(* M3ComponentEc::StepStatus.  SetStatusFromPdo is the component's own     *)
(* code and may raise an error; the last test is the code's.               *)
EcStatusState(c, s) ==
  IF ~ecOk[c] /\ s = "ERR" THEN "ERR" ELSE SetStateOp(s)

(* A virtual component touches neither its state nor a PDO.                *)
EcStepStatus(c, cycle) ==
  /\ \E s \in Raised(c, state[c]) :
       state' = [state EXCEPT ![c] = IF c \in VirtualComps
                                     THEN s ELSE EcStatusState(c, s)]
  /\ status' = [status EXCEPT ![c] = cycle]
  /\ UNCHANGED <<command, ecOk, pdo>>

\* Mutant of EcStepCommand: out of OP the PDO is left as it was.
EcStepCommandNoReset(c) ==
  /\ pdo' = IF c \notin VirtualComps /\ state[c] = "OP"
            THEN [pdo EXCEPT ![c] = command[c]] ELSE pdo
  /\ \E s \in Raised(c, state[c]) : state' = [state EXCEPT ![c] = s]
  /\ UNCHANGED <<status, command, ecOk>>

(* M3ComponentEc::StepCommand.  The state is tested first: an error that   *)
(* SetPdoFromCommand raises is seen by the next cycle only.                *)
EcStepCommand(c) ==
  /\ pdo' = IF c \in VirtualComps THEN pdo
            ELSE [pdo EXCEPT ![c] = IF state[c] = "OP" THEN command[c] ELSE Zero]
  /\ \E s \in Raised(c, state[c]) : state' = [state EXCEPT ![c] = s]
  /\ UNCHANGED <<status, command, ecOk>>

(* A component that is not on the bus: M3CompShm::StepStatus leaves the    *)
(* state alone once its shared memory is there.                            *)
RtStepStatus(c, cycle) ==
  /\ \E s \in Raised(c, state[c]) : state' = [state EXCEPT ![c] = s]
  /\ status' = [status EXCEPT ![c] = cycle]
  /\ UNCHANGED <<command, ecOk, pdo>>

(* StepCommand of a component A that computes B.x for the components B it  *)
(* drives.  Out of OP it changes no command ("only Status data").          *)
RtStepCommand(c) ==
  /\ command' = [d \in Comps |-> IF state[c] = "OP" /\ d \in Drives[c]
                                 THEN command[c] ELSE command[d]]
  /\ \E s \in Raised(c, state[c]) : state' = [state EXCEPT ![c] = s]
  /\ UNCHANGED <<status, ecOk, pdo>>

(* Component Shutdown, for all of them: the slaves get the zero command.   *)
ShutdownComponents ==
  /\ pdo' = [e \in Slaves |-> Zero]
  /\ UNCHANGED <<state, status, command, ecOk>>
=============================================================================
