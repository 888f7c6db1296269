-------------------------- MODULE RtSystem_proofs ---------------------------
(***************************************************************************)
(* Theorems about RtSystem for any components, data services, priorities,  *)
(* domains and bounds.                                                     *)
(***************************************************************************)
EXTENDS RtSystem, FiniteSetTheorems, TLAPS

USE DEF Comps, Slaves, States, Commands

-----------------------------------------------------------------------------
(* Type correctness, action by action.                                     *)

(* The setters stay within the four states.                                *)
LEMMA SettersType ==
  ASSUME NEW s \in States
  PROVE  SetStateOp(s) \in States /\ SetStateSafeOp(s) \in States
BY DEF SetStateOp, SetStateSafeOp

(* What a component's code may make of its state is a state.               *)
LEMMA RaisedType ==
  ASSUME NEW c, NEW s \in States
  PROVE  Raised(c, s) \subseteq States
BY DEF Raised

(* One component's step keeps the components well typed.                   *)
LEMMA EcStepStatusType ==
  ASSUME ComponentTypeOK, NEW c \in EcComps, NEW n \in {0, 1},
         EcStepStatus(c, n)
  PROVE  ComponentTypeOK'
<1>1. PICK s \in Raised(c, state[c]) :
        state' = [state EXCEPT ![c] = IF c \in VirtualComps
                                      THEN s ELSE EcStatusState(c, s)]
  BY DEF EcStepStatus
<1>2. s \in States
  BY RaisedType DEF ComponentTypeOK
<1>3. EcStatusState(c, s) \in States
  BY <1>2, SettersType DEF EcStatusState
<1> QED
  BY <1>1, <1>2, <1>3 DEF ComponentTypeOK, EcStepStatus

(* ... and so does a component that is not on the bus ...                  *)
LEMMA RtStepStatusType ==
  ASSUME ComponentTypeOK, NEW c \in RtComps, NEW n \in {0, 1},
         RtStepStatus(c, n)
  PROVE  ComponentTypeOK'
BY RaisedType DEF ComponentTypeOK, RtStepStatus

(* ... in the command pass, too ...                                        *)
LEMMA RtStepCommandType ==
  ASSUME ComponentTypeOK, NEW c \in RtComps, RtStepCommand(c)
  PROVE  ComponentTypeOK'
BY RaisedType DEF ComponentTypeOK, RtStepCommand

(* ... where a slave's component writes its PDO.                           *)
LEMMA EcStepCommandType ==
  ASSUME ComponentTypeOK, NEW c \in EcComps, EcStepCommand(c)
  PROVE  ComponentTypeOK'
BY RaisedType DEF ComponentTypeOK, EcStepCommand

(* During a pass `todo' holds components of the pass only.                 *)
TodoOK ==
  /\ pc = "ecStatus" \/ pc = "ecCommand" => todo \subseteq EcComps
  /\ pc = "rtStatus" \/ pc = "rtCommand" => todo \subseteq RtComps

(* The real-time thread, action by action.                                 *)
LEMMA RtThreadType ==
  ASSUME RtTypeOK, TodoOK, RtThread
  PROVE  RtTypeOK' /\ TodoOK'
<1> USE RtStepAssumption DEF RtTypeOK, TodoOK, PCs, InStep, semVars, compVars
<1>1. CASE ThreadStart BY <1>1 DEF ThreadStart, ComponentTypeOK
<1>2. CASE DryTop
  <2>1. CASE pc' = "end" /\ UNCHANGED <<dry_run, cycle>>
    BY <1>2, <2>1 DEF DryTop, ComponentTypeOK
  <2>2. CASE CallStep(TRUE)
    BY <1>2, <2>2 DEF DryTop, CallStep, ComponentTypeOK
  <2> QED BY <1>2, <2>1, <2>2 DEF DryTop
<1>3. CASE DryReturn
  <2>1. SetComponentStateOpAll \in [Comps -> States]
    BY SettersType DEF SetComponentStateOpAll, ComponentTypeOK
  <2> QED BY <1>3, <2>1 DEF DryReturn, ComponentTypeOK
<1>4. CASE EnterLoop BY <1>4 DEF EnterLoop, ComponentTypeOK
<1>5. CASE LoopTop
  <2>1. UNCHANGED <<compVars, semVars, todo, ret_step, ntrialsmin,
                    safeop_only, over_step_cnt, safeop_required,
                    sys_thread_end>>
    BY <1>5 DEF LoopTop
  <2>2. CASE /\ pc' = "end" /\ sys_thread_active' = FALSE
             /\ UNCHANGED <<dry_run, cycle>>
    BY <2>1, <2>2 DEF ComponentTypeOK
  <2>3. CASE CallStep(FALSE) /\ UNCHANGED sys_thread_active
    <3>1. pc' = "ext" /\ dry_run' = FALSE /\ cycle' = 1 - cycle
      BY <2>3, Zenon DEF CallStep
    <3>2. sys_thread_active' = sys_thread_active
      BY <2>3
    <3>3. dry_run' \in BOOLEAN /\ sys_thread_active' \in BOOLEAN
      BY <3>1, <3>2
    <3>4. cycle' \in {0, 1} /\ pc' \in PCs
      BY <3>1
    <3> QED BY <2>1, <3>1, <3>3, <3>4 DEF ComponentTypeOK
  <2> QED BY <1>5, <2>2, <2>3 DEF LoopTop
<1>6. CASE WaitExt BY <1>6 DEF WaitExt, ComponentTypeOK
<1>7. CASE WaitSync BY <1>7 DEF WaitSync, ComponentTypeOK
<1>8. CASE WaitShm BY <1>8 DEF WaitShm, ComponentTypeOK
<1>9. CASE Mark BY <1>9, SettersType DEF Mark, ComponentTypeOK
<1>10. CASE EcStatusPass
  BY <1>10, EcStepStatusType
  DEF EcStatusPass, NextPass, StepUnchanged, ComponentTypeOK
<1>11. CASE RtStatusPass
  BY <1>11, RtStepStatusType
  DEF RtStatusPass, NextPass, StepUnchanged, ComponentTypeOK
<1>12. CASE RtCommandPass
  BY <1>12, RtStepCommandType
  DEF RtCommandPass, NextPass, StepUnchanged, ComponentTypeOK
<1>13. CASE EcCommandPass
  BY <1>13, EcStepCommandType
  DEF EcCommandPass, NextPass, StepUnchanged, ComponentTypeOK
<1>14. CASE Check
  <2>1. CheckedStates \in [Comps -> States]
    BY SettersType DEF CheckedStates, ComponentTypeOK
  <2>2. (safeop_required \/ AnyError) \in BOOLEAN
    OBVIOUS
  <2> QED BY <1>14, <2>1, <2>2 DEF Check, ComponentTypeOK
<1>15. CASE Release BY <1>15 DEF Release, ComponentTypeOK
<1>16. CASE LoopReturn
  <2>1. over_step_cnt' \in Nat /\ safeop_only' \in BOOLEAN
    <3>1. \/ Overrun
          \/ InTime
          \/ UNCHANGED <<over_step_cnt, safeop_only>>
      BY <1>16, Zenon DEF LoopReturn
    <3>2. CASE Overrun
      <4>1. over_step_cnt' \in Nat
        BY <3>2 DEF Overrun
      <4>2. safeop_only' = TRUE \/ safeop_only' = safeop_only
        BY <3>2, Zenon DEF Overrun
      <4> QED BY <4>1, <4>2
    <3>3. CASE InTime BY <3>3 DEF InTime
    <3> QED BY <3>1, <3>2, <3>3
  <2>2. pc' \in {"loop", "end"}
    BY <1>16 DEF LoopReturn
  <2>3. sys_thread_active' \in BOOLEAN
    BY <1>16 DEF LoopReturn
  <2>4. UNCHANGED <<compVars, semVars, todo, cycle, dry_run, ret_step,
                    ntrialsmin, safeop_required, sys_thread_end>>
    BY <1>16 DEF LoopReturn
  <2> QED BY <2>1, <2>2, <2>3, <2>4 DEF ComponentTypeOK
<1> QED BY <1>1, <1>2, <1>3, <1>4, <1>5, <1>6, <1>7, <1>8, <1>9, <1>10, <1>11,
           <1>12, <1>13, <1>14, <1>15, <1>16 DEF RtThread

(* The kernel module's task, which moves no pass on.                       *)
LEMMA KernelType ==
  ASSUME TypeOK, Kernel
  PROVE  TypeOK' /\ pc' = pc /\ todo' = todo
<1> USE SystemAssumption, RtStepAssumption
    DEF TypeOK, RtTypeOK, ComponentTypeOK, rtVars, compVars, threadVars,
        semVars, historyVars, dataVars, rpcVars
<1>1. CASE KernelWait BY <1>1 DEF KernelWait
<1>2. CASE \E e \in Slaves : KernelExchange(e) BY <1>2 DEF KernelExchange
<1>3. CASE KernelSignal
  <2>1. domain_idx' \in 0..(NumDomain - 1)
    BY <1>3 DEF KernelSignal, NumDomain
  <2>2. sync_sem' \in Nat
    BY <1>3 DEF KernelSignal
  <2> QED BY <1>3, <2>1, <2>2 DEF KernelSignal
<1>4. CASE CheckSlaveState BY <1>4 DEF CheckSlaveState
<1>5. CASE RunCleanup BY <1>5 DEF RunCleanup
<1> QED BY <1>1, <1>2, <1>3, <1>4, <1>5 DEF Kernel, KernelLoop

(* The data services.                                                      *)
LEMMA DataType ==
  ASSUME TypeOK, Data
  PROVE  TypeOK' /\ pc' = pc /\ todo' = todo
<1> USE SystemAssumption
    DEF TypeOK, RtTypeOK, ComponentTypeOK, rtVars, compVars, threadVars,
        semVars, kernelVars, historyVars, rpcVars
<1>1. PICK d \in Services : Receive(d) \/ DataStep(d) \/ HangUp(d)
  BY DEF Data
<1>2. CASE Receive(d) BY <1>2 DEF Receive
<1>3. CASE LockExt(d) BY <1>3 DEF LockExt
<1>4. CASE ParseCommandFromExt(d) BY <1>4 DEF ParseCommandFromExt
<1>5. CASE SerializeStatusToExt(d) BY <1>5 DEF SerializeStatusToExt
<1>6. CASE Write(d) BY <1>6 DEF Write
<1>7. CASE HangUp(d) BY <1>7 DEF HangUp
<1> QED BY <1>1, <1>2, <1>3, <1>4, <1>5, <1>6, <1>7 DEF DataStep

(* The state calls of the RPC thread.                                      *)
LEMMA RpcType ==
  ASSUME TypeOK, Rpc
  PROVE  TypeOK' /\ pc' = pc /\ todo' = todo
<1> USE SystemAssumption
    DEF TypeOK, RtTypeOK, ComponentTypeOK, rtVars, compVars, threadVars,
        semVars, kernelVars, historyVars, dataVars
<1>1. CASE \E op \in RpcOps : RpcCall(op) BY <1>1 DEF RpcCall
<1>2. CASE \E c \in Comps : RpcCheck(c) BY <1>2 DEF RpcCheck
<1>3. CASE \E c \in Comps : RpcWrite(c) BY <1>3 DEF RpcWrite, RpcTarget
<1>4. CASE RpcReturn BY <1>4 DEF RpcReturn
<1> QED BY <1>1, <1>2, <1>3, <1>4 DEF Rpc, RpcStep

(* The request to stop, and the components' shutdown.                      *)
LEMMA ServiceType ==
  ASSUME TypeOK, Service
  PROVE  TypeOK' /\ pc' = pc /\ todo' = todo
<1> USE DEF TypeOK, RtTypeOK, ComponentTypeOK, compVars, threadVars, semVars,
            kernelVars, historyVars, dataVars, rpcVars
<1>1. CASE RequestStop BY <1>1 DEF RequestStop
<1>2. CASE Shutdown BY <1>2 DEF Shutdown, ShutdownComponents
<1> QED BY <1>1, <1>2 DEF Service

(* The real-time thread with the record of who computed a command.         *)
LEMMA RtStepOfType ==
  ASSUME TypeOK, TodoOK, RtStepOf
  PROVE  TypeOK' /\ TodoOK'
<1>1. RtTypeOK' /\ TodoOK'
  BY RtThreadType DEF RtStepOf, TypeOK
<1>2. drove' \subseteq RtComps
  <2>1. CASE pc = "rtCommand"
    BY <2>1 DEF RtStepOf, TypeOK, TodoOK
  <2>2. CASE pc # "rtCommand"
    BY <2>2 DEF RtStepOf, TypeOK
  <2> QED BY <2>1, <2>2
<1> QED
  BY <1>1, <1>2 DEF RtStepOf, TypeOK, kernelVars, dataVars, rpcVars

(* Every variable keeps its type, and a pass of Step only ever meets       *)
(* components of its own kind.                                             *)
THEOREM TypeCorrect == Spec => [](TypeOK /\ TodoOK)
<1>1. Init => TypeOK /\ TodoOK
  <2> SUFFICES ASSUME Init PROVE TypeOK /\ TodoOK
    OBVIOUS
  <2> USE SystemAssumption, RtStepAssumption DEF Init, RtInit, StartupComponents
  <2>1. ComponentTypeOK
    BY DEF ComponentTypeOK
  <2>2. safeop_required \in BOOLEAN
    BY DEF AnyError
  <2>3. RtTypeOK
    <3>1. sync_sem \in Nat
      OBVIOUS
    <3> QED BY <2>1, <2>2, <3>1 DEF RtTypeOK, PCs
  <2>4. domain_idx \in 0..(NumDomain - 1) /\ kcmd \in [Slaves -> Commands]
    BY DEF NumDomain
  <2> QED BY <2>3, <2>4 DEF TypeOK, TodoOK
<1>2. TypeOK /\ TodoOK /\ [Next]_vars => (TypeOK /\ TodoOK)'
  <2> SUFFICES ASSUME TypeOK, TodoOK, [Next]_vars
               PROVE  TypeOK' /\ TodoOK'
    OBVIOUS
  <2>1. CASE RtStepOf BY <2>1, RtStepOfType
  <2>2. CASE Kernel BY <2>2, KernelType DEF TodoOK
  <2>3. CASE Data BY <2>3, DataType DEF TodoOK
  <2>4. CASE Rpc BY <2>4, RpcType DEF TodoOK
  <2>5. CASE Service BY <2>5, ServiceType DEF TodoOK
  <2>6. CASE UNCHANGED vars
    BY <2>6 DEF vars, rtVars, compVars, threadVars, semVars, kernelVars,
       historyVars, dataVars, rpcVars, TypeOK, RtTypeOK, ComponentTypeOK, TodoOK
  <2> QED BY <2>1, <2>2, <2>3, <2>4, <2>5, <2>6 DEF Next
<1> QED BY <1>1, <1>2, PTL DEF Spec
-----------------------------------------------------------------------------
(* ext_sem.                                                                *)

(* The steps of the real-time thread that do not touch ext_sem neither     *)
(* enter nor leave the locked part of a cycle.                             *)
LEMMA RtThreadLock ==
  ASSUME TypeOK, RtThread
  PROVE  \/ /\ ext_sem = 1 /\ ext_sem' = 0 /\ ~InCycle /\ InCycle'
         \/ /\ InCycle /\ ext_sem' = 1 /\ ~InCycle'
         \/ /\ ext_sem' = ext_sem /\ InCycle' = InCycle
<1> USE DEF InCycle, InStep, TypeOK, RtTypeOK, semVars
<1>1. CASE ThreadStart BY <1>1 DEF ThreadStart
<1>2. CASE DryTop BY <1>2 DEF DryTop, CallStep
<1>3. CASE DryReturn BY <1>3 DEF DryReturn
<1>4. CASE EnterLoop BY <1>4 DEF EnterLoop
<1>5. CASE LoopTop BY <1>5 DEF LoopTop, CallStep
<1>6. CASE WaitExt BY <1>6 DEF WaitExt
<1>7. CASE WaitSync BY <1>7 DEF WaitSync
<1>8. CASE WaitShm BY <1>8 DEF WaitShm
<1>9. CASE Mark BY <1>9 DEF Mark
<1>10. CASE EcStatusPass BY <1>10 DEF EcStatusPass, NextPass, StepUnchanged
<1>11. CASE RtStatusPass BY <1>11 DEF RtStatusPass, NextPass, StepUnchanged
<1>12. CASE RtCommandPass BY <1>12 DEF RtCommandPass, NextPass, StepUnchanged
<1>13. CASE EcCommandPass BY <1>13 DEF EcCommandPass, NextPass, StepUnchanged
<1>14. CASE Check BY <1>14 DEF Check
<1>15. CASE Release BY <1>15 DEF Release
<1>16. CASE LoopReturn BY <1>16 DEF LoopReturn
<1> QED BY <1>1, <1>2, <1>3, <1>4, <1>5, <1>6, <1>7, <1>8, <1>9, <1>10, <1>11,
           <1>12, <1>13, <1>14, <1>15, <1>16 DEF RtThread

(* The same of a data service's step.                                      *)
LEMMA DataLock ==
  ASSUME TypeOK, NEW d \in Services, Receive(d) \/ DataStep(d) \/ HangUp(d)
  PROVE  /\ \A c \in Services \ {d} : dpc'[c] = dpc[c]
         /\ \/ ext_sem = 1 /\ ext_sem' = 0 /\ ~Serving(d) /\ Serving(d)'
            \/ ext_sem' = 1 /\ Serving(d) /\ ~Serving(d)'
            \/ ext_sem' = ext_sem /\ Serving(d)' = Serving(d)
<1> USE DEF Serving, TypeOK, rtVars, semVars
<1>1. CASE Receive(d) BY <1>1 DEF Receive
<1>2. CASE LockExt(d) BY <1>2 DEF LockExt
<1>3. CASE ParseCommandFromExt(d) BY <1>3 DEF ParseCommandFromExt
<1>4. CASE SerializeStatusToExt(d) BY <1>4 DEF SerializeStatusToExt
<1>5. CASE Write(d) BY <1>5 DEF Write
<1>6. CASE HangUp(d) BY <1>6 DEF HangUp
<1> QED BY <1>1, <1>2, <1>3, <1>4, <1>5, <1>6 DEF DataStep

(* The mutual exclusion the External Data Service and the cycle rely on:   *)
(* it is inductive as it stands.                                           *)
THEOREM ExtLockHeld == Spec => []ExtExclusive
<1>1. Init => ExtExclusive
  BY DEF Init, RtInit, ExtExclusive, InCycle, InStep, Serving
<1>2. TypeOK /\ ExtExclusive /\ [Next]_vars => ExtExclusive'
  <2> SUFFICES ASSUME TypeOK, ExtExclusive, [Next]_vars
               PROVE  ExtExclusive'
    OBVIOUS
  <2>1. CASE RtStepOf
    <3>1. \A d \in Services : Serving(d)' = Serving(d)
      BY <2>1 DEF RtStepOf, dataVars, Serving
    <3>2. RtThread
      BY <2>1 DEF RtStepOf
    <3>3. ext_sem \in {0, 1}
      BY DEF TypeOK, RtTypeOK
    <3>4. \/ /\ ext_sem = 1 /\ ext_sem' = 0 /\ ~InCycle /\ InCycle'
          \/ /\ InCycle /\ ext_sem' = 1 /\ ~InCycle'
          \/ /\ ext_sem' = ext_sem /\ InCycle' = InCycle
      BY <3>2, RtThreadLock
    <3> QED BY <3>1, <3>3, <3>4 DEF ExtExclusive
  <2>2. CASE Data
    <3>1. PICK d \in Services : Receive(d) \/ DataStep(d) \/ HangUp(d)
      BY <2>2 DEF Data
    <3>2. pc' = pc
      BY <2>2, DataType
    <3>3. \A c \in Services \ {d} : Serving(c)' = Serving(c)
      BY <3>1, DataLock DEF Serving
    <3>4. InCycle' = InCycle
      BY <3>2 DEF InCycle
    <3>5. ext_sem \in {0, 1}
      BY DEF TypeOK, RtTypeOK
    <3>6. \/ ext_sem = 1 /\ ext_sem' = 0 /\ ~Serving(d) /\ Serving(d)'
          \/ ext_sem' = 1 /\ Serving(d) /\ ~Serving(d)'
          \/ ext_sem' = ext_sem /\ Serving(d)' = Serving(d)
      BY <3>1, DataLock
    <3> QED BY <3>3, <3>4, <3>5, <3>6 DEF ExtExclusive
  <2>3. CASE Kernel \/ Rpc \/ Service \/ UNCHANGED vars
    <3>1. pc' = pc
      BY <2>3, KernelType, RpcType, ServiceType DEF vars, rtVars, threadVars
    <3>2. ext_sem' = ext_sem /\ dpc' = dpc
      BY <2>3 DEF Kernel, KernelLoop, KernelWait, KernelExchange, KernelSignal,
         CheckSlaveState, RunCleanup, Rpc, RpcStep, RpcCall, RpcCheck, RpcWrite,
         RpcReturn, Service, RequestStop, Shutdown, vars, rtVars, semVars,
         dataVars
    <3> QED BY <3>1, <3>2 DEF ExtExclusive, InCycle, Serving
  <2> QED BY <2>1, <2>2, <2>3 DEF Next
<1> QED BY <1>1, <1>2, TypeCorrect, PTL DEF Spec
-----------------------------------------------------------------------------
(* Errors and their latch.                                                 *)

(* No setter leaves ERR, none enters it.                                   *)
LEMMA SettersError ==
  ASSUME NEW s
  PROVE  /\ SetStateOp(s) = "ERR" <=> s = "ERR"
         /\ SetStateSafeOp(s) = "ERR" <=> s = "ERR"
BY DEF SetStateOp, SetStateSafeOp

(* The real-time thread never takes a component out of ERR ...             *)
LEMMA RtThreadKeepsErrors ==
  ASSUME TypeOK, TodoOK, RtThread, NEW c \in Comps, state[c] = "ERR"
  PROVE  state'[c] = "ERR"
<1> USE DEF TypeOK, RtTypeOK, ComponentTypeOK
<1>1. CASE UNCHANGED state BY <1>1
<1>2. CASE DryReturn
  BY <1>2, SettersError DEF DryReturn, SetComponentStateOpAll
<1>3. CASE Mark BY <1>3, SettersError DEF Mark
<1>4. CASE EcStatusPass
  <2>1. CASE \E d \in todo : EcStepStatus(d, cycle)
    <3>1. PICK d \in todo : EcStepStatus(d, cycle) BY <2>1
    <3>2. PICK s \in Raised(d, state[d]) :
            state' = [state EXCEPT ![d] = IF d \in VirtualComps
                                          THEN s ELSE EcStatusState(d, s)]
      BY <3>1 DEF EcStepStatus
    <3>3. state[d] = "ERR" => s = "ERR" BY <3>2 DEF Raised
    <3>4. s = "ERR" => EcStatusState(d, s) = "ERR"
      BY SettersError DEF EcStatusState
    <3> QED BY <3>2, <3>3, <3>4
  <2>2. CASE UNCHANGED compVars BY <2>2 DEF compVars
  <2> QED BY <1>4, <2>1, <2>2 DEF EcStatusPass, NextPass
<1>5. CASE RtStatusPass
  BY <1>5 DEF RtStatusPass, NextPass, RtStepStatus, Raised, compVars
<1>6. CASE RtCommandPass
  BY <1>6 DEF RtCommandPass, NextPass, RtStepCommand, Raised, compVars
<1>7. CASE EcCommandPass
  BY <1>7 DEF EcCommandPass, NextPass, EcStepCommand, Raised, compVars
<1>8. CASE Check BY <1>8, SettersError DEF Check, CheckedStates
<1> QED
  BY <1>1, <1>2, <1>3, <1>4, <1>5, <1>6, <1>7, <1>8
  DEF RtThread, ThreadStart, DryTop, EnterLoop, LoopTop, WaitExt, WaitSync,
      WaitShm, Release, LoopReturn, compVars

(* ... and puts one in ERR only in the passes of Step.                     *)
Passes == {"ecStatus", "rtStatus", "rtCommand", "ecCommand"}

(* Outside of them, an error there is was there before.                    *)
LEMMA RtThreadRaises ==
  ASSUME TypeOK, RtThread, AnyError', pc \notin Passes
  PROVE  AnyError
<1> USE DEF TypeOK, RtTypeOK, ComponentTypeOK, AnyError, Passes
<1>1. CASE UNCHANGED state BY <1>1
<1>2. CASE DryReturn
  BY <1>2, SettersError DEF DryReturn, SetComponentStateOpAll
<1>3. CASE Mark BY <1>3, SettersError DEF Mark
<1>4. CASE Check BY <1>4, SettersError DEF Check, CheckedStates
<1> QED
  BY <1>1, <1>2, <1>3, <1>4
  DEF RtThread, ThreadStart, DryTop, EnterLoop, LoopTop, WaitExt, WaitSync,
      WaitShm, Release, LoopReturn, compVars, EcStatusPass, RtStatusPass,
      RtCommandPass, EcCommandPass, NextPass

(* LatchInv, action by action of the real-time thread.                     *)
LEMMA RtThreadLatch ==
  ASSUME TypeOK, LatchInv, RtThread
  PROVE  LatchInv'
<1> USE DEF TypeOK, RtTypeOK, LatchInv, ErrorLatched, InCycle, InStep, Passes
<1>0. pc \notin Passes /\ AnyError' => AnyError
  BY RtThreadRaises
<1>1. CASE ThreadStart BY <1>0, <1>1 DEF ThreadStart
<1>2. CASE DryTop BY <1>0, <1>2 DEF DryTop, CallStep
<1>3. CASE DryReturn BY <1>0, <1>3 DEF DryReturn
<1>4. CASE EnterLoop BY <1>0, <1>4 DEF EnterLoop
<1>5. CASE LoopTop BY <1>0, <1>5 DEF LoopTop, CallStep
<1>6. CASE WaitExt BY <1>0, <1>6 DEF WaitExt
<1>7. CASE WaitSync BY <1>0, <1>7 DEF WaitSync
<1>8. CASE WaitShm BY <1>0, <1>8 DEF WaitShm
<1>9. CASE Mark BY <1>0, <1>9 DEF Mark
<1>10. CASE EcStatusPass BY <1>10 DEF EcStatusPass, NextPass, StepUnchanged
<1>11. CASE RtStatusPass BY <1>11 DEF RtStatusPass, NextPass, StepUnchanged
<1>12. CASE RtCommandPass BY <1>12 DEF RtCommandPass, NextPass, StepUnchanged
<1>13. CASE EcCommandPass BY <1>13 DEF EcCommandPass, NextPass, StepUnchanged
<1>14. CASE Check BY <1>0, <1>14 DEF Check
<1>15. CASE Release BY <1>0, <1>15 DEF Release
<1>16. CASE LoopReturn BY <1>0, <1>16 DEF LoopReturn
<1> QED BY <1>1, <1>2, <1>3, <1>4, <1>5, <1>6, <1>7, <1>8, <1>9, <1>10, <1>11,
           <1>12, <1>13, <1>14, <1>15, <1>16 DEF RtThread

(* Nobody else raises an error or moves the latch, the flag of the thread  *)
(* or the argument of Step.                                                *)
LEMMA OthersLatch ==
  ASSUME TypeOK, Kernel \/ Data \/ Rpc \/ Service \/ UNCHANGED vars
  PROVE  /\ AnyError' => AnyError
         /\ UNCHANGED <<pc, dry_run, ret_step, safeop_required,
                        sys_thread_active>>
<1> USE DEF AnyError, TypeOK, RtTypeOK, ComponentTypeOK, rtVars, compVars,
            threadVars
<1>1. CASE Kernel
  BY <1>1 DEF Kernel, KernelLoop, KernelWait, KernelExchange, KernelSignal,
     CheckSlaveState, RunCleanup
<1>2. CASE Data
  BY <1>2 DEF Data, DataStep, Receive, LockExt, ParseCommandFromExt,
     SerializeStatusToExt, Write, HangUp
<1>3. CASE \E c \in Comps : RpcWrite(c) BY <1>3 DEF RpcWrite, RpcTarget
<1>4. CASE Rpc /\ ~\E c \in Comps : RpcWrite(c)
  BY <1>4 DEF Rpc, RpcStep, RpcCall, RpcCheck, RpcReturn
<1>5. CASE Service
  BY <1>5 DEF Service, RequestStop, Shutdown, ShutdownComponents
<1>6. CASE UNCHANGED vars BY <1>6 DEF vars
<1> QED BY <1>1, <1>2, <1>3, <1>4, <1>5, <1>6 DEF Rpc, RpcStep

(* The latch follows the errors, whatever clients, the kernel module and   *)
(* a request to stop do meanwhile.                                         *)
THEOREM LatchHeld == Spec => []LatchInv
<1>1. Init => LatchInv
  BY DEF Init, RtInit, StartupComponents, LatchInv, ErrorLatched, InCycle,
     InStep
<1>2. TypeOK /\ LatchInv /\ [Next]_vars => LatchInv'
  <2> SUFFICES ASSUME TypeOK, LatchInv, [Next]_vars
               PROVE  LatchInv'
    OBVIOUS
  <2>1. CASE RtStepOf BY <2>1, RtThreadLatch DEF RtStepOf
  <2>2. CASE Kernel \/ Data \/ Rpc \/ Service \/ UNCHANGED vars
    BY <2>2, OthersLatch DEF LatchInv, ErrorLatched, InCycle, InStep
  <2> QED BY <2>1, <2>2 DEF Next
<1> QED BY <1>1, <1>2, TypeCorrect, PTL DEF Spec

(* What the loop's users rely on: an error is latched before the cycle it  *)
(* shows up in is over.                                                    *)
THEOREM ErrorsLatched == Spec => []ErrorLatched
<1>1. LatchInv => ErrorLatched
  BY DEF LatchInv
<1> QED BY <1>1, LatchHeld, PTL

(* The loop starts on a cycle without errors.                              *)
THEOREM CleanlyEntered == Spec => []CleanEntry
<1>1. LatchInv => CleanEntry
  BY DEF LatchInv, CleanEntry
<1> QED BY <1>1, LatchHeld, PTL

(* Only a dry run takes safeop_required back.                              *)
THEOREM LatchKept == Spec => SafeopLatched
<1>1. TypeOK /\ LatchInv /\ [Next]_vars
        => (sys_thread_active /\ safeop_required => safeop_required')
  <2> SUFFICES ASSUME TypeOK, LatchInv, [Next]_vars, sys_thread_active,
                      safeop_required
               PROVE  safeop_required'
    OBVIOUS
  <2>1. CASE Kernel \/ Data \/ Rpc \/ Service \/ UNCHANGED vars
    BY <2>1, OthersLatch
  <2>2. CASE RtStepOf
    <3>1. CASE Check
      BY <3>1 DEF Check, LatchInv, InCycle, InStep, TypeOK, RtTypeOK
    <3>2. CASE UNCHANGED safeop_required BY <3>2
    <3> QED
      BY <2>2, <3>1, <3>2
      DEF RtStepOf, RtThread, ThreadStart, DryTop, DryReturn, EnterLoop,
          LoopTop, WaitExt, WaitSync, WaitShm, Mark, Release, LoopReturn,
          EcStatusPass, RtStatusPass, RtCommandPass, EcCommandPass, NextPass,
          StepUnchanged
  <2> QED BY <2>1, <2>2 DEF Next
<1> QED BY <1>1, LatchHeld, TypeCorrect, PTL DEF Spec, SafeopLatched

-----------------------------------------------------------------------------
(* ERR is final as far as the real-time system is concerned.               *)

(* A step that takes a component out of ERR is the write of a state call   *)
(* that has read the component's state before.                             *)
LEMMA ErrorKept ==
  ASSUME TypeOK, TodoOK, [Next]_vars, NEW c \in Comps, state[c] = "ERR",
         c \notin rpassed
  PROVE  state'[c] = "ERR"
<1> USE DEF TypeOK, RtTypeOK, ComponentTypeOK
<1>1. CASE RtStepOf BY <1>1, RtThreadKeepsErrors DEF RtStepOf
<1>2. CASE Kernel
  BY <1>2 DEF Kernel, KernelLoop, KernelWait, KernelExchange, KernelSignal,
     CheckSlaveState, RunCleanup, rtVars, compVars
<1>3. CASE Data
  BY <1>3 DEF Data, DataStep, Receive, LockExt, ParseCommandFromExt,
     SerializeStatusToExt, Write, HangUp, rtVars, compVars
<1>4. CASE Rpc
  BY <1>4 DEF Rpc, RpcStep, RpcCall, RpcCheck, RpcWrite, RpcReturn, rtVars,
     compVars
<1>5. CASE Service
  BY <1>5 DEF Service, RequestStop, Shutdown, ShutdownComponents, compVars
<1>6. CASE UNCHANGED vars BY <1>6 DEF vars, rtVars, compVars
<1> QED BY <1>1, <1>2, <1>3, <1>4, <1>5, <1>6 DEF Next

(* Without state calls an error stays for good (with them it may be lost,  *)
(* see the run error_final).                                               *)
THEOREM ErrorFinal ==
  ASSUME RpcOps = {}
  PROVE  Spec => ErrorIsFinal
<1> DEFINE NoCall == rop = "none" /\ rpassed = {}
<1>1. Init => NoCall
  BY DEF Init
<1>2. NoCall /\ [Next]_vars => NoCall'
  <2> SUFFICES ASSUME NoCall, [Next]_vars PROVE NoCall'
    OBVIOUS
  <2>1. CASE Rpc
    BY <2>1 DEF Rpc, RpcStep, RpcCall, RpcCheck, RpcWrite, RpcReturn
  <2>2. CASE UNCHANGED rpcVars
    BY <2>2 DEF rpcVars
  <2> QED
    BY <2>1, <2>2
    DEF Next, RtStepOf, Kernel, KernelLoop, KernelWait, KernelExchange,
        KernelSignal, CheckSlaveState, RunCleanup, Data, DataStep, Receive,
        LockExt, ParseCommandFromExt, SerializeStatusToExt, Write, HangUp,
        Service, RequestStop, Shutdown, vars
<1>3. TypeOK /\ TodoOK /\ NoCall /\ [Next]_vars
        => (\A c \in Comps : state[c] = "ERR" => state'[c] = "ERR")
  BY ErrorKept
<1> QED BY <1>1, <1>2, <1>3, TypeCorrect, PTL DEF Spec, ErrorIsFinal
-----------------------------------------------------------------------------
(* shm_sem.                                                                *)

(* The real-time thread's use of the semaphore.                            *)
LEMMA RtThreadShm ==
  ASSUME TypeOK, RtThread
  PROVE  \/ shm_sem > 0 /\ shm_sem' = shm_sem - 1 /\ pc \notin InStep
                        /\ pc' \in InStep
         \/ shm_sem' = shm_sem + 1 /\ pc \in InStep /\ pc' \notin InStep
         \/ shm_sem' = shm_sem /\ (pc' \in InStep <=> pc \in InStep)
<1> USE DEF InStep, TypeOK, RtTypeOK, semVars
<1>1. CASE ThreadStart BY <1>1 DEF ThreadStart
<1>2. CASE DryTop BY <1>2 DEF DryTop, CallStep
<1>3. CASE DryReturn BY <1>3 DEF DryReturn
<1>4. CASE EnterLoop BY <1>4 DEF EnterLoop
<1>5. CASE LoopTop BY <1>5 DEF LoopTop, CallStep
<1>6. CASE WaitExt BY <1>6 DEF WaitExt
<1>7. CASE WaitSync BY <1>7 DEF WaitSync
<1>8. CASE WaitShm BY <1>8 DEF WaitShm
<1>9. CASE Mark BY <1>9 DEF Mark
<1>10. CASE EcStatusPass BY <1>10 DEF EcStatusPass, NextPass, StepUnchanged
<1>11. CASE RtStatusPass BY <1>11 DEF RtStatusPass, NextPass, StepUnchanged
<1>12. CASE RtCommandPass BY <1>12 DEF RtCommandPass, NextPass, StepUnchanged
<1>13. CASE EcCommandPass BY <1>13 DEF EcCommandPass, NextPass, StepUnchanged
<1>14. CASE Check BY <1>14 DEF Check
<1>15. CASE Release BY <1>15 DEF Release
<1>16. CASE LoopReturn BY <1>16 DEF LoopReturn
<1> QED BY <1>1, <1>2, <1>3, <1>4, <1>5, <1>6, <1>7, <1>8, <1>9, <1>10, <1>11,
           <1>12, <1>13, <1>14, <1>15, <1>16 DEF RtThread

(* Shared memory is exchanged and computed on by one side at a time: the   *)
(* counting semaphore never counts above one.                              *)
THEOREM ShmLockHeld == Spec => []ShmExclusive
<1>1. Init => ShmExclusive
  BY DEF Init, RtInit, ShmExclusive, InStep
<1>2. TypeOK /\ ShmExclusive /\ [Next]_vars => ShmExclusive'
  <2> SUFFICES ASSUME TypeOK, ShmExclusive, [Next]_vars
               PROVE  ShmExclusive'
    OBVIOUS
  <2>1. CASE RtStepOf
    <3>1. kpc' = kpc
      BY <2>1 DEF RtStepOf, kernelVars
    <3>2. RtThread
      BY <2>1 DEF RtStepOf
    <3> QED BY <3>1, <3>2, RtThreadShm DEF ShmExclusive, InStep
  <2>2. CASE Kernel
    <3> USE DEF ShmExclusive, InStep, rtVars, threadVars, semVars
    <3>1. pc' = pc
      BY <2>2, KernelType
    <3>2. CASE KernelWait BY <3>1, <3>2 DEF KernelWait
    <3>3. CASE \E e \in Slaves : KernelExchange(e)
      BY <3>1, <3>3 DEF KernelExchange
    <3>4. CASE KernelSignal BY <3>1, <3>4 DEF KernelSignal
    <3>5. CASE CheckSlaveState BY <3>1, <3>5 DEF CheckSlaveState
    <3>6. CASE RunCleanup BY <3>1, <3>6 DEF RunCleanup
    <3> QED BY <2>2, <3>2, <3>3, <3>4, <3>5, <3>6 DEF Kernel, KernelLoop
  <2>3. CASE Data \/ Rpc \/ Service \/ UNCHANGED vars
    <3>1. pc' = pc
      BY <2>3, DataType, RpcType, ServiceType DEF vars, rtVars, threadVars
    <3>2. shm_sem' = shm_sem /\ kpc' = kpc
      BY <2>3 DEF Data, DataStep, Receive, LockExt, ParseCommandFromExt,
         SerializeStatusToExt, Write, HangUp, Rpc, RpcStep, RpcCall, RpcCheck,
         RpcWrite, RpcReturn, Service, RequestStop, Shutdown, vars, rtVars,
         semVars, kernelVars
    <3> QED BY <3>1, <3>2 DEF ShmExclusive, InStep
  <2> QED BY <2>1, <2>2, <2>3 DEF Next
<1> QED BY <1>1, <1>2, TypeCorrect, PTL DEF Spec

-----------------------------------------------------------------------------
(* Replies.                                                                *)

(* Between the status passes of two cycles all the status is of one cycle; *)
(* within them, that of the components visited is of the current one.      *)
StatusInv ==
  /\ pc = "ecStatus" => \A c \in EcComps \ todo : status[c] = cycle
  /\ pc = "rtStatus" => \A c \in Comps \ todo : status[c] = cycle
  /\ pc \notin {"ecStatus", "rtStatus"}
       => \A c, d \in Comps : status[c] = status[d]

(* A reply being put together is of the status there is, one that is ready *)
(* of a single cycle.                                                      *)
ReplyInv ==
  \A d \in Services :
    /\ dpc[d] \in {"recv", "lock", "parse"} => reply[d] = {}
    /\ dpc[d] = "serialize" => \A n \in reply[d] : \E c \in Comps : n = status[c]
    /\ dpc[d] = "write" => \A m, n \in reply[d] : m = n

(* A status pass moves on to the next cycle component by component.        *)
LEMMA RtThreadStatus ==
  ASSUME TypeOK, TodoOK, StatusInv, RtThread
  PROVE  /\ StatusInv'
         /\ ~InCycle => status' = status
<1> USE ComponentAssumption
    DEF StatusInv, TypeOK, RtTypeOK, ComponentTypeOK, TodoOK, compVars, InCycle,
        InStep
<1>1. CASE ThreadStart BY <1>1 DEF ThreadStart
<1>2. CASE DryTop BY <1>2 DEF DryTop, CallStep
<1>3. CASE DryReturn BY <1>3 DEF DryReturn
<1>4. CASE EnterLoop BY <1>4 DEF EnterLoop
<1>5. CASE LoopTop BY <1>5 DEF LoopTop, CallStep
<1>6. CASE WaitExt BY <1>6 DEF WaitExt
<1>7. CASE WaitSync BY <1>7 DEF WaitSync
<1>8. CASE WaitShm BY <1>8 DEF WaitShm
<1>9. CASE Mark BY <1>9 DEF Mark
<1>10. CASE EcStatusPass
  BY <1>10 DEF EcStatusPass, NextPass, StepUnchanged, EcStepStatus
<1>11. CASE RtStatusPass
  BY <1>11 DEF RtStatusPass, NextPass, StepUnchanged, RtStepStatus
<1>12. CASE RtCommandPass
  BY <1>12 DEF RtCommandPass, NextPass, StepUnchanged, RtStepCommand
<1>13. CASE EcCommandPass
  BY <1>13 DEF EcCommandPass, NextPass, StepUnchanged, EcStepCommand
<1>14. CASE Check BY <1>14 DEF Check
<1>15. CASE Release BY <1>15 DEF Release
<1>16. CASE LoopReturn BY <1>16 DEF LoopReturn
<1> QED BY <1>1, <1>2, <1>3, <1>4, <1>5, <1>6, <1>7, <1>8, <1>9, <1>10, <1>11,
           <1>12, <1>13, <1>14, <1>15, <1>16 DEF RtThread

(* A data service adds the status it finds to its own reply only.          *)
LEMMA DataReply ==
  ASSUME TypeOK, ReplyInv, Data,
         \A d \in Services : Serving(d) => \A b, c \in Comps : status[b] = status[c]
  PROVE  ReplyInv'
<1> USE DEF ReplyInv, TypeOK, RtTypeOK, ComponentTypeOK, rtVars, compVars,
            Serving
<1>1. PICK d \in Services : Receive(d) \/ DataStep(d) \/ HangUp(d)
  BY DEF Data
<1>2. CASE Receive(d) BY <1>2 DEF Receive
<1>3. CASE LockExt(d) BY <1>3 DEF LockExt
<1>4. CASE ParseCommandFromExt(d) BY <1>4 DEF ParseCommandFromExt
<1>5. CASE SerializeStatusToExt(d)
  <2>1. status' = status /\ \A b, c \in Comps : status[b] = status[c]
    BY <1>5 DEF SerializeStatusToExt
  <2>2. CASE \E c \in dtodo[d] :
               /\ reply' = [reply EXCEPT ![d] = @ \cup {status[c]}]
               /\ UNCHANGED dpc
    BY <1>5, <2>1, <2>2 DEF SerializeStatusToExt
  <2>3. CASE /\ dtodo[d] = {} /\ dpc' = [dpc EXCEPT ![d] = "write"]
             /\ UNCHANGED reply
    <3>1. dpc[d] = "serialize"
      BY <1>5 DEF SerializeStatusToExt
    <3>2. \A m, n \in reply[d] : m = n
      BY <2>1, <3>1
    <3> QED BY <2>1, <2>3, <3>1, <3>2
  <2> QED BY <1>5, <2>2, <2>3 DEF SerializeStatusToExt
<1>6. CASE Write(d) BY <1>6 DEF Write
<1>7. CASE HangUp(d) BY <1>7 DEF HangUp
<1> QED BY <1>1, <1>2, <1>3, <1>4, <1>5, <1>6, <1>7 DEF DataStep

(* A client never sees a component's status beside that of another cycle.  *)
THEOREM RepliesOfOneCycle == Spec => []ReplyOfOneCycle
<1> DEFINE Inv == StatusInv /\ ReplyInv
<1>1. Init => Inv
  BY DEF Init, RtInit, StartupComponents, StatusInv, ReplyInv
<1>2. TypeOK /\ TodoOK /\ ExtExclusive /\ Inv /\ [Next]_vars => Inv'
  <2> SUFFICES ASSUME TypeOK, TodoOK, ExtExclusive, StatusInv, ReplyInv,
                      [Next]_vars
               PROVE  StatusInv' /\ ReplyInv'
    OBVIOUS
  <2>1. CASE RtStepOf
    <3>1. RtThread /\ UNCHANGED dataVars
      BY <2>1 DEF RtStepOf
    <3>2. StatusInv' /\ (~InCycle => status' = status)
      BY <3>1, RtThreadStatus
    <3>3. \A d \in Services : dpc[d] = "serialize" => ~InCycle
      BY DEF ExtExclusive, Serving
    <3>4. ReplyInv'
      BY <3>1, <3>2, <3>3 DEF ReplyInv, dataVars
    <3> QED BY <3>2, <3>4
  <2>2. CASE Data
    <3>1. UNCHANGED <<pc, todo, cycle, status>>
      BY <2>2 DEF Data, DataStep, Receive, LockExt, ParseCommandFromExt,
         SerializeStatusToExt, Write, HangUp, rtVars, compVars, threadVars
    <3>2. \A d \in Services :
            Serving(d) => \A b, c \in Comps : status[b] = status[c]
      BY DEF StatusInv, ExtExclusive, InCycle, InStep
    <3> QED BY <2>2, <3>1, <3>2, DataReply DEF StatusInv
  <2>3. CASE Kernel \/ Rpc \/ Service \/ UNCHANGED vars
    <3>1. UNCHANGED <<pc, todo, cycle, status, dpc, reply>>
      BY <2>3 DEF Kernel, KernelLoop, KernelWait, KernelExchange, KernelSignal,
         CheckSlaveState, RunCleanup, Rpc, RpcStep, RpcCall, RpcCheck, RpcWrite,
         RpcReturn, Service, RequestStop, Shutdown, ShutdownComponents, vars,
         rtVars, compVars, threadVars, dataVars
    <3> QED BY <3>1 DEF StatusInv, ReplyInv
  <2> QED BY <2>1, <2>2, <2>3 DEF Next
<1>3. TypeOK /\ Inv => ReplyOfOneCycle
  <2> SUFFICES ASSUME TypeOK, ReplyInv, NEW d \in Services, dpc[d] = "write"
               PROVE  Cardinality(reply[d]) <= 1
    BY DEF ReplyOfOneCycle
  <2>1. CASE reply[d] = {}
    BY <2>1, FS_EmptySet
  <2>2. CASE reply[d] # {}
    <3>1. PICK n \in reply[d] : TRUE
      BY <2>2
    <3>2. reply[d] = {n}
      BY <3>1 DEF ReplyInv
    <3>3. Cardinality({n}) = 1
      BY FS_Singleton
    <3> QED BY <3>2, <3>3
  <2> QED BY <2>1, <2>2
<1> QED BY <1>1, <1>2, <1>3, TypeCorrect, ExtLockHeld, PTL DEF Spec

-----------------------------------------------------------------------------
(* Commands.                                                               *)

(* The command pass: who has been visited comes first in priority, and the *)
(* components it drives have its command until the end of the cycle.       *)
Ends == {"ecCommand", "check", "release"}
CommandInv ==
  /\ pc \notin {"rtCommand"} \cup Ends => drove = {}
  /\ pc = "rtCommand" => /\ drove \cap todo = {}
                         /\ \A r \in RtComps \ todo, q \in todo : Priority[q] <= Priority[r]
  /\ pc \in {"rtCommand"} \cup Ends =>
       \A r \in drove : \A c \in Comps :
         DrivenOnlyBy(r, c) /\ DrivenFromAbove(r) => command[c] = command[r]

(* The slaves' PDOs follow their commands in the pass after it. A slave    *)
(* that no client names keeps them until the next cycle, with the other    *)
(* slaves of the component that drives it.                                 *)
PdoInv ==
  /\ pc = "ecCommand" => \A e \in Slaves \ todo : pdo[e] \in {Zero, command[e]}
  /\ pc \in {"check", "release"} => \A e \in Slaves : pdo[e] \in {Zero, command[e]}
  /\ pc \notin {"rtCommand", "ecCommand"} =>
       \A e \in Slaves \ Published : pdo[e] \in {Zero, command[e]}
  /\ \A r \in RtComps : \A e, f \in Slaves \ Published :
       DrivenOnlyBy(r, e) /\ DrivenOnlyBy(r, f) => command[e] = command[f]

(* What the slaves of a domain were sent: that of one cycle, also while    *)
(* the exchange of the domain is under way.                                *)
Alike(x, y) == x = y \/ Zero \in {x, y}
SentInv ==
  /\ kpc = "exchange" => \A e \in ktodo : Domain(e) = domain_idx
  /\ kpc = "exchange" => \A e \in Slaves \ Published :
       Domain(e) = domain_idx /\ e \notin ktodo => kcmd[e] \in {Zero, command[e]}
  /\ \A r \in RtComps : \A e, f \in Slaves \ Published :
       /\ DrivenOnlyBy(r, e) /\ DrivenOnlyBy(r, f) /\ Domain(e) = Domain(f)
       /\ kpc = "exchange" => Domain(e) # domain_idx
       => Alike(kcmd[e], kcmd[f])

(* The components a client names: a message has no others.                 *)
MessageInv == \A d \in Services : dpc[d] = "parse" => dtodo[d] \subseteq Published

(* A component's step in the command pass leaves what those before it did: *)
(* it drives none of them from below, and no component of theirs alone.    *)
LEMMA RtCommandPassCommand ==
  ASSUME TypeOK, TodoOK, CommandInv, RtStepOf, RtCommandPass
  PROVE  CommandInv'
<1> USE DEF TypeOK, RtTypeOK, ComponentTypeOK, TodoOK
<1>1. CASE NextPass("rtCommand", "ecCommand", EcComps)
  BY <1>1 DEF NextPass, CommandInv, Ends, compVars, RtStepOf, DrivenOnlyBy, DrivenFromAbove
<1>2. ASSUME NEW q \in todo, pc = "rtCommand", FirstDown(q, todo), RtStepCommand(q),
             todo' = todo \ {q}, pc' = pc
      PROVE  CommandInv'
  <2>1. q \in RtComps /\ todo \ todo' = {q}
    BY <1>2
  <2>2. drove' = IF state[q] = "OP" THEN drove \cup {q} ELSE drove
    BY <1>2, <2>1 DEF RtStepOf
  <2>3. \A r \in RtComps \ todo', p \in todo' : Priority[p] <= Priority[r]
    <3> SUFFICES ASSUME NEW r \in RtComps \ todo', NEW p \in todo'  PROVE Priority[p] <= Priority[r]
      OBVIOUS
    <3>1. CASE r \notin todo
      BY <1>2, <3>1 DEF CommandInv
    <3>2. CASE r = q
      BY <1>2, <3>2, <2>1, ComponentAssumption DEF FirstDown
    <3> QED
      BY <3>1, <3>2, <1>2
  <2>4. ASSUME NEW r \in drove', NEW c \in Comps, DrivenOnlyBy(r, c), DrivenFromAbove(r)
        PROVE  command'[c] = command'[r]
    <3>1. \A d \in Comps : command'[d] = IF state[q] = "OP" /\ d \in Drives[q] THEN command[q] ELSE command[d]
      BY <1>2 DEF RtStepCommand
    <3>2. r \in RtComps /\ drove \subseteq RtComps
      BY <2>1, <2>2
    <3>3. CASE r = q
      BY <3>1, <3>2, <3>3, <2>4, <1>2, <2>2 DEF DrivenOnlyBy, CommandInv
    <3>4. CASE r # q
      <4>1. r \in drove /\ r \notin todo
        BY <3>4, <2>2, <1>2 DEF CommandInv
      <4>2. command[c] = command[r]
        BY <4>1, <2>4, <1>2 DEF CommandInv
      <4>3. c \notin Drives[q]
        BY <3>4, <2>4, <2>1 DEF DrivenOnlyBy
      <4>4. Priority[q] <= Priority[r]
        BY <4>1, <3>2, <1>2 DEF CommandInv
      <4>5. r \notin Drives[q]
        BY <4>4, <2>4, <2>1, <3>2, <3>4, ComponentAssumption DEF DrivenFromAbove
      <4> QED
        BY <3>1, <3>2, <4>2, <4>3, <4>5
    <3> QED
      BY <3>3, <3>4
  <2>5. drove' \cap todo' = {}
    BY <1>2, <2>2 DEF CommandInv
  <2>6. \A r, c : DrivenOnlyBy(r, c)' = DrivenOnlyBy(r, c) /\ DrivenFromAbove(r)' = DrivenFromAbove(r)
    BY DEF DrivenOnlyBy, DrivenFromAbove
  <2> QED
    BY <1>2, <2>3, <2>4, <2>5, <2>6 DEF CommandInv, Ends
<1> QED
  BY <1>1, <1>2 DEF RtCommandPass

(* Before the pass no component has computed a command, and after it       *)
(* commands stay until the cycle ends.                                     *)
LEMMA RtThreadCommand ==
  ASSUME TypeOK, TodoOK, CommandInv, RtStepOf
  PROVE  CommandInv'
<1>1. CASE RtCommandPass
  BY <1>1, RtCommandPassCommand
<1>2. \A r, c : DrivenOnlyBy(r, c)' = DrivenOnlyBy(r, c) /\ DrivenFromAbove(r)' = DrivenFromAbove(r)
  BY DEF DrivenOnlyBy, DrivenFromAbove
<1> USE <1>2 DEF CommandInv, Ends, RtStepOf, compVars
<1>3. CASE EcStatusPass
  BY <1>3 DEF EcStatusPass, NextPass, EcStepStatus
<1>4. CASE RtStatusPass
  BY <1>4 DEF RtStatusPass, NextPass, RtStepStatus, TypeOK, RtTypeOK
<1>5. CASE EcCommandPass
  BY <1>5 DEF EcCommandPass, NextPass, EcStepCommand
<1>6. CASE ThreadStart BY <1>6 DEF ThreadStart
<1>7. CASE DryTop BY <1>7 DEF DryTop, CallStep
<1>8. CASE DryReturn BY <1>8 DEF DryReturn
<1>9. CASE EnterLoop BY <1>9 DEF EnterLoop
<1>10. CASE LoopTop BY <1>10 DEF LoopTop, CallStep
<1>11. CASE WaitExt BY <1>11 DEF WaitExt
<1>12. CASE WaitSync BY <1>12 DEF WaitSync
<1>13. CASE WaitShm BY <1>13 DEF WaitShm
<1>14. CASE Mark BY <1>14 DEF Mark
<1>15. CASE Check BY <1>15 DEF Check
<1>16. CASE Release BY <1>16 DEF Release
<1>17. CASE LoopReturn BY <1>17 DEF LoopReturn
<1> QED
  BY <1>1, <1>3, <1>4, <1>5, <1>6, <1>7, <1>8, <1>9, <1>10, <1>11, <1>12, <1>13, <1>14, <1>15,
     <1>16, <1>17 DEF RtThread

(* The components that no message names keep their commands but for the    *)
(* cycle, all of them while one is under way; PDOs are the cycle's own.    *)
LEMMA DataCommand ==
  ASSUME TypeOK, ExtExclusive, MessageInv, Data
  PROVE  /\ MessageInv'
         /\ InCycle => command' = command
         /\ \A c \in Comps \ Published : command'[c] = command[c]
         /\ UNCHANGED <<pc, todo, drove, pdo, kcmd, kpc, ktodo, domain_idx>>
<1> USE DEF TypeOK, RtTypeOK, ComponentTypeOK, MessageInv
<1>1. PICK d \in Services : Receive(d) \/ DataStep(d) \/ HangUp(d)
  BY DEF Data
<1>2. UNCHANGED <<pc, todo, drove, pdo, kcmd, kpc, ktodo, domain_idx>>
  BY <1>1 DEF DataStep, Receive, LockExt, ParseCommandFromExt, SerializeStatusToExt, Write, HangUp,
     rtVars, compVars, threadVars, kernelVars, historyVars
<1>3. CASE ParseCommandFromExt(d)
  <2>1. ~InCycle
    BY <1>3 DEF ParseCommandFromExt, ExtExclusive, Serving
  <2>2. CASE \E c \in dtodo[d] :
               /\ command' = [command EXCEPT ![c] = msg[d]]
               /\ dtodo' = [dtodo EXCEPT ![d] = @ \ {c}]
               /\ UNCHANGED <<dpc, msg>>
    BY <1>2, <1>3, <2>1, <2>2 DEF ParseCommandFromExt
  <2>3. CASE dpc' = [dpc EXCEPT ![d] = "serialize"] /\ dtodo' = [dtodo EXCEPT ![d] = Comps]
             /\ UNCHANGED command
    BY <1>2, <2>1, <2>3
  <2> QED
    BY <1>3, <2>2, <2>3 DEF ParseCommandFromExt
<1>4. CASE ~ParseCommandFromExt(d)
  <2>1. command' = command
    BY <1>1, <1>4 DEF DataStep, Receive, LockExt, SerializeStatusToExt, Write, HangUp, rtVars, compVars
  <2>2. MessageInv'
    BY <1>1, <1>4 DEF DataStep, Receive, LockExt, SerializeStatusToExt, Write, HangUp
  <2> QED
    BY <1>2, <2>1, <2>2
<1> QED
  BY <1>3, <1>4

(* PdoInv, pass by pass.                                                   *)
LEMMA RtThreadPdo ==
  ASSUME TypeOK, TodoOK, PdoInv, RtThread
  PROVE  /\ PdoInv'
         /\ pc \notin InStep => UNCHANGED <<command, pdo>>
<1>0. \A r, c : DrivenOnlyBy(r, c)' = DrivenOnlyBy(r, c)
  BY DEF DrivenOnlyBy
<1> USE <1>0 DEF PdoInv, compVars, InStep
<1>1. CASE RtCommandPass
  <2>1. CASE NextPass("rtCommand", "ecCommand", EcComps)
    BY <2>1, ComponentAssumption DEF NextPass
  <2>2. ASSUME NEW q \in todo, pc = "rtCommand", RtStepCommand(q), pc' = pc
        PROVE  PdoInv'
    <3>1. q \in RtComps
      BY <2>2 DEF TodoOK
    <3>2. \A d \in Comps : command'[d] = IF state[q] = "OP" /\ d \in Drives[q] THEN command[q] ELSE command[d]
      BY <2>2 DEF RtStepCommand
    <3>3. ASSUME NEW r \in RtComps, NEW e \in Slaves \ Published, NEW f \in Slaves \ Published,
                 DrivenOnlyBy(r, e), DrivenOnlyBy(r, f)
          PROVE  command'[e] = command'[f]
      BY <3>1, <3>2, <3>3 DEF DrivenOnlyBy
    <3> QED
      BY <2>2, <3>3
  <2> QED
    BY <1>1, <2>1, <2>2 DEF RtCommandPass, NextPass
<1>2. CASE EcCommandPass
  <2>1. CASE NextPass("ecCommand", "check", {})
    BY <2>1 DEF NextPass
  <2>2. ASSUME NEW q \in todo, pc = "ecCommand", EcStepCommand(q), pc' = pc, todo' = todo \ {q}
        PROVE  PdoInv'
    <3>1. command' = command /\ \A e \in Slaves \ {q} : pdo'[e] = pdo[e]
      BY <2>2 DEF EcStepCommand, TypeOK, RtTypeOK, ComponentTypeOK
    <3>2. q \in Slaves => pdo'[q] \in {Zero, command[q]}
      BY <2>2 DEF EcStepCommand, TypeOK, RtTypeOK, ComponentTypeOK
    <3> QED
      BY <2>2, <3>1, <3>2
  <2> QED
    BY <1>2, <2>1, <2>2 DEF EcCommandPass, NextPass
<1>3. CASE EcStatusPass
  BY <1>3 DEF EcStatusPass, NextPass, EcStepStatus
<1>4. CASE RtStatusPass
  BY <1>4 DEF RtStatusPass, NextPass, RtStepStatus
<1>6. CASE ThreadStart BY <1>6 DEF ThreadStart
<1>7. CASE DryTop BY <1>7 DEF DryTop, CallStep
<1>8. CASE DryReturn BY <1>8 DEF DryReturn
<1>9. CASE EnterLoop BY <1>9 DEF EnterLoop
<1>10. CASE LoopTop BY <1>10 DEF LoopTop, CallStep
<1>11. CASE WaitExt BY <1>11 DEF WaitExt
<1>12. CASE WaitSync BY <1>12 DEF WaitSync
<1>13. CASE WaitShm BY <1>13 DEF WaitShm
<1>14. CASE Mark BY <1>14 DEF Mark
<1>15. CASE Check BY <1>15 DEF Check
<1>16. CASE Release BY <1>16 DEF Release
<1>17. CASE LoopReturn BY <1>17 DEF LoopReturn
<1> QED
  BY <1>1, <1>2, <1>3, <1>4, <1>6, <1>7, <1>8, <1>9, <1>10, <1>11, <1>12, <1>13, <1>14, <1>15,
     <1>16, <1>17 DEF RtThread

(* Calls, the service and the kernel module write no command; the          *)
(* components' shutdown zeroes the PDOs.                                   *)
LEMMA OthersCommand ==
  ASSUME TypeOK, Kernel \/ Rpc \/ Service \/ UNCHANGED vars
  PROVE  /\ UNCHANGED <<pc, todo, drove, command, dpc, dtodo>>
         /\ pdo' = pdo \/ pdo' = [e \in Slaves |-> Zero]
         /\ ~Kernel => UNCHANGED <<kcmd, kpc, ktodo, domain_idx>>
<1> USE DEF rtVars, compVars, threadVars, kernelVars, historyVars, dataVars
<1>1. CASE Kernel
  BY <1>1 DEF Kernel, KernelLoop, KernelWait, KernelExchange, KernelSignal, CheckSlaveState, RunCleanup
<1>2. CASE Rpc
  BY <1>2 DEF Rpc, RpcStep, RpcCall, RpcCheck, RpcWrite, RpcReturn
<1>3. CASE Service
  BY <1>3 DEF Service, RequestStop, Shutdown, ShutdownComponents
<1>4. CASE UNCHANGED vars
  BY <1>4 DEF vars
<1> QED
  BY <1>1, <1>2, <1>3, <1>4

(* The exchange of a domain copies what PdoInv says of the PDOs, which     *)
(* nobody computes meanwhile.                                              *)
LEMMA KernelSent ==
  ASSUME TypeOK, ShmExclusive, PdoInv, SentInv, Kernel
  PROVE  SentInv'
<1>0. /\ UNCHANGED <<command, pdo, pc>>
      /\ \A r, c : DrivenOnlyBy(r, c)' = DrivenOnlyBy(r, c)
      /\ \A e : Domain(e)' = Domain(e)
  BY DEF Kernel, KernelLoop, KernelWait, KernelExchange, KernelSignal, CheckSlaveState, RunCleanup,
     rtVars, compVars, threadVars, DrivenOnlyBy, Domain, NumDomain
<1> USE <1>0 DEF SentInv, Alike, TypeOK
<1>1. CASE KernelWait
  BY <1>1 DEF KernelWait
<1>2. ASSUME NEW s \in Slaves, KernelExchange(s)  PROVE SentInv'
  <2>1. /\ kpc = "exchange" /\ s \in ktodo /\ ktodo' = ktodo \ {s}
        /\ kcmd' = [kcmd EXCEPT ![s] = pdo[s]]
        /\ kpc' = kpc /\ domain_idx' = domain_idx
    BY <1>2 DEF KernelExchange
  <2>2. \A e \in Slaves \ Published : pdo[e] \in {Zero, command[e]}
    BY <2>1 DEF ShmExclusive, PdoInv, InStep
  <2>3. \A e \in ktodo : Domain(e) = domain_idx
    BY <2>1
  <2> QED
    BY <2>1, <2>2, <2>3
<1>3. CASE KernelSignal
  <2>1. kpc = "exchange" /\ ktodo = {} /\ kcmd' = kcmd /\ kpc' = "check"
    BY <1>3 DEF KernelSignal
  <2>2. \A r \in RtComps : \A e, f \in Slaves \ Published :
          DrivenOnlyBy(r, e) /\ DrivenOnlyBy(r, f) => command[e] = command[f]
    BY DEF PdoInv
  <2>3. \A e \in Slaves \ Published : Domain(e) = domain_idx => kcmd[e] \in {Zero, command[e]}
    BY <2>1
  <2> QED
    BY <2>1, <2>2, <2>3
<1>4. CASE CheckSlaveState
  BY <1>4 DEF CheckSlaveState
<1>5. CASE RunCleanup
  <2>1. PICK responding \in 0..Responding :
          kcmd' = [e \in Slaves |-> IF Sidx[e] < responding THEN Zero ELSE kcmd[e]]
    BY <1>5 DEF RunCleanup
  <2>2. \A e \in Slaves : kcmd'[e] = Zero \/ kcmd'[e] = kcmd[e]
    BY <2>1
  <2>3. kpc = "check" /\ kpc' = "stopped"
    BY <1>5 DEF RunCleanup
  <2> QED
    BY <2>2, <2>3
<1> QED
  BY <1>1, <1>2, <1>3, <1>4, <1>5 DEF Kernel, KernelLoop

(* What is known of the commands, all of it.                               *)
CommandsInv == CommandInv /\ PdoInv /\ SentInv /\ MessageInv

(* Every step of the system keeps what is known of the commands.           *)
LEMMA CommandsStep ==
  ASSUME TypeOK, TodoOK, ExtExclusive, ShmExclusive, CommandsInv, [Next]_vars
  PROVE  CommandsInv'
<1>0. /\ \A r, c : DrivenOnlyBy(r, c)' = DrivenOnlyBy(r, c) /\ DrivenFromAbove(r)' = DrivenFromAbove(r)
      /\ \A e : Domain(e)' = Domain(e)
  BY DEF DrivenOnlyBy, DrivenFromAbove, Domain, NumDomain
<1>1. CASE RtStepOf
  <2>1. RtThread /\ UNCHANGED <<kcmd, kpc, ktodo, domain_idx, dpc, dtodo>>
    BY <1>1 DEF RtStepOf, kernelVars, dataVars
  <2>2. CommandInv' /\ PdoInv' /\ (pc \notin InStep => command' = command)
    BY <1>1, <2>1, RtThreadCommand, RtThreadPdo DEF CommandsInv
  <2>3. kpc = "exchange" => command' = command
    BY <2>2 DEF ShmExclusive
  <2> QED
    BY <1>0, <2>1, <2>2, <2>3 DEF CommandsInv, SentInv, MessageInv
<1>2. CASE Data
  <2>1. /\ MessageInv'
        /\ InCycle => command' = command
        /\ \A c \in Comps \ Published : command'[c] = command[c]
        /\ UNCHANGED <<pc, todo, drove, pdo, kcmd, kpc, ktodo, domain_idx>>
    BY <1>2, DataCommand DEF CommandsInv
  <2>2. CommandInv'
    BY <1>0, <2>1 DEF CommandsInv, CommandInv, Ends, InCycle, InStep
  <2>3. PdoInv'
    BY <1>0, <2>1 DEF CommandsInv, PdoInv, InCycle, InStep
  <2>4. SentInv'
    BY <1>0, <2>1 DEF CommandsInv, SentInv
  <2> QED
    BY <2>1, <2>2, <2>3, <2>4 DEF CommandsInv
<1>3. CASE Kernel \/ Rpc \/ Service \/ UNCHANGED vars
  <2>1. /\ UNCHANGED <<pc, todo, drove, command, dpc, dtodo>>
        /\ pdo' = pdo \/ pdo' = [e \in Slaves |-> Zero]
        /\ ~Kernel => UNCHANGED <<kcmd, kpc, ktodo, domain_idx>>
    BY <1>3, OthersCommand
  <2>2. CommandInv' /\ MessageInv'
    BY <1>0, <2>1 DEF CommandsInv, CommandInv, MessageInv
  <2>3. PdoInv'
    BY <1>0, <2>1 DEF CommandsInv, PdoInv
  <2>4. SentInv'
    BY <1>0, <2>1, KernelSent DEF CommandsInv, SentInv
  <2> QED
    BY <2>2, <2>3, <2>4 DEF CommandsInv
<1> QED
  BY <1>1, <1>2, <1>3 DEF Next

(* The commands of a cycle, from the message of a client to the slaves,    *)
(* for any components and any way in which they drive each other.          *)
THEOREM CommandsInvariant == Spec => []CommandsInv
<1>1. Init => CommandsInv
  BY DEF Init, RtInit, StartupComponents, CommandsInv, CommandInv, Ends, PdoInv, SentInv, Alike,
     MessageInv
<1>2. TypeOK /\ TodoOK /\ ExtExclusive /\ ShmExclusive /\ CommandsInv /\ [Next]_vars => CommandsInv'
  BY CommandsStep
<1> QED
  BY <1>1, <1>2, TypeCorrect, ExtLockHeld, ShmLockHeld, PTL DEF Spec

(* At the end of a cycle the command pass has brought every command down   *)
(* to the slaves' PDOs, though a component's command is computed, and then *)
(* read, by others in the same pass.                                       *)
THEOREM CommandsOfTheirCycle == Spec => []CommandOfThisCycle
<1>1. CommandsInv => CommandOfThisCycle
  BY DEF CommandsInv, CommandInv, Ends, PdoInv, CommandOfThisCycle
<1> QED
  BY <1>1, CommandsInvariant, PTL

(* The exchange of a domain sends its slaves commands of one cycle, or the *)
(* zero command, wherever the real-time thread and a shutdown are.         *)
THEOREM DomainsWhole == Spec => []DomainSnapshot
<1>1. CommandsInv => DomainSnapshot
  BY DEF CommandsInv, SentInv, Alike, DomainSnapshot
<1> QED
  BY <1>1, CommandsInvariant, PTL
=============================================================================
