------------------------------ MODULE RtSystem ------------------------------
(***************************************************************************)
(* The real-time thread together with everything that runs beside it:      *)
(*   - the EtherCAT kernel module's task (ethercat/m3ec.c, run), which     *)
(*     trades PDOs through the shared memory and paces the cycles;         *)
(*   - the data services (rt_system/rt_data_service.cpp), each a thread    *)
(*     that answers one TCP client;                                        *)
(*   - the RPC thread of the server, which writes component states without *)
(*     any lock (rt_system.cpp SetComponentState..., rt_service.h);        *)
(*   - the request to stop and the components' shutdown that follows it.   *)
(***************************************************************************)
EXTENDS RtStep

CONSTANTS
  Services,     \* data services
  Published,    \* components a client's command message names
  RpcOps,       \* the state-changing calls clients make
  FaultySlaves, \* slaves whose EtherCAT state may change
  Responding,   \* slaves on the bus when the kernel module was loaded
  Sidx,         \* Sidx[e]: the place of slave e on the bus
  NumEcDomain,  \* NUM_EC_DOMAIN: at most so many EtherCAT domains
  MayDrop,      \* a slave may leave the bus
  MayStop       \* the service may ask for a stop

ASSUME SystemAssumption ==
  /\ Published \subseteq Comps
  /\ RpcOps \subseteq {"Op", "SafeOp", "OpAll", "SafeOpAll"}
  /\ FaultySlaves \subseteq Slaves
  /\ Responding \in Nat \ {0} /\ NumEcDomain \in Nat \ {0}
  /\ Sidx \in [Slaves -> 0..(Responding - 1)]
  /\ MayDrop \in BOOLEAN /\ MayStop \in BOOLEAN

(* The module makes as many domains as it needs, and deals the slaves out. *)
NumDomain == IF Responding < NumEcDomain THEN Responding ELSE NumEcDomain
Domain(e) == Sidx[e] % NumDomain

VARIABLES
  \* the kernel module
  kpc,        \* where its task is
  ktodo,      \* slaves of this domain still to be exchanged
  domain_idx,
  kcmd,       \* kcmd[e]: the command in e's domain memory, sent to the slave
  drove,      \* history: components that computed commands in this cycle
  \* the data services
  dpc,        \* dpc[d]: where data service d is
  msg,        \* msg[d]: the command message received, or Zero for none
  dtodo,      \* dtodo[d]: components of the message or reply not yet visited
  reply,      \* reply[d]: the cycles whose status went into the reply
  \* the RPC thread
  rop,        \* the call in progress, or "none"
  rtodo,      \* components it has not visited
  rpassed,    \* the component whose state it has just checked, if any
  \* the service
  svc         \* "up", "stopping", "down"

kernelVars == <<kpc, ktodo, domain_idx, kcmd>>
historyVars == <<drove>>
dataVars == <<dpc, msg, dtodo, reply>>
rpcVars == <<rop, rtodo, rpassed>>
vars == <<rtVars, kernelVars, historyVars, dataVars, rpcVars, svc>>

TypeOK ==
  /\ RtTypeOK
  /\ kpc \in {"wait", "exchange", "check", "stopped"}
  /\ ktodo \subseteq Slaves
  /\ domain_idx \in 0..(NumDomain - 1)
  /\ kcmd \in [Slaves -> Commands]
  /\ drove \subseteq RtComps
  /\ dpc \in [Services -> {"recv", "lock", "parse", "serialize", "write", "dead"}]
  /\ msg \in [Services -> Commands]
  /\ dtodo \in [Services -> SUBSET Comps]
  /\ reply \in [Services -> SUBSET {0, 1}]
  /\ rop \in RpcOps \cup {"none"}
  /\ rtodo \subseteq Comps
  /\ rpassed \in SUBSET Comps
  /\ svc \in {"up", "stopping", "down"}

Init ==
  /\ RtInit
  /\ kpc = "wait" /\ ktodo = {} /\ domain_idx = 0
  /\ kcmd = [e \in Slaves |-> Zero] 
  /\ drove = {}
  /\ dpc = [d \in Services |-> "recv"] /\ msg = [d \in Services |-> Zero]
  /\ dtodo = [d \in Services |-> {}] /\ reply = [d \in Services |-> {}]
  /\ rop = "none" /\ rtodo = {} /\ rpassed = {}
  /\ svc = "up"

-----------------------------------------------------------------------------
(* The real-time thread, with the components that computed a command.      *)
RtStepOf ==
  /\ RtThread
  /\ drove' = CASE pc = "release" -> {}
               [] pc = "rtCommand" ->
                    drove \cup {c \in todo \ todo' : state[c] = "OP"}
               [] OTHER -> drove
  /\ UNCHANGED <<kernelVars, dataVars, rpcVars, svc>>

-----------------------------------------------------------------------------
(* The kernel task: take shm_sem, trade PDOs with the slaves of the        *)
(* current domain, release, signal the RT thread after domain 0, send.     *)
\* Mutant of KernelWait: the shared memory is used without its semaphore.
KernelWaitNot ==
  /\ kpc = "wait"
  /\ ktodo' = {e \in Slaves : Domain(e) = domain_idx}
  /\ kpc' = "exchange"
  /\ UNCHANGED <<compVars, threadVars, semVars, domain_idx, kcmd, historyVars,
                 dataVars, rpcVars, svc>>

KernelWait ==
  /\ kpc = "wait" /\ shm_sem > 0
  /\ shm_sem' = shm_sem - 1
  /\ ktodo' = {e \in Slaves : Domain(e) = domain_idx}
  /\ kpc' = "exchange"
  /\ UNCHANGED <<compVars, threadVars, ext_sem, sync_sem, domain_idx, kcmd,
                 historyVars, dataVars, rpcVars, svc>>

KernelExchange(e) ==
  /\ kpc = "exchange" /\ e \in ktodo
  /\ ktodo' = ktodo \ {e}
  /\ kcmd' = [kcmd EXCEPT ![e] = pdo[e]]
  /\ UNCHANGED <<rtVars, kpc, domain_idx, historyVars, dataVars, rpcVars, svc>>

KernelSignal ==
  /\ kpc = "exchange" /\ ktodo = {}
  /\ shm_sem' = shm_sem + 1
  /\ IF domain_idx = 0
     THEN sync_sem' = IF sync_sem < MaxSync THEN sync_sem + 1 ELSE MaxSync
     ELSE UNCHANGED sync_sem
  /\ domain_idx' = (domain_idx + 1) % NumDomain
  /\ kpc' = "check"
  /\ UNCHANGED <<compVars, threadVars, ext_sem, ktodo, kcmd, historyVars,
                 dataVars, rpcVars, svc>>

(* check_slave_state, every RT_STATUS_FREQUENCY periods: without shm_sem.  *)
CheckSlaveState ==
  /\ kpc = "check"
  /\ ecOk' \in {f \in [Slaves -> BOOLEAN] :
                  \A e \in Slaves : f[e] # ecOk[e] => e \in FaultySlaves}
  /\ kpc' = "wait"
  /\ UNCHANGED <<state, status, command, pdo, threadVars, semVars, ktodo,
                 domain_idx, kcmd, historyVars, dataVars, rpcVars, svc>>

(* check_master_state has seen another number of slaves, or the link come  *)
(* up, and has already written the new number to slaves_responding:        *)
(* run_cleanup zeroes the commands of that many slaves, marks them         *)
(* inactive, and the task ends.                                            *)
RunCleanup ==
  /\ kpc = "check" /\ MayDrop
  /\ \E responding \in 0..Responding :
       /\ kcmd' = [e \in Slaves |-> IF Sidx[e] < responding THEN Zero ELSE kcmd[e]]
       /\ ecOk' = [e \in Slaves |-> ecOk[e] /\ Sidx[e] >= responding]
  /\ kpc' = "stopped"
  /\ UNCHANGED <<state, status, command, pdo, threadVars, semVars, ktodo,
                 domain_idx, historyVars, dataVars, rpcVars, svc>>

KernelLoop ==
  \/ KernelWait \/ (\E e \in Slaves : KernelExchange(e)) \/ KernelSignal
  \/ CheckSlaveState
Kernel == KernelLoop \/ RunCleanup

-----------------------------------------------------------------------------
(* M3RtDataService::Step.  ReadStringFromPort returns a message, empty or  *)
(* with a command for every published component.                           *)
Receive(d) ==
  /\ dpc[d] = "recv" /\ sys_thread_active
  /\ \E m \in Commands : msg' = [msg EXCEPT ![d] = m]
  /\ dpc' = [dpc EXCEPT ![d] = "lock"]
  /\ UNCHANGED <<rtVars, kernelVars, historyVars, dtodo, reply, rpcVars, svc>>

\* Mutant of LockExt: a wait that does not check it got the semaphore.
LockExtUnchecked(d) ==
  /\ dpc[d] = "lock"
  /\ ext_sem' = 0
  /\ dpc' = [dpc EXCEPT ![d] = IF msg[d] # Zero THEN "parse" ELSE "serialize"]
  /\ dtodo' = [dtodo EXCEPT ![d] = IF msg[d] # Zero THEN Published ELSE Comps]
  /\ UNCHANGED <<compVars, threadVars, sync_sem, shm_sem, kernelVars, historyVars,
                 msg, reply, rpcVars, svc>>

LockExt(d) ==
  /\ dpc[d] = "lock" /\ ext_sem = 1
  /\ ext_sem' = 0
  /\ IF msg[d] # Zero
     THEN /\ dpc' = [dpc EXCEPT ![d] = "parse"]
          /\ dtodo' = [dtodo EXCEPT ![d] = Published]
     ELSE /\ dpc' = [dpc EXCEPT ![d] = "serialize"]
          /\ dtodo' = [dtodo EXCEPT ![d] = Comps]
  /\ UNCHANGED <<compVars, threadVars, sync_sem, shm_sem, kernelVars, historyVars,
                 msg, reply, rpcVars, svc>>

(* ParseCommandFromExt, one component of the message at a time; delete c.  *)
ParseCommandFromExt(d) ==
  /\ dpc[d] = "parse"
  /\ \/ \E c \in dtodo[d] :
          /\ command' = [command EXCEPT ![c] = msg[d]]
          /\ dtodo' = [dtodo EXCEPT ![d] = @ \ {c}]
          /\ UNCHANGED <<dpc, msg>>
     \/ /\ dtodo[d] = {}
        /\ msg' = [msg EXCEPT ![d] = Zero]
        /\ dtodo' = [dtodo EXCEPT ![d] = Comps]
        /\ dpc' = [dpc EXCEPT ![d] = "serialize"]
        /\ UNCHANGED command
  /\ UNCHANGED <<state, status, ecOk, pdo, threadVars, semVars, kernelVars,
                 historyVars, reply, rpcVars, svc>>

(* SerializeStatusToExt for a client subscribed to everything, then        *)
(* rt_sem_signal(ext_sem).                                                 *)

\* Mutant of SerializeStatusToExt: the semaphore is given back too early.
SerializeUnlocked(d) ==
  /\ dpc[d] = "serialize"
  /\ ext_sem' = 1
  /\ \/ \E c \in dtodo[d] :
          /\ reply' = [reply EXCEPT ![d] = @ \cup {status[c]}]
          /\ dtodo' = [dtodo EXCEPT ![d] = @ \ {c}]
          /\ UNCHANGED dpc
     \/ /\ dtodo[d] = {}
        /\ dpc' = [dpc EXCEPT ![d] = "write"]
        /\ UNCHANGED <<dtodo, reply>>
  /\ UNCHANGED <<compVars, threadVars, sync_sem, shm_sem, kernelVars, historyVars,
                 msg, rpcVars, svc>>

SerializeStatusToExt(d) ==
  /\ dpc[d] = "serialize"
  /\ \/ \E c \in dtodo[d] :
          /\ reply' = [reply EXCEPT ![d] = @ \cup {status[c]}]
          /\ dtodo' = [dtodo EXCEPT ![d] = @ \ {c}]
          /\ UNCHANGED <<dpc, ext_sem>>
     \/ /\ dtodo[d] = {}
        /\ ext_sem' = 1
        /\ dpc' = [dpc EXCEPT ![d] = "write"]
        /\ UNCHANGED <<dtodo, reply>>
  /\ UNCHANGED <<compVars, threadVars, sync_sem, shm_sem, kernelVars, historyVars,
                 msg, rpcVars, svc>>

(* WriteStringToPort: done, or the connection is broken and the thread     *)
(* ends with data_thread_error.                                            *)
Write(d) ==
  /\ dpc[d] = "write"
  /\ dpc' = [dpc EXCEPT ![d] = "recv"]
  /\ reply' = [reply EXCEPT ![d] = {}]
  /\ UNCHANGED <<rtVars, kernelVars, historyVars, msg, dtodo, rpcVars, svc>>

HangUp(d) ==
  /\ dpc[d] \in {"recv", "write"} /\ sys_thread_active
  /\ dpc' = [dpc EXCEPT ![d] = "dead"]
  /\ reply' = [reply EXCEPT ![d] = {}]
  /\ UNCHANGED <<rtVars, kernelVars, historyVars, msg, dtodo, rpcVars, svc>>

DataStep(d) ==
  LockExt(d) \/ ParseCommandFromExt(d) \/ SerializeStatusToExt(d) \/ Write(d)
Data == \E d \in Services : Receive(d) \/ DataStep(d) \/ HangUp(d)

-----------------------------------------------------------------------------
(* The RPC thread.  It reads a component's state and writes it in two      *)
(* steps with nothing held in between.                                     *)
RpcCall(op) ==
  /\ rop = "none" /\ sys_thread_active /\ svc = "up"
  /\ op \in RpcOps
  /\ rop' = op
  /\ IF op \in {"Op", "SafeOp"} THEN \E c \in Comps : rtodo' = {c}
                                ELSE rtodo' = Comps
  /\ UNCHANGED <<rtVars, kernelVars, historyVars, dataVars, rpassed, svc>>

(* SetComponentStateOp(idx) looks at safeop_required and for SAFEOP; every *)
(* other call, the "All" calls included, only for ERR.                     *)
RpcAllowed(op, c) ==
  IF op = "Op" THEN ~safeop_required /\ state[c] = "SAFEOP"
  ELSE state[c] # "ERR"

RpcCheck(c) ==
  /\ rop # "none" /\ rpassed = {} /\ c \in rtodo
  /\ rtodo' = rtodo \ {c}
  /\ rpassed' = IF RpcAllowed(rop, c) THEN {c} ELSE {}
  /\ UNCHANGED <<rtVars, kernelVars, historyVars, dataVars, rop, svc>>

(* rt_service.h: SetComponentStateSafeOpAll calls SetComponentStateOpAll.  *)
RpcTarget(op) == IF op = "SafeOp" THEN "SAFEOP" ELSE "OP"

RpcWrite(c) ==
  /\ c \in rpassed
  /\ state' = [state EXCEPT ![c] = RpcTarget(rop)]
  /\ rpassed' = {}
  /\ UNCHANGED <<status, command, ecOk, pdo, threadVars, semVars, kernelVars,
                 historyVars, dataVars, rop, rtodo, svc>>

RpcReturn ==
  /\ rop # "none" /\ rtodo = {} /\ rpassed = {}
  /\ rop' = "none"
  /\ UNCHANGED <<rtVars, kernelVars, historyVars, dataVars, rtodo, rpassed, svc>>

RpcStep == (\E c \in Comps : RpcCheck(c) \/ RpcWrite(c)) \/ RpcReturn
Rpc == (\E op \in RpcOps : RpcCall(op)) \/ RpcStep

-----------------------------------------------------------------------------
(* M3RtSystem::Shutdown as far as its wait succeeds: the request, and the  *)
(* components' shutdown once the thread is seen inactive.  After a failed  *)
(* dry run it is the attaching call that asks for it.                      *)
RequestStop ==
  /\ svc = "up"
  /\ (MayStop /\ sys_thread_active) \/ pc = "end"
  /\ sys_thread_end' = TRUE
  /\ svc' = "stopping"
  /\ UNCHANGED <<compVars, pc, todo, cycle, dry_run, ret_step, ntrialsmin,
                 safeop_only, over_step_cnt, safeop_required,
                 sys_thread_active, semVars, kernelVars, historyVars, dataVars,
                 rpcVars>>

Shutdown ==
  /\ svc = "stopping" /\ ~sys_thread_active
  /\ ShutdownComponents
  /\ svc' = "down"
  /\ UNCHANGED <<threadVars, semVars, kernelVars, historyVars, dataVars, rpcVars>>

Service == RequestStop \/ Shutdown

-----------------------------------------------------------------------------
Next == RtStepOf \/ Kernel \/ Data \/ Rpc \/ Service

Spec == Init /\ [][Next]_vars
(* Semaphores hand over to the task that has waited longest (all tasks of  *)
(* the system have RTAI priority 0), so whoever waits for one that is      *)
(* released again and again gets it.  The real-time thread and the kernel  *)
(* task are periodic; clients and faults promise nothing.                  *)
Fairness ==
  /\ WF_vars(RtStepOf)
  /\ SF_vars(RtStepOf /\ pc = "ext") /\ SF_vars(RtStepOf /\ pc = "shm")
  /\ WF_vars(Kernel) /\ SF_vars(KernelWait)
  /\ \A d \in Services : WF_vars(DataStep(d)) /\ SF_vars(LockExt(d))
  /\ WF_vars(RpcStep) /\ WF_vars(Shutdown)

FairSpec == Spec /\ Fairness

-----------------------------------------------------------------------------
(* Safety.                                                                 *)

InCycle == pc \in {"sync", "shm"} \cup InStep
Serving(d) == dpc[d] \in {"parse", "serialize"}

(* The External Data Service is blocked for the whole of a cycle, and one  *)
(* data service while another is in: whoever holds ext_sem is alone, and   *)
(* the semaphore is free exactly when nobody is in.                        *)
ExtExclusive ==
  /\ ext_sem = 0 <=> (InCycle \/ \E d \in Services : Serving(d))
  /\ \A d \in Services : Serving(d) => ~InCycle
  /\ \A c, d \in Services : Serving(c) /\ Serving(d) => c = d

(* The real-time thread and the kernel module's task are never both in the *)
(* shared memory, and its semaphore is free exactly when neither is.       *)
ShmExclusive ==
  /\ shm_sem \in {0, 1}
  /\ shm_sem = 0 <=> (pc \in InStep \/ kpc = "exchange")
  /\ ~(pc \in InStep /\ kpc = "exchange")

(* Outside the passes of Step, an error some component has is latched: no  *)
(* cycle begins with an error that SetComponentStateOp does not see.       *)
ErrorLatched ==
  sys_thread_active /\ AnyError /\ safeop_required = FALSE
    => pc \in {"ecStatus", "rtStatus", "rtCommand", "ecCommand", "check"}

(* The strengthening that makes ErrorLatched inductive: the flags and the  *)
(* argument of Step follow the program counter, and a good dry cycle has   *)
(* seen no error.                                                          *)
LatchInv ==
  /\ pc \in {"start", "dry", "dryRet", "enter"} => ~sys_thread_active
  /\ pc \in {"loop", "ret"} => sys_thread_active
  /\ pc = "ext" \/ InCycle => (dry_run <=> ~sys_thread_active)
  /\ pc \in {"start", "enter"} => (AnyError => safeop_required)
  /\ KernelSync /\ pc = "enter" => ~AnyError /\ ~safeop_required
  /\ (pc = "release" /\ dry_run) \/ pc = "dryRet"
       => (ret_step => ~AnyError /\ ~safeop_required)
  /\ ErrorLatched

(* The loop is entered from a dry run without errors only, although every  *)
(* dry cycle forgets the errors of the one before.                         *)
CleanEntry ==
  KernelSync /\ pc = "enter" => ~AnyError /\ ~safeop_required

DrivenOnlyBy(r, e) ==
  e \in Drives[r] /\ \A q \in RtComps \ {r} : e \notin Drives[q]
DrivenFromAbove(r) ==
  \A q \in RtComps \ {r} : r \in Drives[q] => Priority[r] < Priority[q]

(* One cycle from the client to the slave: when a cycle ends, every        *)
(* component that computed a command in it, and is driven by components of *)
(* higher priority only, left the command of the newest message in the     *)
(* components below it, through any number of them, and a slave's PDO      *)
(* holds its component's command or zero.                                  *)
CommandOfThisCycle ==
  pc = "release" =>
    /\ \A r \in drove : \A c \in Comps :
         DrivenOnlyBy(r, c) /\ DrivenFromAbove(r) => command[c] = command[r]
    /\ \A e \in Slaves : pdo[e] \in {Zero, command[e]}

(* The kernel module never sends the slaves of one domain commands of      *)
(* different cycles.                                                       *)
DomainSnapshot ==
  kpc = "check" =>
    \A r \in RtComps : \A e, f \in Slaves \ Published :
      DrivenOnlyBy(r, e) /\ DrivenOnlyBy(r, f) /\ Domain(e) = Domain(f)
        => kcmd[e] = kcmd[f] \/ Zero \in {kcmd[e], kcmd[f]}

(* All the status of a reply is of one cycle.                              *)
ReplyOfOneCycle ==
  \A d \in Services : dpc[d] = "write" => Cardinality(reply[d]) <= 1

-----------------------------------------------------------------------------
(* What a step may never do.                                               *)

(* component.h: ERR is "a non-recoverable error".                          *)
ErrorIsFinal ==
  [][\A c \in Comps : state[c] = "ERR" => state'[c] = "ERR"]_vars

(* Once the loop runs, safeop_required is never taken back.                *)
SafeopLatched ==
  [][sys_thread_active /\ safeop_required => safeop_required']_vars

-----------------------------------------------------------------------------
(* Liveness.                                                               *)

(* A slave whose component is in error ends up with the zero command, for  *)
(* good, whether the system keeps running or is stopped.                   *)
ErrorStopsSlave ==
  \A e \in Slaves : (state[e] = "ERR") ~> [](kcmd[e] = Zero)

(* Every request a data service has received is answered.                  *)
RequestAnswered ==
  \A d \in Services : (dpc[d] = "lock") ~> (dpc[d] = "write")

(* A stop request ends the thread, and the components are shut down.       *)
StopCompletes == (svc = "stopping") ~> (svc = "down")
=============================================================================
