------------------------------- MODULE RtStep -------------------------------
(***************************************************************************)
(* The real-time thread of rt_system/rt_system.cpp: rt_system_thread with  *)
(* its dry run and its loop, and M3RtSystem::Step broken at every point    *)
(* where another thread can be seen or can see it: the three semaphores,   *)
(* one component's step, the check of the component states, the release.   *)
(*                                                                         *)
(* Logging is in RtLog (here log_service is NULL); the timing statistics of *)
(* M3MonitorStatus are left out.                                           *)
(***************************************************************************)
EXTENDS M3Component

CONSTANTS
  KernelSync,   \* built for RTAI without __NO_KERNEL_SYNC__
  MinTrials,    \* ntrialsmin: dry-run cycles before success counts (500)
  MaxOverrun,   \* overruns before the thread gives up hard real time (5000)
  MaxSync       \* bound: sync_sem is counted up to here

ASSUME RtStepAssumption ==
  /\ KernelSync \in BOOLEAN
  /\ MinTrials \in Nat /\ MaxOverrun \in Nat
  /\ MaxSync \in Nat \ {0}

VARIABLES
  pc,                \* where the real-time thread is
  todo,              \* components the current pass of Step has not visited
  cycle,             \* parity of step_cnt
  dry_run,           \* argument of the Step in progress
  ret_step,          \* what Step returned
  ntrialsmin,        \* dry-run cycles still to make
  safeop_only,       \* "safe real time": the loop has overrun too often
  over_step_cnt,
  safeop_required,
  sys_thread_end,
  sys_thread_active,
  ext_sem,           \* M3LEXT, binary
  sync_sem,          \* M3SYNC: signalled by the kernel module every cycle
  shm_sem            \* M3LSHM: shared memory of the kernel module

threadVars == <<pc, todo, cycle, dry_run, ret_step, ntrialsmin, safeop_only,
                over_step_cnt, safeop_required, sys_thread_end,
                sys_thread_active>>
semVars == <<ext_sem, sync_sem, shm_sem>>
rtVars == <<compVars, threadVars, semVars>>

InStep == {"mark", "ecStatus", "rtStatus", "rtCommand", "ecCommand", "check",
           "release"}
PCs == {"start", "dry", "dryRet", "enter", "loop", "ext", "sync", "shm", "ret",
        "end"} \cup InStep

RtTypeOK ==
  /\ ComponentTypeOK
  /\ pc \in PCs
  /\ todo \subseteq Comps
  /\ cycle \in {0, 1}
  /\ dry_run \in BOOLEAN /\ ret_step \in BOOLEAN /\ safeop_only \in BOOLEAN
  /\ ntrialsmin \in Nat /\ over_step_cnt \in Nat
  /\ safeop_required \in BOOLEAN
  /\ sys_thread_end \in BOOLEAN /\ sys_thread_active \in BOOLEAN
  /\ ext_sem \in {0, 1} /\ sync_sem \in Nat /\ shm_sem \in Nat

AnyError == \E c \in Comps : state[c] = "ERR"

-----------------------------------------------------------------------------
(* M3RtSystem::Startup has run StartupComponents (EC components are in     *)
(* SAFEOP, any other may have failed, CheckComponentStates has seen it)    *)
(* and has just created the thread.  The kernel module has been signalling *)
(* sync_sem since it was loaded.                                           *)
StartupComponents ==
  /\ state \in {f \in [Comps -> {"SAFEOP", "ERR"}] :
                  \A c \in Comps : f[c] = "ERR" => c \in RtComps \cap Faulty}
  /\ status = [c \in Comps |-> 0]
  /\ command = [c \in Comps |-> Zero]
  /\ ecOk = [e \in Slaves |-> TRUE]
  /\ pdo = [e \in Slaves |-> Zero]
  /\ safeop_required = AnyError

RtInit ==
  /\ StartupComponents
  /\ pc = "start" /\ todo = {} /\ cycle = 0
  /\ dry_run = FALSE /\ ret_step = TRUE /\ ntrialsmin = MinTrials
  /\ safeop_only = FALSE /\ over_step_cnt = 0
  /\ sys_thread_end = FALSE /\ sys_thread_active = FALSE
  /\ ext_sem = 1 /\ sync_sem \in 0..MaxSync /\ shm_sem = 1

(* Entry of rt_system_thread, and the choice its #ifdef makes, unless the  *)
(* real-time task cannot be created or made periodic.                      *)
ThreadStart ==
  /\ pc = "start"
  /\ sys_thread_end' = FALSE
  /\ pc' \in {IF KernelSync THEN "dry" ELSE "enter", "end"}
  /\ UNCHANGED <<compVars, semVars, todo, cycle, dry_run, ret_step, ntrialsmin,
                 safeop_only, over_step_cnt, safeop_required,
                 sys_thread_active>>

(* One call of Step(so, dry): step_cnt++, then rt_sem_wait(ext_sem).       *)
CallStep(dry) ==
  /\ pc' = "ext"
  /\ dry_run' = dry
  /\ cycle' = 1 - cycle

(* Top of the dry-run loop: a stop request ends the thread.                *)
DryTop ==
  /\ pc = "dry"
  /\ \/ sys_thread_end /\ pc' = "end" /\ UNCHANGED <<dry_run, cycle>>
     \/ ~sys_thread_end /\ CallStep(TRUE)
  /\ UNCHANGED <<compVars, semVars, todo, ret_step, ntrialsmin, safeop_only,
                 over_step_cnt, safeop_required, sys_thread_end,
                 sys_thread_active>>

(* M3RtSystem::SetComponentStateOpAll as the real-time thread calls it.    *)
SetComponentStateOpAll == [c \in Comps |-> SetStateOp(state[c])]

(* The rest of a dry-run iteration.  A failed cycle tries to bring every   *)
(* component to OP, a good one ends the dry run once the trials are used   *)
(* up, and four seconds end it in any case, as a failure.                  *)

\* Mutant of DryReturn: the trials are looked at before the result.
DryReturnTrialsFirst ==
  /\ pc = "dryRet"
  /\ state' = IF ret_step THEN state ELSE SetComponentStateOpAll
  /\ \/ ntrialsmin = 0 /\ pc' = "enter" /\ UNCHANGED ntrialsmin
     \/ ntrialsmin > 0 /\ pc' = "dry" /\ ntrialsmin' = ntrialsmin - 1
  /\ UNCHANGED <<status, command, ecOk, pdo, semVars, todo, cycle, dry_run,
                 ret_step, safeop_only, over_step_cnt, safeop_required,
                 sys_thread_end, sys_thread_active>>

DryReturn ==
  /\ pc = "dryRet"
  /\ state' = IF ret_step THEN state ELSE SetComponentStateOpAll
  /\ \/ ret_step /\ ntrialsmin = 0 /\ pc' = "enter" /\ UNCHANGED ntrialsmin
     \/ /\ ~(ret_step /\ ntrialsmin = 0)
        /\ \/ pc' = "end" /\ UNCHANGED ntrialsmin            \* timed out
           \/ pc' = "dry" /\ ntrialsmin' = IF ntrialsmin = 0 THEN 0
                                           ELSE ntrialsmin - 1
  /\ UNCHANGED <<status, command, ecOk, pdo, semVars, todo, cycle, dry_run,
                 ret_step, safeop_only, over_step_cnt, safeop_required,
                 sys_thread_end, sys_thread_active>>

(* "Entering realtime loop": the thread shows itself active.               *)
EnterLoop ==
  /\ pc = "enter"
  /\ over_step_cnt' = 0
  /\ sys_thread_end' = FALSE
  /\ sys_thread_active' = TRUE
  /\ pc' = "loop"
  /\ UNCHANGED <<compVars, semVars, todo, cycle, dry_run, ret_step, ntrialsmin,
                 safeop_only, safeop_required>>

\* Mutant of LoopTop: the loop looks at the wrong flag.
LoopTopDeaf ==
  /\ pc = "loop"
  /\ sys_thread_active /\ CallStep(FALSE)
  /\ UNCHANGED <<compVars, semVars, todo, ret_step, ntrialsmin, safeop_only,
                 over_step_cnt, safeop_required, sys_thread_end,
                 sys_thread_active>>

(* Top of the real-time loop.                                              *)
LoopTop ==
  /\ pc = "loop"
  /\ \/ /\ sys_thread_end
        /\ pc' = "end" /\ sys_thread_active' = FALSE
        /\ UNCHANGED <<dry_run, cycle>>
     \/ ~sys_thread_end /\ CallStep(FALSE) /\ UNCHANGED sys_thread_active
  /\ UNCHANGED <<compVars, semVars, todo, ret_step, ntrialsmin, safeop_only,
                 over_step_cnt, safeop_required, sys_thread_end>>

-----------------------------------------------------------------------------
(* Step: the three waits, in the order of the code.                        *)
WaitExt ==
  /\ pc = "ext" /\ ext_sem = 1
  /\ ext_sem' = 0
  /\ pc' = IF KernelSync THEN "sync" ELSE "shm"
  /\ UNCHANGED <<compVars, sync_sem, shm_sem, todo, cycle, dry_run, ret_step,
                 ntrialsmin, safeop_only, over_step_cnt, safeop_required,
                 sys_thread_end, sys_thread_active>>

WaitSync ==
  /\ pc = "sync" /\ sync_sem > 0
  /\ sync_sem' = sync_sem - 1
  /\ pc' = "shm"
  /\ UNCHANGED <<compVars, ext_sem, shm_sem, todo, cycle, dry_run, ret_step,
                 ntrialsmin, safeop_only, over_step_cnt, safeop_required,
                 sys_thread_end, sys_thread_active>>

\* Mutant of WaitShm: a wait that does not check it got the semaphore.
WaitShmUnchecked ==
  /\ pc = "shm"
  /\ shm_sem' = IF shm_sem > 0 THEN shm_sem - 1 ELSE 0
  /\ pc' = "mark"
  /\ UNCHANGED <<compVars, ext_sem, sync_sem, todo, cycle, dry_run, ret_step,
                 ntrialsmin, safeop_only, over_step_cnt, safeop_required,
                 sys_thread_end, sys_thread_active>>

WaitShm ==
  /\ pc = "shm" /\ shm_sem > 0
  /\ shm_sem' = shm_sem - 1
  /\ pc' = "mark"
  /\ UNCHANGED <<compVars, ext_sem, sync_sem, todo, cycle, dry_run, ret_step,
                 ntrialsmin, safeop_only, over_step_cnt, safeop_required,
                 sys_thread_end, sys_thread_active>>

(* The safeop_only pass over the components in error, then the passes of   *)
(* Step over the components begin.                                         *)
Mark ==
  /\ pc = "mark"
  /\ state' = IF safeop_only
              THEN [c \in Comps |-> IF state[c] # "ERR" THEN state[c]
                                    ELSE IF dry_run THEN SetStateOp(state[c])
                                         ELSE SetStateSafeOp(state[c])]
              ELSE state
  /\ todo' = EcComps /\ pc' = "ecStatus"
  /\ UNCHANGED <<status, command, ecOk, pdo, semVars, cycle, dry_run, ret_step,
                 ntrialsmin, safeop_only, over_step_cnt, safeop_required,
                 sys_thread_end, sys_thread_active>>

(* A pass visits the components of `all' in the order `first', doing       *)
(* `Visit' to each; the pass `next' over `nextAll' follows.                *)
StepUnchanged ==
  UNCHANGED <<semVars, cycle, dry_run, ret_step, ntrialsmin, safeop_only,
              over_step_cnt, safeop_required, sys_thread_end,
              sys_thread_active>>

NextPass(here, next, nextAll) ==
  /\ pc = here /\ todo = {}
  /\ pc' = next /\ todo' = nextAll
  /\ UNCHANGED compVars /\ StepUnchanged

EcStatusPass ==
  \/ \E c \in todo : /\ pc = "ecStatus" /\ FirstUp(c, todo)
                     /\ EcStepStatus(c, cycle)
                     /\ todo' = todo \ {c} /\ pc' = pc /\ StepUnchanged
  \/ NextPass("ecStatus", "rtStatus", RtComps)

RtStatusPass ==
  \/ \E c \in todo : /\ pc = "rtStatus" /\ FirstUp(c, todo)
                     /\ RtStepStatus(c, cycle)
                     /\ todo' = todo \ {c} /\ pc' = pc /\ StepUnchanged
  \/ NextPass("rtStatus", "rtCommand", RtComps)

RtCommandPass ==
  \/ \E c \in todo : /\ pc = "rtCommand" /\ FirstDown(c, todo)
                     /\ RtStepCommand(c)
                     /\ todo' = todo \ {c} /\ pc' = pc /\ StepUnchanged
  \/ NextPass("rtCommand", "ecCommand", EcComps)

EcCommandPass ==
  \/ \E c \in todo : /\ pc = "ecCommand" /\ FirstDown(c, todo)
                     /\ EcStepCommand(c)
                     /\ todo' = todo \ {c} /\ pc' = pc /\ StepUnchanged
  \/ NextPass("ecCommand", "check", {})

(* CheckComponentStates.  The first error latches safeop_required; the     *)
(* component in error is the only one sent to SAFEOP, which SetStateSafeOp *)
(* refuses.  In a dry run Step clears the latch again, to "give it another *)
(* chance", and reports failure.                                           *)
CheckedStates ==
  [c \in Comps |-> IF ~safeop_required /\ state[c] = "ERR"
                   THEN SetStateSafeOp(state[c]) ELSE state[c]]

\* Mutants of Check: the latch is cleared outside the dry run too; the EC
\* components are not looked at.
CheckForgetful ==
  /\ pc = "check"
  /\ safeop_required' = (AnyError /\ ~safeop_required /\ ~dry_run)
  /\ ret_step' = ~((safeop_required \/ AnyError) /\ dry_run)
  /\ state' = CheckedStates
  /\ pc' = "release"
  /\ UNCHANGED <<status, command, ecOk, pdo, semVars, todo, cycle, dry_run,
                 ntrialsmin, safeop_only, over_step_cnt, sys_thread_end,
                 sys_thread_active>>

CheckRtOnly ==
  /\ pc = "check"
  /\ LET latched == safeop_required \/ \E c \in RtComps : state[c] = "ERR"
     IN  /\ safeop_required' = (latched /\ ~dry_run)
         /\ ret_step' = ~(latched /\ dry_run)
  /\ state' = CheckedStates
  /\ pc' = "release"
  /\ UNCHANGED <<status, command, ecOk, pdo, semVars, todo, cycle, dry_run,
                 ntrialsmin, safeop_only, over_step_cnt, sys_thread_end,
                 sys_thread_active>>

Check ==
  /\ pc = "check"
  /\ LET latched == safeop_required \/ AnyError
     IN  /\ safeop_required' = (latched /\ ~dry_run)
         /\ ret_step' = ~(latched /\ dry_run)
  /\ state' = CheckedStates
  /\ pc' = "release"
  /\ UNCHANGED <<status, command, ecOk, pdo, semVars, todo, cycle, dry_run,
                 ntrialsmin, safeop_only, over_step_cnt, sys_thread_end,
                 sys_thread_active>>

\* Mutant of Release: an early return on error keeps ext_sem.
ReleaseEarlyReturn ==
  /\ pc = "release"
  /\ shm_sem' = shm_sem + 1
  /\ ext_sem' = IF safeop_required THEN ext_sem ELSE 1
  /\ pc' = IF dry_run THEN "dryRet" ELSE "ret"
  /\ UNCHANGED <<compVars, sync_sem, todo, cycle, dry_run, ret_step,
                 ntrialsmin, safeop_only, over_step_cnt, safeop_required,
                 sys_thread_end, sys_thread_active>>

(* rt_sem_signal(shm_sem); rt_sem_signal(ext_sem); return.                 *)
Release ==
  /\ pc = "release"
  /\ shm_sem' = shm_sem + 1
  /\ ext_sem' = 1
  /\ pc' = IF dry_run THEN "dryRet" ELSE "ret"
  /\ UNCHANGED <<compVars, sync_sem, todo, cycle, dry_run, ret_step,
                 ntrialsmin, safeop_only, over_step_cnt, safeop_required,
                 sys_thread_end, sys_thread_active>>

(* The loop after Step: overruns are counted up and down, and more than    *)
(* MaxOverrun of them switch to safe real time for good.                   *)
Overrun ==
  IF over_step_cnt + 1 > MaxOverrun
  THEN over_step_cnt' = 0 /\ safeop_only' = TRUE
  ELSE over_step_cnt' = over_step_cnt + 1 /\ UNCHANGED safeop_only

\* Mutant of InTime: the count is not tested before it goes down.
InTimeBelowZero == over_step_cnt' = over_step_cnt - 1 /\ UNCHANGED safeop_only

InTime ==
  /\ over_step_cnt' = IF over_step_cnt > 0 THEN over_step_cnt - 1 ELSE 0
  /\ UNCHANGED safeop_only

LoopReturn ==
  /\ pc = "ret"
  /\ IF ret_step
     THEN /\ Overrun \/ InTime
          /\ pc' = "loop" /\ UNCHANGED sys_thread_active
     ELSE /\ pc' = "end" /\ sys_thread_active' = FALSE
          /\ UNCHANGED <<over_step_cnt, safeop_only>>
  /\ UNCHANGED <<compVars, semVars, todo, cycle, dry_run, ret_step, ntrialsmin,
                 safeop_required, sys_thread_end>>

RtThread ==
  \/ ThreadStart \/ DryTop \/ DryReturn \/ EnterLoop \/ LoopTop
  \/ WaitExt \/ WaitSync \/ WaitShm \/ Mark
  \/ EcStatusPass \/ RtStatusPass \/ RtCommandPass \/ EcCommandPass
  \/ Check \/ Release \/ LoopReturn
=============================================================================
