----------------------- MODULE FirmwareUpdate_proofs -----------------------
(***************************************************************************)
(* Theorems about the check of the bus and the firmware update, for any    *)
(* bus, any number of looks and of slaves set.                             *)
(***************************************************************************)
EXTENDS FirmwareUpdate, FiniteSetTheorems, TLAPS

(***************************************************************************)
(* The inductive invariants.                                               *)
(***************************************************************************)
\* The counts of the check, one command each: o before PREOP is taken off it, and
\* the looks, which start anew after a restart.
CountsInOrder ==
  /\ at = "preop_too" => o \in 0..Cardinality(Slaves)
  /\ at \in {"look", "ie_again", "p_again", "ni_again"} => look \in 0..Looks
  /\ at \in {"n", "ni", "ie", "p", "op", "preop_too", "wait"} => look = 0
  /\ at = "p_last" => look \in 0..(Waits - 1)

\* The tool starts after the check has come to its verdict, and the bus is taken
\* to be disturbed from then on.
CheckFirst == pc # "check" => at = "preop" /\ disturbed

\* What the check has seen is still so as long as nothing has disturbed the bus: as
\* many slaves are in PREOP as it has counted, unless the master has been restarted
\* since, and those are as many as were listed when it says so.
PreopSeen ==
  /\ ~disturbed /\ at \notin {"wait", "p_last"} => p <= get_num_slaves_preop
  /\ ~disturbed /\ at = "preop" => p = n

\* A slave that the tool no longer knows of has its own EEPROM, but for those it
\* has forgotten or missed.
Clean == \A s \in Slaves \ (missed \cup forgotten) : eeprom[s] = "own"

\* From the choice of a slave to the start of its boot loader the tool has the
\* slave's file, and the slave is given the boot loader's EEPROM.
Preparing == {"cycle_bld", "hub_bld", "load", "startup"}
Restoring == {"cycle_own", "hub_own"}
FileOfSlave ==
  /\ eeprom_filename # None => slave_id = eeprom_filename
  /\ pc \in {"overwrite"} \cup Preparing \cup Restoring => eeprom_filename # None
  /\ pc = "overwrite" => al[slave_id] # "OFF"
  /\ pc \in Preparing => eeprom[slave_id] = "bld"

\* When the slave is to be chosen, or its EEPROM has been written back, there is
\* nothing left that the tool owes; it owes nothing at the exit.
CleanFirst == pc \in {"ask_slave", "overwrite", "exited"} \cup Restoring => Clean

\* In the menu, a boot loader that is open is that of the slave being set.
OpenBootloader ==
  /\ pc \in {"check", "open"} => ~bld
  /\ pc = "startup" => kmod
  /\ pc = "menu" /\ bld =>
       /\ connected = eeprom_filename /\ eeprom_filename # None
       /\ kmod /\ booted[connected] = "bld" /\ eeprom[connected] = "bld"

\* A restore that belongs to the end comes after the kernel module has been removed.
RemovedFirst ==
  /\ pc \in {"restore"} \cup Restoring /\ caller # "set" => ~kmod
  /\ pc = "exited" => ~kmod

\* The parts about the tool, as a whole.
ToolInv == RestoreKnown /\ FileOfSlave /\ CleanFirst /\ OpenBootloader /\ RemovedFirst

(***************************************************************************)
(* The counts.                                                             *)
(***************************************************************************)
(* A count is a number up to that of the slaves, and is that of the slaves *)
(* exactly when all of them are counted.                                   *)
LEMMA GrepCounts ==
  ASSUME NEW states
  PROVE  /\ Grep(states) \in 0..Cardinality(Slaves)
         /\ Grep(states) = Cardinality(Slaves) <=> \A s \in Slaves : al[s] \in states
<1> DEFINE counted == {s \in Slaves : al[s] \in states}
<1>1. IsFiniteSet(Slaves) /\ Cardinality(Slaves) \in Nat
  BY BusAssumption, FS_CardinalityType
<1>2. counted \in SUBSET Slaves
  OBVIOUS
<1>3. /\ IsFiniteSet(counted) /\ Cardinality(counted) <= Cardinality(Slaves)
      /\ Cardinality(Slaves) = Cardinality(counted) => Slaves = counted
  <2> HIDE DEF counted
  <2> QED
    BY <1>1, <1>2, FS_Subset
<1>4. Cardinality(counted) \in Nat
  <2> HIDE DEF counted
  <2> QED
    BY <1>3, FS_CardinalityType
<1>5. Grep(states) = Cardinality(counted)
  BY DEF Grep
<1>6. Grep(states) \in 0..Cardinality(Slaves)
  <2> HIDE DEF counted
  <2> QED
    BY <1>1, <1>3, <1>4, <1>5
<1>7. ASSUME \A s \in Slaves : al[s] \in states  PROVE Grep(states) = Cardinality(Slaves)
  <2>1. counted = Slaves
    BY <1>7
  <2> QED
    BY <2>1, <1>5
<1>8. ASSUME Grep(states) = Cardinality(Slaves)  PROVE \A s \in Slaves : al[s] \in states
  <2>1. Slaves = counted
    BY <1>3, <1>5, <1>8
  <2> QED
    BY <2>1
<1> QED
  BY <1>6, <1>7, <1>8

(* There is a slave, so that no count is zero and of all of them.          *)
LEMMA SlavesCounted == Cardinality(Slaves) \in Nat /\ Cardinality(Slaves) # 0
  BY BusAssumption, FS_CardinalityType, FS_EmptySet

(* The check keeps its counts to their types and in their order.           *)
LEMMA BusInitType ==
  BusTypeOK /\ CountsInOrder /\ ethercat_bus_init => BusTypeOK' /\ CountsInOrder'
<1> SUFFICES ASSUME BusTypeOK, CountsInOrder, ethercat_bus_init
             PROVE  BusTypeOK' /\ CountsInOrder'
  OBVIOUS
<1> DEFINE N == Cardinality(Slaves)
<1>1. /\ get_num_slaves \in 0..N /\ get_num_slaves_not_init_yet \in 0..N
      /\ get_num_slaves_init_e \in 0..N /\ get_num_slaves_preop \in 0..N
      /\ Grep({"PREOP", "OP"}) \in 0..N
  BY GrepCounts DEF get_num_slaves, get_num_slaves_not_init_yet, get_num_slaves_init_e,
                    get_num_slaves_preop
<1>2. N \in Nat /\ Looks \in Nat \ {0} /\ Waits \in Nat \ {0}
  BY SlavesCounted, BusAssumption
<1> HIDE DEF N
<1>3. /\ al \in [Slaves -> AlStates] /\ eeprom \in [Slaves -> Configs] /\ booted \in [Slaves -> Configs]
      /\ kmod \in BOOLEAN /\ open \in BOOLEAN /\ disturbed \in BOOLEAN
      /\ n \in 0..N /\ ni \in 0..N /\ ie \in 0..N /\ p \in 0..N /\ o \in -N..N
      /\ look \in 0..(Looks + Waits)
  BY DEF BusTypeOK, N
<1> DEFINE Counted ==
      /\ n' \in 0..N /\ ni' \in 0..N /\ ie' \in 0..N /\ p' \in 0..N /\ o' \in -N..N
      /\ look' \in 0..(Looks + Waits)
<1>4. ASSUME UNCHANGED <<eeprom, booted, kmod, open, disturbed>>, al' \in [Slaves -> AlStates],
             Counted, CountsInOrder',
             at' \in {"n", "ni", "ie", "p", "op", "preop_too", "look", "ie_again", "p_again",
                      "ni_again", "wait", "p_last"} \cup Verdicts
      PROVE  BusTypeOK' /\ CountsInOrder'
  BY <1>3, <1>4 DEF BusTypeOK, N
<1>a. CASE CountAll \/ CountScan \/ CountErrors \/ CountPreop
  <2>1. Counted /\ CountsInOrder'
    BY <1>1, <1>2, <1>3, <1>a DEF CountAll, CountScan, CountErrors, CountPreop, Step, CountsInOrder
  <2> QED
    BY <2>1, <1>a, <1>3, <1>4 DEF CountAll, CountScan, CountErrors, CountPreop, Step, bus
<1>b. CASE GrepOp \/ TakePreopOff
  <2>1. Counted /\ CountsInOrder'
    BY <1>1, <1>2, <1>3, <1>b DEF GrepOp, TakePreopOff, Step, CountsInOrder, N
  <2> QED
    BY <2>1, <1>b, <1>3, <1>4 DEF GrepOp, TakePreopOff, Step, bus
<1>c. CASE CountErrorsAgain \/ CountPreopAgain \/ CountScanAgain
  <2>1. Counted /\ CountsInOrder'
    BY <1>1, <1>2, <1>3, <1>c DEF CountErrorsAgain, CountPreopAgain, CountScanAgain, Step, CountsInOrder
  <2> QED
    BY <2>1, <1>c, <1>3, <1>4 DEF CountErrorsAgain, CountPreopAgain, CountScanAgain, Step, bus
<1>d. CASE Look \/ NotInError \/ Wait
  <2>1. Counted /\ CountsInOrder'
    BY <1>1, <1>2, <1>3, <1>d DEF Look, NotInError, Wait, Step, CountsInOrder, counts, Verdicts
  <2> QED
    BY <2>1, <1>d, <1>3, <1>4 DEF Look, NotInError, Wait, Step, bus, Verdicts
<1>e. CASE restart_ethercat
  <2>1. Counted /\ CountsInOrder' /\ al' \in [Slaves -> AlStates]
    BY <1>2, <1>3, <1>e DEF restart_ethercat, CountsInOrder, counts, AlStates
  <2> QED
    BY <2>1, <1>e, <1>4 DEF restart_ethercat
<1>f. CASE WaitPreop
  <2>0. at = "p_last" /\ look \in 0..(Waits - 1)
    BY <1>f DEF WaitPreop, Step, CountsInOrder
  <2>1. Counted /\ CountsInOrder'
    BY <2>0, <1>1, <1>2, <1>3, <1>f DEF WaitPreop, Step, CountsInOrder
  <2> QED
    BY <2>1, <1>f, <1>3, <1>4 DEF WaitPreop, Step, bus, Verdicts
<1> QED
  BY <1>a, <1>b, <1>c, <1>d, <1>e, <1>f DEF ethercat_bus_init

(***************************************************************************)
(* Type correctness.                                                       *)
(***************************************************************************)
(* The master takes no slave off its list, and leaves PREOP only to drive. *)
LEMMA MasterEffect ==
  ASSUME BusTypeOK, NEW s \in Slaves, Master(s)
  PROVE  /\ al' \in [Slaves -> AlStates] /\ disturbed' \in BOOLEAN /\ (disturbed => disturbed')
         /\ \A x \in Slaves : al[x] # "OFF" => al'[x] # "OFF"
         /\ ~disturbed' => \A x \in Slaves : al[x] = "PREOP" => al'[x] = "PREOP"
         /\ UNCHANGED <<eeprom, booted, kmod, open, check>>
<1>1. PICK from, to \in AlStates :
        /\ al[s] = from /\ al' = [al EXCEPT ![s] = to] /\ from # to /\ to # "OFF"
        /\ from = "PREOP" => disturbed'
        /\ disturbed' \in BOOLEAN /\ (disturbed => disturbed')
        /\ UNCHANGED <<eeprom, booted, kmod, open, check>>
  <2> USE DEF Shows, AlStates, BusTypeOK
  <2>1. CASE Appear(s)
    BY <2>1 DEF Appear
  <2>2. CASE Identify(s)
    BY <2>2 DEF Identify
  <2>3. CASE Configure(s) \/ GiveUp(s)
    BY <2>3 DEF Configure, GiveUp
  <2>4. CASE Drive(s)
    BY <2>4 DEF Drive
  <2>5. CASE Leave(s)
    BY <2>5 DEF Leave
  <2> QED
    BY <2>1, <2>2, <2>3, <2>4, <2>5 DEF Master
<1>2. al \in [Slaves -> AlStates]
  BY DEF BusTypeOK
<1> QED
  BY <1>1, <1>2

(* A slave, or all of them, is powered up.                                 *)
LEMMA PowerUpEffect ==
  ASSUME BusTypeOK, NEW on, PowerUp(on)
  PROVE  /\ al' \in [Slaves -> AlStates] /\ booted' \in [Slaves -> Configs]
         /\ open' \in BOOLEAN /\ disturbed' = TRUE
<1>1. al' \in [Slaves -> AlStates]
  BY DEF PowerUp, BusTypeOK, AlStates
<1>2. booted' \in [Slaves -> Configs]
  BY DEF PowerUp, BusTypeOK
<1>3. open' \in BOOLEAN /\ disturbed' = TRUE
  BY DEF PowerUp
<1> QED
  BY <1>1, <1>2, <1>3

(* The types of what the tool keeps, apart from the bus.                   *)
ToolTypeOK ==
  /\ pc \in Pcs /\ p3 \in BOOLEAN /\ bld \in BOOLEAN
  /\ caller \in {"set", "quit", "end"}
  /\ slave_id \in Slaves \cup {None} /\ eeprom_filename \in Slaves \cup {None}
  /\ connected \in Slaves \cup {None} /\ sets \in 0..MaxSets
  /\ missed \subseteq Slaves /\ forgotten \subseteq Slaves /\ written \subseteq Slaves

(* The two halves of the types.                                            *)
LEMMA TypeParts == TypeOK <=> BusTypeOK /\ ToolTypeOK
  BY DEF TypeOK, ToolTypeOK

(* Where the restore leads to, and who has called for the next one.        *)
LEMMA RestoredTo ==
  /\ caller = "set" => Restored[caller] = "ask_slave" /\ Next_caller = "set"
  /\ caller = "quit" => Restored[caller] = "shutdown" /\ Next_caller = "end"
  /\ caller = "end" => Restored[caller] = "exited" /\ Next_caller = "end"
  BY DEF Restored, Next_caller

(* What is forgotten after a restore: the file, and by set_slave all else.  *)
LEMMA RestartEffect ==
  ASSUME ToolTypeOK, RestartSet
  PROVE  /\ eeprom_filename' = None /\ slave_id' \in Slaves \cup {None}
         /\ bld' \in BOOLEAN /\ (bld' => bld) /\ (caller = "set" => ~bld')
  BY DEF ToolTypeOK, RestartSet, restart

(* The steps of the tool keep the types of what it keeps.                  *)
LEMMA ToolStepType ==
  ASSUME TypeOK, FileOfSlave, OpenBootloader, Tool  PROVE ToolTypeOK'
<1> USE DEF ToolTypeOK, Pcs, Prompts, Goto, Files
<1>0. ToolTypeOK /\ MaxSets \in Nat /\ None \notin Slaves
  BY TypeParts, ToolAssumption
<1>1. CASE OpenPort3 \/ HubBld
  BY <1>0, <1>1 DEF OpenPort3, HubBld, echub_init
<1>2. CASE set_slave
  BY <1>0, <1>2 DEF set_slave
<1>3. CASE ChooseSlave
  BY <1>0, <1>3 DEF ChooseSlave, restart
<1>4. CASE overwrite_eeprom \/ CycledBld \/ CycledOwn \/ load_kmod
  BY <1>0, <1>4 DEF overwrite_eeprom, CycledBld, CycledOwn, Cycled, load_kmod
<1>5. CASE Startup
  BY <1>0, <1>5 DEF Startup
<1>6. CASE StartupFails
  <2>1. slave_id \in Slaves
    BY <1>0, <1>6 DEF StartupFails, FileOfSlave, Preparing
  <2> QED
    BY <2>1, <1>0, <1>6 DEF StartupFails, restart
<1>7. CASE NothingToRestore
  BY <1>0, <1>7, RestoredTo, RestartEffect DEF NothingToRestore
<1>8. CASE restore_eeprom
  <2>1. slave_id \in Slaves
    BY <1>0, <1>8 DEF restore_eeprom, FileOfSlave
  <2> QED
    BY <2>1, <1>0, <1>8 DEF restore_eeprom
<1>9. CASE PowerCycle
  BY <1>0, <1>9 DEF PowerCycle, tool
<1>10. CASE HubOwn
  <2>1. CASE pc' = "crashed" /\ UNCHANGED <<caller, slave_id, eeprom_filename, bld>>
    BY <2>1, <1>0, <1>10 DEF HubOwn, echub_init
  <2>2. CASE caller' = Next_caller /\ RestartSet
    BY <2>2, <1>0, <1>10, RestoredTo, RestartEffect DEF HubOwn, echub_init
  <2> QED
    BY <2>1, <2>2, <1>10 DEF HubOwn
<1>11. CASE write_program_memory
  <2>1. connected \in Slaves
    BY <1>0, <1>11 DEF write_program_memory, OpenBootloader
  <2> QED
    BY <2>1, <1>0, <1>11 DEF write_program_memory
<1>12. CASE Quit \/ KeyboardInterrupt \/ shutdown
  BY <1>0, <1>12 DEF Quit, KeyboardInterrupt, shutdown
<1> QED
  BY <1>1, <1>2, <1>3, <1>4, <1>5, <1>6, <1>7, <1>8, <1>9, <1>10, <1>11, <1>12 DEF Tool

(* The steps of the tool leave the check alone, and the bus to its types.  *)
LEMMA ToolStepBus ==
  ASSUME TypeOK, FileOfSlave, Tool
  PROVE  BusTypeOK' /\ UNCHANGED check /\ (disturbed => disturbed') /\ pc # "check" /\ pc' # "check"
<1>0. BusTypeOK /\ MaxSets \in Nat /\ None \notin Slaves
  BY TypeParts, ToolAssumption
<1> DEFINE BusKept == /\ al' \in [Slaves -> AlStates] /\ eeprom' \in [Slaves -> Configs]
                      /\ booted' \in [Slaves -> Configs]
                      /\ kmod' \in BOOLEAN /\ open' \in BOOLEAN /\ disturbed' \in BOOLEAN
                      /\ disturbed => disturbed'
<1>1. ASSUME BusKept, UNCHANGED check  PROVE BusTypeOK' /\ (disturbed => disturbed')
  BY <1>0, <1>1 DEF BusTypeOK, check
<1>2. CASE OpenPort3 \/ HubBld \/ HubOwn
  <2>1. Restored[caller] # "check"
    BY RestoredTo, TypeParts DEF ToolTypeOK
  <2> QED
    BY <2>1, <1>0, <1>1, <1>2 DEF OpenPort3, HubBld, HubOwn, echub_init, Goto, BusTypeOK
<1>3. CASE set_slave \/ ChooseSlave \/ CycledBld \/ CycledOwn
  BY <1>0, <1>1, <1>3 DEF set_slave, ChooseSlave, CycledBld, CycledOwn, Cycled, Goto, BusTypeOK, bus
<1>4. CASE overwrite_eeprom \/ restore_eeprom
  BY <1>0, <1>1, <1>4 DEF overwrite_eeprom, restore_eeprom, sii_write, Goto, BusTypeOK, Configs
<1>5. CASE load_kmod \/ shutdown
  BY <1>0, <1>1, <1>5 DEF load_kmod, shutdown, Goto, BusTypeOK
<1>6. CASE Startup \/ StartupFails
  BY <1>0, <1>1, <1>6 DEF Startup, StartupFails, Goto, BusTypeOK, bus
<1>7. CASE NothingToRestore \/ write_program_memory \/ Quit \/ KeyboardInterrupt
  <2>1. Restored[caller] # "check"
    BY RestoredTo, TypeParts DEF ToolTypeOK
  <2> QED
    BY <2>1, <1>0, <1>1, <1>7 DEF NothingToRestore, write_program_memory, Quit, KeyboardInterrupt,
                                  Goto, BusTypeOK, bus, Prompts
<1>8. CASE PowerCycle
  <2>1. PICK on : PowerUp(on)
    BY <1>8 DEF PowerCycle
  <2>2. BusKept /\ UNCHANGED check /\ pc # "check" /\ pc' # "check"
    BY <2>1, <1>0, <1>8, PowerUpEffect DEF PowerCycle, BusTypeOK, tool
  <2> QED
    BY <2>2, <1>1
<1> QED
  BY <1>2, <1>3, <1>4, <1>5, <1>6, <1>7, <1>8 DEF Tool

\* The types, as they are kept.
TypeInv == TypeOK /\ CountsInOrder

(* Every step keeps them.                                                  *)
LEMMA TypeStep ==
  TypeInv /\ CheckFirst /\ FileOfSlave /\ OpenBootloader /\ [Next]_vars => TypeInv'
<1> SUFFICES ASSUME TypeInv, CheckFirst, FileOfSlave, OpenBootloader, [Next]_vars
             PROVE  TypeInv'
  OBVIOUS
<1>0. TypeOK /\ BusTypeOK /\ ToolTypeOK /\ CountsInOrder
  BY TypeParts DEF TypeInv
<1>1. CASE Check
  <2>1. BusTypeOK' /\ CountsInOrder'
    BY <1>0, <1>1, BusInitType DEF Check
  <2>2. ToolTypeOK'
    BY <1>0, <1>1 DEF Check, tool, ToolTypeOK
  <2> QED
    BY <2>1, <2>2, TypeParts DEF TypeInv, TypeOK, ToolTypeOK
<1>2. CASE Launch
  <2>1. /\ at' = "preop" /\ UNCHANGED bus /\ n' = 0 /\ ni' = 0 /\ ie' = 0 /\ p' = 0 /\ o' = 0
        /\ look' = 0 /\ disturbed' = TRUE
    BY <1>2 DEF Launch
  <2>2. BusTypeOK' /\ CountsInOrder'
    <3>1. Looks + Waits \in Nat /\ Cardinality(Slaves) \in Nat
      BY BusAssumption, SlavesCounted
    <3> QED
      BY <2>1, <3>1, <1>0 DEF BusTypeOK, CountsInOrder, bus, Verdicts
  <2>3. ToolTypeOK'
    BY <1>0, <1>2 DEF Launch, ToolTypeOK, Pcs, Prompts, Files
  <2> QED
    BY <2>2, <2>3 DEF TypeInv, TypeOK, ToolTypeOK
<1>3. CASE Tool
  <2>1. BusTypeOK' /\ UNCHANGED check /\ ToolTypeOK'
    BY <1>0, <1>3, ToolStepType, ToolStepBus
  <2> QED
    BY <2>1, <1>0 DEF TypeInv, TypeOK, ToolTypeOK, CountsInOrder, check
<1>4. ASSUME NEW s \in Slaves, Master(s), UNCHANGED tool  PROVE TypeInv'
  <2>1. /\ al' \in [Slaves -> AlStates] /\ disturbed' \in BOOLEAN
        /\ UNCHANGED <<eeprom, booted, kmod, open, check>>
    BY <1>0, <1>4, MasterEffect
  <2> QED
    BY <2>1, <1>0, <1>4 DEF TypeInv, TypeOK, BusTypeOK, ToolTypeOK, CountsInOrder, check, tool
<1>5. CASE UNCHANGED vars
  BY <1>0, <1>5 DEF vars, bus, check, tool, TypeInv, TypeOK, BusTypeOK, ToolTypeOK, CountsInOrder
<1> QED
  BY <1>1, <1>2, <1>3, <1>4, <1>5 DEF Next

(***************************************************************************)
(* What the check has seen.                                                *)
(***************************************************************************)
(* Slaves that stay in PREOP are counted again.                            *)
LEMMA CountLasts ==
  ASSUME \A s \in Slaves : al[s] = "PREOP" => al'[s] = "PREOP"
  PROVE  get_num_slaves_preop <= get_num_slaves_preop'
<1> DEFINE before == {s \in Slaves : al[s] \in {"PREOP"}}
           after == {s \in Slaves : al'[s] \in {"PREOP"}}
<1>1. before \in SUBSET after /\ after \in SUBSET Slaves
  OBVIOUS
<1>2. get_num_slaves_preop = Cardinality(before) /\ get_num_slaves_preop' = Cardinality(after)
  BY DEF get_num_slaves_preop, Grep
<1> HIDE DEF before, after
<1>3. IsFiniteSet(after)
  BY <1>1, BusAssumption, FS_Subset
<1> QED
  BY <1>1, <1>2, <1>3, FS_Subset

(* The count of the next state is a number.                                *)
LEMMA CountTyped == get_num_slaves_preop' \in Nat
<1> DEFINE after == {s \in Slaves : al'[s] \in {"PREOP"}}
<1>1. after \in SUBSET Slaves /\ get_num_slaves_preop' = Cardinality(after)
  BY DEF get_num_slaves_preop, Grep
<1> HIDE DEF after
<1> QED
  BY <1>1, BusAssumption, FS_Subset, FS_CardinalityType

(* A step of the check: the counts are those of the moment they are made   *)
(* at, and what they have shown lasts.                                     *)
LEMMA CheckSees ==
  ASSUME BusTypeOK, PreopSeen, ethercat_bus_init  PROVE PreopSeen'
<1>1. get_num_slaves_preop \in Nat
  BY GrepCounts, SlavesCounted DEF get_num_slaves_preop
<1>2. UNCHANGED al => get_num_slaves_preop' = get_num_slaves_preop
  BY DEF get_num_slaves_preop, Grep
<1> USE DEF Step
<1>3. /\ ~disturbed /\ at \notin {"wait", "p_last"} => p <= get_num_slaves_preop
      /\ ~disturbed /\ at = "preop" => p = n
  BY DEF PreopSeen
<1>4. CASE CountAll \/ CountScan \/ CountErrors \/ GrepOp \/ TakePreopOff
  BY <1>2, <1>3, <1>4 DEF CountAll, CountScan, CountErrors, GrepOp, TakePreopOff, PreopSeen, bus
<1>6. CASE CountPreop \/ CountPreopAgain
  BY <1>1, <1>2, <1>3, <1>6 DEF CountPreop, CountPreopAgain, PreopSeen, bus
<1>7. CASE CountErrorsAgain \/ CountScanAgain
  BY <1>2, <1>3, <1>7 DEF CountErrorsAgain, CountScanAgain, PreopSeen, bus
<1>8. CASE Look \/ NotInError
  BY <1>2, <1>3, <1>8 DEF Look, NotInError, PreopSeen, bus, counts
<1>9. CASE restart_ethercat
  BY <1>3, <1>9 DEF restart_ethercat, PreopSeen, counts
<1>10. CASE Wait
  BY <1>1, <1>2, <1>3, <1>10 DEF Wait, PreopSeen, bus, counts
<1>11. CASE WaitPreop
  BY <1>1, <1>2, <1>3, <1>11 DEF WaitPreop, PreopSeen, bus
<1> QED
  BY <1>4, <1>6, <1>7, <1>8, <1>9, <1>10, <1>11 DEF ethercat_bus_init

(* Neither the master nor the tool takes back what has been seen, unless   *)
(* the bus is disturbed.                                                   *)
LEMMA SeenStep ==
  ASSUME TypeInv, CheckFirst, PreopSeen, FileOfSlave, [Next]_vars
  PROVE  CheckFirst' /\ PreopSeen'
<1>0. BusTypeOK /\ TypeOK
  BY TypeParts DEF TypeInv
<1>1. CASE Check
  BY <1>0, <1>1, CheckSees DEF Check, CheckFirst, tool
<1>2. CASE Launch
  BY <1>2 DEF Launch, CheckFirst, PreopSeen
<1>3. CASE Tool
  <2>1. UNCHANGED check /\ (disturbed => disturbed') /\ pc # "check"
    BY <1>0, <1>3, ToolStepBus
  <2> QED
    BY <2>1 DEF CheckFirst, PreopSeen, check
<1>4. ASSUME NEW s \in Slaves, Master(s), UNCHANGED tool  PROVE CheckFirst' /\ PreopSeen'
  <2>1. /\ disturbed => disturbed'
        /\ \A x \in Slaves : al[x] # "OFF" => al'[x] # "OFF"
        /\ ~disturbed' => \A x \in Slaves : al[x] = "PREOP" => al'[x] = "PREOP"
        /\ UNCHANGED check
    BY <1>0, <1>4, MasterEffect
  <2>2. CheckFirst'
    BY <2>1, <1>4 DEF CheckFirst, check, tool
  <2>3. PreopSeen'
    <3>1. ~disturbed' => get_num_slaves_preop <= get_num_slaves_preop'
      BY <2>1, CountLasts
    <3>2. get_num_slaves_preop \in Nat /\ p \in Nat
      BY <1>0, GrepCounts, SlavesCounted DEF get_num_slaves_preop, BusTypeOK
    <3>3. get_num_slaves_preop' \in Nat
      BY CountTyped
    <3> QED
      BY <2>1, <3>1, <3>2, <3>3 DEF PreopSeen, check
  <2> QED
    BY <2>2, <2>3
<1>5. CASE UNCHANGED vars
  BY <1>5 DEF vars, bus, check, tool, CheckFirst, PreopSeen, get_num_slaves_preop, Grep
<1> QED
  BY <1>1, <1>2, <1>3, <1>4, <1>5 DEF Next

(***************************************************************************)
(* What the tool knows.                                                    *)
(***************************************************************************)
(* As long as the tool is not past a crash, it owes an EEPROM to the slave *)
(* whose file it has, and to no other.                                     *)
LEMMA ToolStep ==
  ASSUME TypeOK, ToolInv, Tool  PROVE ToolInv'
<1> USE DEF ToolInv, RestoreKnown, FileOfSlave, CleanFirst, OpenBootloader, RemovedFirst, Clean,
            Preparing, Restoring
<1>0. /\ ToolTypeOK /\ None \notin Slaves /\ eeprom \in [Slaves -> Configs]
      /\ booted \in [Slaves -> Configs] /\ al \in [Slaves -> AlStates]
  BY TypeParts, ToolAssumption DEF BusTypeOK
<1>1. CASE OpenPort3
  BY <1>1 DEF OpenPort3, echub_init, Goto, Files
<1>2. CASE set_slave
  BY <1>2 DEF set_slave, Files, bus
<1>3. CASE ChooseSlave
  BY <1>0, <1>3 DEF ChooseSlave, Goto, restart, bus
<1>4. CASE overwrite_eeprom
  BY <1>0, <1>4 DEF overwrite_eeprom, sii_write, Goto, Files, ToolTypeOK
<1>5. CASE PowerCycle
  BY <1>5 DEF PowerCycle, tool
<1>6. CASE CycledBld \/ CycledOwn
  BY <1>6 DEF CycledBld, CycledOwn, Cycled, Goto, Files, bus
<1>7. CASE HubBld
  BY <1>7 DEF HubBld, echub_init, Goto, Files
<1>8. CASE load_kmod
  BY <1>8 DEF load_kmod, Goto, Files
<1>9. CASE Startup
  BY <1>9 DEF Startup, Goto, bus
<1>10. CASE StartupFails
  BY <1>10 DEF StartupFails, restart, Goto
<1>11. CASE NothingToRestore
  <2>1. Clean
    BY <1>0, <1>11 DEF NothingToRestore, Configs
  <2> QED
    BY <2>1, <1>0, <1>11, RestoredTo, RestartEffect DEF NothingToRestore, Goto, bus, ToolTypeOK
<1>12. CASE restore_eeprom
  <2>1. slave_id \in Slaves /\ slave_id = eeprom_filename
    BY <1>0, <1>12 DEF restore_eeprom, ToolTypeOK
  <2>2. Clean'
    BY <2>1, <1>0, <1>12 DEF restore_eeprom, sii_write, Configs
  <2> QED
    BY <2>1, <2>2, <1>12 DEF restore_eeprom, Goto
<1>13. CASE HubOwn
  <2>1. Clean /\ Clean' /\ UNCHANGED <<eeprom, kmod, missed, forgotten>> /\ pc = "hub_own"
    BY <1>13 DEF HubOwn, echub_init
  <2>2. CASE pc' = "crashed" /\ UNCHANGED <<caller, slave_id, eeprom_filename, bld>>
    BY <2>1, <2>2
  <2>3. CASE pc' = Restored[caller] /\ caller' = Next_caller /\ RestartSet
    BY <2>1, <2>3, <1>0, RestoredTo, RestartEffect DEF ToolTypeOK
  <2> QED
    BY <2>2, <2>3, <1>13 DEF HubOwn, echub_init, Goto
<1>14. CASE write_program_memory
  BY <1>14 DEF write_program_memory, Files, bus
<1>15. CASE Quit \/ KeyboardInterrupt
  BY <1>15 DEF Quit, KeyboardInterrupt, Prompts, Goto, Files, bus
<1>16. CASE shutdown
  BY <1>16 DEF shutdown, Goto
<1> QED
  BY <1>1, <1>2, <1>3, <1>4, <1>5, <1>6, <1>7, <1>8, <1>9, <1>10, <1>11, <1>12, <1>13, <1>14,
     <1>15, <1>16 DEF Tool

(***************************************************************************)
(* The theorems.                                                           *)
(***************************************************************************)
\* The inductive invariant as a whole.
FirmwareInv == TypeInv /\ CheckFirst /\ PreopSeen /\ ToolInv

(* Nothing has been counted, and nothing is owed.                          *)
LEMMA FirmwareInit == Init => FirmwareInv
<1> SUFFICES ASSUME Init  PROVE FirmwareInv
  OBVIOUS
<1>0. /\ Cardinality(Slaves) \in Nat /\ Cardinality(Slaves) # 0 /\ Looks + Waits \in Nat
      /\ MaxSets \in Nat /\ Looks \in Nat
  BY SlavesCounted, BusAssumption, ToolAssumption
<1>1. BusTypeOK
  <2>1. al \in [Slaves -> AlStates] /\ disturbed \in BOOLEAN /\ open \in BOOLEAN
    BY DEF Init, BusInit, AlStates
  <2>2. kmod \in BOOLEAN
    BY DEF Init, BusInit
  <2>3. eeprom \in [Slaves -> Configs] /\ booted \in [Slaves -> Configs]
    BY DEF Init, BusInit, Configs
  <2>4. at = "n" /\ n = 0 /\ ni = 0 /\ ie = 0 /\ p = 0 /\ o = 0 /\ look = 0
    BY DEF Init, BusInit
  <2> QED
    BY <2>1, <2>2, <2>3, <2>4, <1>0 DEF BusTypeOK
<1>2. ToolTypeOK
  <2>1. pc = "check" /\ p3 \in BOOLEAN /\ caller = "end" /\ bld \in BOOLEAN /\ sets = 0
    BY DEF Init
  <2>2. slave_id = None /\ eeprom_filename = None /\ connected = None
    BY DEF Init
  <2>3. missed = {} /\ forgotten = {} /\ written = {}
    BY DEF Init
  <2> QED
    BY <2>1, <2>2, <2>3, <1>0 DEF ToolTypeOK, Pcs
<1>3. TypeOK
  BY <1>1, <1>2, TypeParts
<1>4. CountsInOrder /\ CheckFirst /\ PreopSeen
  <2>1. get_num_slaves_preop \in Nat
    BY <1>0, GrepCounts DEF get_num_slaves_preop
  <2> QED
    BY <2>1, <1>0 DEF Init, BusInit, CountsInOrder, CheckFirst, PreopSeen
<1>5. ToolInv
  BY DEF Init, BusInit, ToolInv, RestoreKnown, FileOfSlave, CleanFirst, Clean, OpenBootloader,
         RemovedFirst, Preparing, Restoring
<1> QED
  BY <1>3, <1>4, <1>5 DEF FirmwareInv, TypeInv

(* Every step keeps it: those of the check and of the master leave the     *)
(* EEPROMs and the tool alone, and find no slave off the list.             *)
LEMMA FirmwareStep == FirmwareInv /\ [Next]_vars => FirmwareInv'
<1> SUFFICES ASSUME FirmwareInv, [Next]_vars  PROVE FirmwareInv'
  OBVIOUS
<1>0. TypeInv /\ CheckFirst /\ PreopSeen /\ ToolInv /\ FileOfSlave /\ OpenBootloader /\ TypeOK
  BY DEF FirmwareInv, TypeInv, ToolInv
<1>1. TypeInv' /\ CheckFirst' /\ PreopSeen'
  BY <1>0, TypeStep, SeenStep
<1>2. ToolInv'
  <2> USE DEF ToolInv, RestoreKnown, FileOfSlave, CleanFirst, OpenBootloader, RemovedFirst, Clean,
              Preparing, Restoring
  <2>1. ASSUME UNCHANGED <<tool, eeprom, booted, kmod>>,
               pc = "overwrite" => al'[slave_id] # "OFF"
        PROVE  ToolInv'
    BY <1>0, <2>1 DEF tool
  <2>2. CASE Check
    <3>1. UNCHANGED <<eeprom, booted, kmod>>
      BY <2>2 DEF Check, ethercat_bus_init, CountAll, CountScan, CountErrors, CountPreop, GrepOp,
                  TakePreopOff, Look, CountErrorsAgain, CountPreopAgain, CountScanAgain,
                  restart_ethercat, NotInError, Wait, WaitPreop, Step, bus
    <3> QED
      BY <3>1, <2>1, <2>2 DEF Check, tool
  <2>3. CASE Launch
    BY <1>0, <2>3 DEF Launch, bus, Files
  <2>4. CASE Tool
    BY <1>0, <2>4, ToolStep
  <2>5. ASSUME NEW s \in Slaves, Master(s), UNCHANGED tool  PROVE ToolInv'
    <3>1. /\ \A x \in Slaves : al[x] # "OFF" => al'[x] # "OFF"
          /\ UNCHANGED <<eeprom, booted, kmod>>
      BY <1>0, <2>5, MasterEffect, TypeParts
    <3>2. pc = "overwrite" => slave_id \in Slaves
      BY <1>0, TypeParts DEF ToolTypeOK
    <3> QED
      BY <3>1, <3>2, <2>1, <2>5, <1>0 DEF tool
  <2>6. CASE UNCHANGED vars
    BY <1>0, <2>1, <2>6 DEF vars, bus, tool
  <2> QED
    BY <2>2, <2>3, <2>4, <2>5, <2>6 DEF Next
<1> QED
  BY <1>1, <1>2 DEF FirmwareInv

(* What the check of the bus and the tool know in every state.             *)
THEOREM FirmwareInvariant == Spec => []FirmwareInv
  BY FirmwareInit, FirmwareStep, PTL DEF Spec

(* TypeOK: the counts of ethercat_bus_init stay between nothing and all    *)
(* the slaves, and the tool keeps slaves where it means slaves.            *)
THEOREM FirmwareTypeCorrect == Spec => []TypeOK
<1>1. FirmwareInv => TypeOK
  BY DEF FirmwareInv, TypeInv
<1> QED
  BY <1>1, FirmwareInvariant, PTL

(* PreopVerdict: when ethercat_bus_init says PREOP, as many slaves are in  *)
(* it as were listed at first, though it has counted them one state after  *)
(* the other; if all were listed, all are.                                 *)
THEOREM PreopWhenSaid ==
  Spec => [](/\ PreopVerdict
             /\ (at = "preop" /\ ~disturbed /\ n = Cardinality(Slaves)) =>
                  \A s \in Slaves : al[s] = "PREOP")
<1> DEFINE AllInPreop ==
      (at = "preop" /\ ~disturbed /\ n = Cardinality(Slaves)) => \A s \in Slaves : al[s] = "PREOP"
<1>1. FirmwareInv => PreopVerdict /\ AllInPreop
  <2> SUFFICES ASSUME FirmwareInv, at = "preop", ~disturbed
               PROVE  /\ Cardinality({s \in Slaves : al[s] = "PREOP"}) >= n
                      /\ n = Cardinality(Slaves) => \A s \in Slaves : al[s] = "PREOP"
    BY DEF PreopVerdict
  <2>1. {s \in Slaves : al[s] = "PREOP"} = {s \in Slaves : al[s] \in {"PREOP"}}
    OBVIOUS
  <2>2. Cardinality({s \in Slaves : al[s] = "PREOP"}) = get_num_slaves_preop
    BY <2>1 DEF get_num_slaves_preop, Grep
  <2>3. n <= get_num_slaves_preop
    BY DEF FirmwareInv, PreopSeen
  <2>4. /\ get_num_slaves_preop \in 0..Cardinality(Slaves) /\ Cardinality(Slaves) \in Nat
        /\ get_num_slaves_preop = Cardinality(Slaves) => \A s \in Slaves : al[s] = "PREOP"
    BY GrepCounts, SlavesCounted DEF get_num_slaves_preop
  <2>5. n \in Nat
    BY <2>4, TypeParts DEF FirmwareInv, TypeInv, BusTypeOK
  <2> QED
    BY <2>2, <2>3, <2>4, <2>5
<1> QED
  BY <1>1, FirmwareInvariant, PTL

(* RestoreKnown: the tool has the file of the slave it has left with the   *)
(* boot loader's EEPROM (set_slave, restore_eeprom, restart).              *)
THEOREM KnowsWhatItOwes == Spec => []RestoreKnown
<1>1. FirmwareInv => RestoreKnown
  BY DEF FirmwareInv, ToolInv
<1> QED
  BY <1>1, FirmwareInvariant, PTL

(* ExitClean: an exit through shutdown leaves no kernel module and no boot *)
(* loader's EEPROM behind, but for what restart() and the master lost.     *)
THEOREM LeavesClean == Spec => []ExitClean
<1>1. FirmwareInv => ExitClean
  BY DEF FirmwareInv, ToolInv, CleanFirst, Clean, RemovedFirst, ExitClean
<1> QED
  BY <1>1, FirmwareInvariant, PTL

(* ProgramsTarget: write_program_memory writes only to a slave that runs   *)
(* the boot loader and whose EEPROM the tool will put back.                *)
THEOREM ProgramsWhatItRestores == Spec => ProgramsTarget
<1>1. FirmwareInv /\ [Next]_vars =>
        [\A s \in written' \ written :
           booted[s] = "bld" /\ kmod /\ eeprom[s] = "bld" /\ eeprom_filename = s]_vars
  <2> SUFFICES ASSUME FirmwareInv, Next, NEW s \in written' \ written
               PROVE  booted[s] = "bld" /\ kmod /\ eeprom[s] = "bld" /\ eeprom_filename = s
    BY DEF vars, tool
  <2>1. write_program_memory
    BY DEF Next, Check, Launch, Tool, tool, Goto, Files, OpenPort3, echub_init, set_slave,
           ChooseSlave, overwrite_eeprom, CycledBld, CycledOwn, Cycled, HubBld, load_kmod, Startup,
           StartupFails, NothingToRestore, restore_eeprom, PowerCycle, HubOwn, Quit,
           KeyboardInterrupt, shutdown
  <2>2. s = connected /\ pc = "menu" /\ bld
    BY <2>1 DEF write_program_memory
  <2> QED
    BY <2>2 DEF FirmwareInv, ToolInv, OpenBootloader
<1> QED
  BY <1>1, FirmwareInvariant, PTL DEF Spec, ProgramsTarget
=============================================================================
