--------------------------- MODULE FirmwareUpdate ---------------------------
(***************************************************************************)
(* m3rt_firmware_update.py: a slave is given the boot loader's EEPROM,     *)
(* programmed through the boot loader, and given its own EEPROM back. The  *)
(* only record of what has to be put back is in the tool. The bus has been *)
(* brought up by m3rt_ethercat_check (EtherCatBus) before.                 *)
(***************************************************************************)
EXTENDS EtherCatBus

CONSTANTS MaxSets,   \* bound: how often the operator sets a slave
          None       \* no slave, no file

ASSUME ToolAssumption == MaxSets \in Nat /\ None \notin Slaves

VARIABLES
  pc,               \* where the tool is
  p3,               \* the answer to "Require Port3?"
  caller,           \* who has called restore_eeprom: set_slave, or shutdown, the first or last
  slave_id,
  eeprom_filename,  \* the slave whose EEPROM file this is
  bld,              \* the tool holds an M3Bootloader
  connected,        \* the slave whose boot loader it has connected to
  sets,             \* how often set_slave has been called
  missed,           \* history: slaves the master did not list when their own EEPROM was written
  forgotten,        \* history: slaves whose file restart() has forgotten after a failed Startup
  written           \* history: slaves whose program memory has been written

tool == <<pc, p3, caller, slave_id, eeprom_filename, bld, connected, sets, missed, forgotten, written>>
vars == <<bus, check, disturbed, tool>>

Prompts == {"menu", "ask_slave", "cycle_bld", "cycle_own"}
Pcs == {"check", "open", "overwrite", "hub_bld", "load", "startup", "restore", "hub_own",
        "shutdown", "exited", "crashed"} \cup Prompts

TypeOK ==
  /\ BusTypeOK
  /\ pc \in Pcs
  /\ {p3, bld} \subseteq BOOLEAN
  /\ caller \in {"set", "quit", "end"}
  /\ {slave_id, eeprom_filename, connected} \subseteq Slaves \cup {None}
  /\ sets \in 0..MaxSets
  /\ {missed, forgotten, written} \subseteq SUBSET Slaves

Init ==
  /\ BusInit
  /\ pc = "check" /\ p3 = TRUE /\ caller = "end"
  /\ slave_id = None /\ eeprom_filename = None /\ bld = FALSE /\ connected = None
  /\ sets = 0 /\ missed = {} /\ forgotten = {} /\ written = {}

Check == pc = "check" /\ ethercat_bus_init /\ UNCHANGED tool

\* What the tool's other variables do while pc moves on.
Goto(to) ==
  /\ pc' = to
  /\ UNCHANGED <<p3, sets, written>>
Files == <<slave_id, eeprom_filename, bld, connected, missed, forgotten>>

\* The tool is started on a bus that has come up; the check's counts are gone.
Launch ==
  /\ pc = "check" /\ at = "preop" /\ ~kmod
  /\ p3' \in BOOLEAN
  /\ pc' = IF p3' THEN "open" ELSE "menu"
  /\ n' = 0 /\ ni' = 0 /\ ie' = 0 /\ p' = 0 /\ o' = 0 /\ look' = 0 /\ disturbed' = TRUE
  /\ UNCHANGED <<bus, at, caller, Files, sets, written>>

\* echub_init: the last hub of the list, which is empty while the hub is not
\* known yet; the IndexError ends the tool, for it is outside of the try or not
\* one of the exceptions it catches.
echub_init(from, to) ==
  /\ pc = from
  /\ IF p3
       THEN /\ open' = (open \/ get_echub_ids # {})
            /\ Goto(IF get_echub_ids = {} THEN "crashed" ELSE to)
       ELSE open' = open /\ Goto(to)
  /\ UNCHANGED <<al, eeprom, booted, kmod, check, disturbed>>

OpenPort3 == echub_init("open", "menu") /\ UNCHANGED <<caller, Files>>

(***************************************************************************)
(* set_slave.                                                              *)
(***************************************************************************)
set_slaveAtOnce ==
  /\ pc = "menu" /\ sets < MaxSets
  /\ pc' = "ask_slave" /\ caller' = "set" /\ sets' = sets + 1
  /\ slave_id' = None /\ eeprom_filename' = None /\ bld' = FALSE
  /\ UNCHANGED <<bus, check, disturbed, p3, connected, missed, forgotten, written>>
set_slave ==
  /\ pc = "menu" /\ sets < MaxSets
  /\ pc' = "restore" /\ caller' = "set" /\ sets' = sets + 1
  /\ UNCHANGED <<bus, check, disturbed, p3, Files, written>>

\* restart() forgets everything but the kernel module.
restart == slave_id' = None /\ eeprom_filename' = None /\ bld' = FALSE

\* The operator names a listed slave; its files are found or not, and the
\* operator agrees or not. The boot loader's file is looked for, too, but used
\* all the same: without it overwrite_eeprom ends the tool with a TypeError.
ChooseSlave ==
  /\ pc = "ask_slave"
  /\ UNCHANGED <<bus, check, disturbed, caller, connected, missed, forgotten>>
  /\ \/ Goto("ask_slave") /\ restart
     \/ \E s \in Slaves :
          /\ al[s] # "OFF"
          /\ slave_id' = s /\ eeprom_filename' = s /\ bld' = FALSE
          /\ \/ Goto("overwrite")
             \/ Goto("crashed")
     \/ Goto("crashed") /\ restart     \* no slave has this id

\* sii_write reaches the slave if the master lists it; nobody looks.
sii_write(s, config) ==
  eeprom' = IF al[s] = "OFF" THEN eeprom ELSE [eeprom EXCEPT ![s] = config]

overwrite_eeprom ==
  /\ pc = "overwrite"
  /\ sii_write(slave_id, "bld")
  /\ Goto("cycle_bld")
  /\ UNCHANGED <<al, booted, kmod, open, check, disturbed, caller, Files>>

\* "Cycle the slave power now. Hit enter when done...": the operator cycles the
\* slave, the whole robot, or only hits enter, or Ctrl-C.
PowerCycle ==
  /\ pc \in {"cycle_bld", "cycle_own"}
  /\ \E on \in {{slave_id}, Slaves} : PowerUp(on)
  /\ UNCHANGED <<eeprom, kmod, check, tool>>
Cycled(from, to) ==
  /\ pc = from
  /\ Goto(to)
  /\ UNCHANGED <<bus, check, disturbed, caller, Files>>

CycledBld == Cycled("cycle_bld", "hub_bld")
HubBld == echub_init("hub_bld", "load") /\ UNCHANGED <<caller, Files>>

load_kmod ==
  /\ pc = "load" /\ kmod' = TRUE /\ Goto("startup")
  /\ UNCHANGED <<al, eeprom, booted, open, check, disturbed, caller, Files>>

\* M3Bootloader.Startup connects only to a slave that has come up as one.
Startup ==
  /\ pc = "startup" /\ booted[slave_id] = "bld" /\ al[slave_id] # "OFF"
  /\ bld' = TRUE /\ connected' = slave_id /\ Goto("menu")
  /\ UNCHANGED <<bus, check, disturbed, caller, slave_id, eeprom_filename, missed, forgotten>>
StartupUnchecked ==
  /\ pc = "startup" /\ bld' = TRUE /\ connected' = slave_id /\ Goto("menu")
  /\ UNCHANGED <<bus, check, disturbed, caller, slave_id, eeprom_filename, missed, forgotten>>
StartupFails ==
  /\ pc = "startup"
  /\ kmod' = FALSE
  /\ connected' = None
  /\ forgotten' = forgotten \cup {slave_id}
  /\ restart /\ Goto("menu")
  /\ UNCHANGED <<al, eeprom, booted, open, check, disturbed, caller, missed>>

(***************************************************************************)
(* restore_eeprom, which set_slave and shutdown begin or end with.         *)
(***************************************************************************)
Restored == [set |-> "ask_slave", quit |-> "shutdown", end |-> "exited"]
Next_caller == IF caller = "quit" THEN "end" ELSE caller

\* A slave chosen anew: what the tool knew of the last one is dropped, an open
\* boot loader and the loaded kernel module with it.
RestartSet == IF caller = "set" THEN restart ELSE eeprom_filename' = None /\ UNCHANGED <<slave_id, bld>>

NothingToRestore ==
  /\ pc = "restore" /\ eeprom_filename = None
  /\ Goto(Restored[caller]) /\ caller' = Next_caller /\ RestartSet
  /\ UNCHANGED <<bus, check, disturbed, connected, missed, forgotten>>
restore_eeprom ==
  /\ pc = "restore" /\ eeprom_filename # None
  /\ sii_write(slave_id, "own")
  /\ missed' = IF al[slave_id] = "OFF" THEN missed \cup {slave_id} ELSE missed
  /\ Goto("cycle_own")
  /\ UNCHANGED <<al, booted, kmod, open, check, disturbed, caller, slave_id,
                 eeprom_filename, bld, connected, forgotten>>
CycledOwn == Cycled("cycle_own", "hub_own")
HubOwn ==
  /\ echub_init("hub_own", Restored[caller])
  /\ IF pc' = "crashed" THEN UNCHANGED <<caller, slave_id, eeprom_filename, bld>>
     ELSE caller' = Next_caller /\ RestartSet
  /\ UNCHANGED <<connected, missed, forgotten>>

(***************************************************************************)
(* The menu, and the end.                                                  *)
(***************************************************************************)
write_program_memory ==
  /\ pc = "menu" /\ bld
  /\ \/ written' = written \cup {connected} /\ pc' = pc
     \/ pc' = "crashed" /\ UNCHANGED written      \* no file has this id
  /\ UNCHANGED <<bus, check, disturbed, p3, caller, Files, sets>>

Quit ==
  /\ pc = "menu" /\ Goto("shutdown") /\ caller' = "quit"
  /\ UNCHANGED <<bus, check, disturbed, Files>>

\* Ctrl-C at a prompt: once the last shutdown has begun nothing catches it.
KeyboardInterrupt ==
  /\ pc \in Prompts
  /\ IF pc = "cycle_own" /\ caller = "end" THEN Goto("crashed") ELSE Goto("shutdown")
  /\ caller' = "end"
  /\ UNCHANGED <<bus, check, disturbed, Files>>

shutdownKeepsKmod ==
  /\ pc = "shutdown"
  /\ connected' = IF bld THEN None ELSE connected
  /\ kmod' = kmod
  /\ Goto("restore")
  /\ UNCHANGED <<al, eeprom, booted, open, check, disturbed, caller, slave_id,
                 eeprom_filename, bld, missed, forgotten>>
shutdown ==
  /\ pc = "shutdown"
  /\ connected' = IF bld THEN None ELSE connected
  /\ kmod' = FALSE
  /\ Goto("restore")
  /\ UNCHANGED <<al, eeprom, booted, open, check, disturbed, caller, slave_id,
                 eeprom_filename, bld, missed, forgotten>>

Tool ==
  \/ OpenPort3 \/ set_slave \/ ChooseSlave \/ overwrite_eeprom \/ CycledBld \/ HubBld
  \/ load_kmod \/ Startup \/ StartupFails \/ NothingToRestore \/ restore_eeprom
  \/ PowerCycle \/ CycledOwn \/ HubOwn \/ write_program_memory \/ Quit \/ KeyboardInterrupt \/ shutdown

Next == Check \/ Launch \/ Tool \/ \E s \in Slaves : Master(s) /\ UNCHANGED tool

Spec == Init /\ [][Next]_vars

\* The script runs on, and the master goes on reading identities.
FairSpec ==
  /\ Spec
  /\ WF_vars(Check)
  /\ \A s \in Slaves : WF_vars(Identify(s) /\ UNCHANGED tool)

(***************************************************************************)
(* Properties.                                                             *)
(***************************************************************************)
\* ethercat_bus_init comes to a verdict, its wait without a bound included.
CheckEnds == <>(at \in Verdicts)

\* When it says that all slaves are in PREOP, at least as many were at one moment as
\* the master listed when it began, though it has counted them with commands of
\* their own and may have restarted the master in between: unless the driver has
\* taken a slave on since, they still are. If all were listed at first, that is all
\* slaves; of those that were listed later it knows nothing.
PreopVerdict ==
  (at = "preop" /\ ~disturbed) => Cardinality({s \in Slaves : al[s] = "PREOP"}) >= n

\* Until it crashes the tool knows of the slave it has left with the boot
\* loader's EEPROM, whatever the operator does with power and Ctrl-C at the
\* prompts, save for the slaves restart() has forgotten and those that were not
\* listed when their EEPROM was to be written back.
RestoreKnown ==
  \A s \in Slaves :
    (eeprom[s] = "bld" /\ s \notin missed \cup forgotten /\ pc # "crashed") =>
      slave_id = s /\ eeprom_filename = s

\* An exit through shutdown, by 'q' or Ctrl-C, leaves neither the kernel module
\* nor, but for the same slaves, the boot loader's EEPROM behind.
ExitClean ==
  (pc = "exited") =>
    /\ ~kmod
    /\ \A s \in Slaves \ (missed \cup forgotten) : eeprom[s] = "own"

\* The program memory of a slave is written only while it runs the boot loader
\* and the tool will put its EEPROM back.
ProgramsTarget ==
  [][\A s \in written' \ written :
       booted[s] = "bld" /\ kmod /\ eeprom[s] = "bld" /\ eeprom_filename = s]_vars
=============================================================================
