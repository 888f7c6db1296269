---------------------------- MODULE EtherCatBus ----------------------------
(***************************************************************************)
(* The EtherCAT bus as the command line of its master shows it, and        *)
(* ethercat_bus_init of m3rt_toolbox.py, which m3rt_ethercat_check calls   *)
(* before anything else is started. Every count it works with is a command *)
(* of its own, while the master goes on bringing the slaves up.            *)
(***************************************************************************)
EXTENDS Integers, FiniteSets

CONSTANTS Slaves,    \* the slaves of the bus
          Hub,       \* the one in front, an ECHUB, whose port 3 leads to the others
          Looks,     \* how often the states are looked at (5 in the code)
          Waits      \* how often PREOP is waited for after a restart (10)

ASSUME BusAssumption ==
  /\ Hub \in Slaves /\ IsFiniteSet(Slaves)
  /\ {Looks, Waits} \subseteq Nat \ {0}

VARIABLES
  al,        \* what the master shows of each slave
  eeprom,    \* whose configuration is in its EEPROM: its own or the boot loader's
  booted,    \* the configuration it has read when it was powered up
  kmod,      \* the kernel module that drives the slaves is loaded
  open,      \* port 3 of the hub is open
  at,        \* where ethercat_bus_init is
  n, ni, ie, p, o,  \* its counts
  look,      \* how often it has looked
  disturbed  \* a slave has been powered up, or driven, since it has begun

bus == <<al, eeprom, booted, kmod, open>>
counts == <<n, ni, ie, p, o>>
check == <<at, n, ni, ie, p, o, look>>

\* OFF is a slave the master does not list, SCAN one whose identity is still
\* 0x00000000:0x00000000.
AlStates == {"OFF", "SCAN", "INIT", "INIT_E", "PREOP", "OP"}
Configs == {"own", "bld"}
Verdicts == {"operational", "preop", "failed"}

BusTypeOK ==
  /\ al \in [Slaves -> AlStates]
  /\ eeprom \in [Slaves -> Configs] /\ booted \in [Slaves -> Configs]
  /\ {kmod, open, disturbed} \subseteq BOOLEAN
  /\ at \in {"n", "ni", "ie", "p", "op", "preop_too", "look", "ie_again", "p_again",
             "ni_again", "wait", "p_last"} \cup Verdicts
  /\ {n, ni, ie, p} \subseteq 0..Cardinality(Slaves)
  /\ o \in -Cardinality(Slaves)..Cardinality(Slaves)
  /\ look \in 0..(Looks + Waits)

\* The robot may be in the middle of being switched on, so that none or only some
\* of its slaves are listed; and a process of the last session may still drive it.
BusInit ==
  /\ al \in [Slaves -> AlStates]
  /\ kmod \in BOOLEAN /\ ((\E s \in Slaves : al[s] = "OP") => kmod)
  /\ eeprom = [s \in Slaves |-> "own"] /\ booted = eeprom /\ open = TRUE
  /\ at = "n" /\ n = 0 /\ ni = 0 /\ ie = 0 /\ p = 0 /\ o = 0 /\ look = 0
  /\ disturbed = FALSE

(***************************************************************************)
(* The master and the slaves.                                              *)
(***************************************************************************)
Shows(s, from, to) ==
  /\ al[s] = from
  /\ al' = [al EXCEPT ![s] = to]
  /\ UNCHANGED <<eeprom, booted, kmod, open, check>>

\* The master finds a slave, reads its identity, brings it to PREOP or gives it up, and
\* drives it as long as the kernel module is loaded.
Appear(s) == (s = Hub \/ open) /\ Shows(s, "OFF", "SCAN") /\ UNCHANGED disturbed
Identify(s) == Shows(s, "SCAN", "INIT") /\ UNCHANGED disturbed
Configure(s) == Shows(s, "INIT", "PREOP") /\ UNCHANGED disturbed
GiveUp(s) == Shows(s, "INIT", "INIT_E") /\ UNCHANGED disturbed
Drive(s) == kmod /\ Shows(s, "PREOP", "OP") /\ disturbed' = TRUE
Leave(s) == ~kmod /\ Shows(s, "OP", "PREOP") /\ UNCHANGED disturbed

Master(s) == Appear(s) \/ Identify(s) \/ Configure(s) \/ GiveUp(s) \/ Drive(s) \/ Leave(s)

(***************************************************************************)
(* ethercat_bus_init.                                                      *)
(***************************************************************************)
Grep(states) == Cardinality({s \in Slaves : al[s] \in states})

get_num_slaves == Grep(AlStates \ {"OFF"})
get_num_slaves_not_init_yet == Grep({"SCAN"})
get_num_slaves_init_e == Grep({"INIT_E"})
get_num_slaves_preopGrepOp == Grep({"PREOP", "OP"})
get_num_slaves_preop == Grep({"PREOP"})

Step(from, to) == at = from /\ at' = to /\ UNCHANGED <<bus, disturbed>>

CountAll == Step("n", "ni") /\ n' = get_num_slaves /\ UNCHANGED <<ni, ie, p, o, look>>
CountScan == Step("ni", "ie") /\ ni' = get_num_slaves_not_init_yet /\ UNCHANGED <<n, ie, p, o, look>>
CountErrors == Step("ie", "p") /\ ie' = get_num_slaves_init_e /\ UNCHANGED <<n, ni, p, o, look>>
CountPreop == Step("p", "op") /\ p' = get_num_slaves_preop /\ UNCHANGED <<n, ni, ie, o, look>>

\* get_num_slaves_op: grep finds PREOP under OP, too, and a second command
\* counts those to take them off.
GrepOp == Step("op", "preop_too") /\ o' = Grep({"PREOP", "OP"}) /\ UNCHANGED <<n, ni, ie, p, look>>
TakePreopOff ==
  Step("preop_too", "look") /\ o' = o - get_num_slaves_preop /\ UNCHANGED <<n, ni, ie, p, look>>

\* The five looks: only with a slave in error, or not yet known, is a look
\* followed by a second's wait and by new counts; o is not counted again.
Look ==
  /\ look < Looks
  /\ \/ o # 0 /\ Step("look", "operational") /\ UNCHANGED look
     \/ o = 0 /\ p = n /\ Step("look", "preop") /\ UNCHANGED look
     \/ o = 0 /\ p # n /\ (ie > 0 \/ ni > 0) /\ Step("look", "ie_again") /\ look' = look + 1
     \/ o = 0 /\ p # n /\ ie = 0 /\ ni = 0 /\ Step("look", "look") /\ look' = look + 1
  /\ UNCHANGED counts

CountErrorsAgain ==
  Step("ie_again", "p_again") /\ ie' = get_num_slaves_init_e /\ UNCHANGED <<n, ni, p, o, look>>
CountPreopAgain ==
  Step("p_again", "ni_again") /\ p' = get_num_slaves_preop /\ UNCHANGED <<n, ni, ie, o, look>>
CountScanAgain ==
  Step("ni_again", "look") /\ ni' = get_num_slaves_not_init_yet /\ UNCHANGED <<n, ie, p, o, look>>

\* After the last look only the errors are looked at: slaves that have come to
\* PREOP since are a failure. The restart takes every slave off the list.
restart_ethercat ==
  /\ at = "look" /\ look = Looks /\ (ie # 0 \/ ni > 0)
  /\ at' = "wait" /\ look' = 0
  /\ al' = [s \in Slaves |-> "OFF"]
  /\ UNCHANGED <<eeprom, booted, kmod, open, counts, disturbed>>
NotInError == look = Looks /\ ie = 0 /\ ni = 0 /\ Step("look", "failed") /\ UNCHANGED <<counts, look>>

WaitForPreop ==
  /\ \/ get_num_slaves_preop < n /\ Step("wait", "wait")
     \/ get_num_slaves_preop >= n /\ Step("wait", "p_last")
  /\ UNCHANGED <<counts, look>>
WaitPreopForever ==
  /\ p' = get_num_slaves_preop
  /\ look' = look + 1
  /\ \/ p' = n /\ Step("p_last", "preop")
     \/ p' # n /\ Step("p_last", "p_last")
  /\ UNCHANGED <<n, ni, ie, o>>

\* An unbounded wait for the slaves to be known, then ten for PREOP.
Wait ==
  /\ \/ get_num_slaves_not_init_yet > 0 /\ Step("wait", "wait")
     \/ get_num_slaves_not_init_yet = 0 /\ Step("wait", "p_last")
  /\ UNCHANGED <<counts, look>>
WaitPreop ==
  /\ p' = get_num_slaves_preop
  /\ look' = look + 1
  /\ \/ p' = n /\ Step("p_last", "preop")
     \/ p' # n /\ look' < Waits /\ Step("p_last", "p_last")
     \/ p' # n /\ look' = Waits /\ Step("p_last", "failed")
  /\ UNCHANGED <<n, ni, ie, o>>

ethercat_bus_init ==
  \/ CountAll \/ CountScan \/ CountErrors \/ CountPreop \/ GrepOp \/ TakePreopOff
  \/ Look \/ CountErrorsAgain \/ CountPreopAgain \/ CountScanAgain
  \/ restart_ethercat \/ NotInError \/ Wait \/ WaitPreop

(***************************************************************************)
(* The hub's port, which is closed when the hub is powered up.             *)
(***************************************************************************)
get_echub_ids == {s \in {Hub} : al[s] \notin {"OFF", "SCAN"}}

PowerUp(on) ==
  LET off == IF Hub \in on THEN Slaves ELSE on IN
  /\ al' = [s \in Slaves |-> IF s \in off THEN "OFF" ELSE al[s]]
  /\ booted' = [s \in Slaves |-> IF s \in on THEN eeprom[s] ELSE booted[s]]
  /\ open' = (open /\ Hub \notin on)
  /\ disturbed' = TRUE
=============================================================================
