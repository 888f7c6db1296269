# A formal model of the M3 real-time core and its tools

This directory holds TLA+ modules that model the M3 software: the real-time core
(`src/m3rt`: a hard real-time loop over robot components, an EtherCAT kernel
module under it and TCP clients above it), the server process and the client
library around it (`python/m3`, `python/scripts/m3rt`), and the tools that prepare the
slaves of the bus. TLC configurations check them on small instances; TLAPS proofs
hold for every value of the constants.

## The system

| Component | State it keeps | Operations | What makes it correct |
|---|---|---|---|
| Component state machine (`base/component.h`, `component_ec.cpp`, `component_shm.cpp`) | one of INIT, ERR, SAFEOP, OP per component; status and command messages | `StepStatus`, `StepCommand`, `SetState...`, `Shutdown` | an error is final; a slave whose component is not in OP gets the zero command |
| Real-time thread (`rt_system/rt_system.cpp`) | `safeop_required`, `sys_thread_end/active`, `safeop_only`, counters | dry run, loop, `Step` | mutual exclusion with data services and kernel task; one cycle carries a command from top to bottom; every error is latched before the next cycle |
| EtherCAT kernel module (`ethercat/m3ec.c`) | `domain_idx`, the domain memory, `slaves_responding`, three semaphores | cyclic task `run`, load, unload, cleanup | a domain is exchanged whole; the RT thread is paced; a bus that loses a slave is left safe |
| Data service (`rt_data_service.cpp`) | a TCP port, the names a client subscribes to | one thread: read, parse, serialise, write | a reply is of one cycle; every request is answered |
| Log service (`rt_log_service.cpp`) | a ring of pages, two indices | `Step` on the RT thread, a disk thread | every entry is written once and in order; no page is reused before it is on disk |
| Service and server process (`rt_service.cpp`, `.h`, `m3rt_server.py`) | the system, attach count, list of data services and ports, watchdog thread, main thread, XML-RPC thread, in-process client | attach, remove, watch, start, exit | one system at a time, running while somebody is attached, at rest before it is deleted; no client loses its service to another; the server can be ended |
| TCP link and client proxy (`simple_server.cpp`, `rt_proxy.py`) | byte stream with framing; subscriptions and publications; what is known of a log | start, stop, step, load a log sample | a status answers the step's own command; every step ends; a sample is of the log it was asked for |
| EtherCAT bus check (`m3rt_toolbox.py`, `m3rt_ethercat_check`) | counts of slaves by state, one command each | `ethercat_bus_init` | it ends, and its verdict was true at one moment of the slaves listed at its start |
| Firmware update (`m3rt_firmware_update.py`) | the slave at work on and the EEPROM it must get back | choose, overwrite, program, restore, quit, Ctrl-C | no slave is left with the boot loader's EEPROM without the tool knowing |
| EEPROM images (`eeprom.py`, `m3rt_eeprom.py`) | a dictionary, a file of bytes | write, read, name a slave | what is written is read back; half a file is no file |
| User interface (`gui.py`, `widgets.py`) | the program's variables, the widgets' values, what is shown | the timer's `update`, the user's moves | what the user sets arrives; which widgets can freeze the window |
| Startup (`rt_system.cpp`, `component_factory.cpp`) | component lists, index maps | read configuration, create, match slaves, link | indices sent to clients name the component they were sent for |
| Asynchronous component (`component_async.cpp`) | two copies of the messages, two threads | copy in, copy out, start, stop | no message is seen half copied |
| ROS service, toolbox, Python components and monitors, scripts | | | see "What is not modelled" |

How they interact:

* The RT thread and every data service share the component messages under
  `ext_sem` (M3LEXT, a binary semaphore). The thread holds it from the first
  wait of `Step` to its end.
* The RT thread and the kernel task share the PDO memory under `shm_sem`
  (M3LSHM). The kernel task signals `sync_sem` (M3SYNC, counting) after each
  exchange of domain 0, and `Step` waits for it once per cycle **while it holds
  `ext_sem`**.
* The thread of the RPC server writes component states and the stop flag with
  no lock at all.
* The RT thread pushes log entries to the page ring; the disk thread takes
  pages from it, again without a lock.
* In the server process the RPC thread, the watchdog and the main thread call one
  `M3RtService` without a lock of its own, and each can be in `RemoveRtSystem`. The RPC thread
  and the main thread are Python threads, and the bindings are generated without `-threads`
  (`rt_system/CMakeLists.txt`): a call into the service keeps Python's lock (the GIL) until it returns,
  so these two are never in the service together. The watchdog and the data, log and
  real-time threads are not Python's and run beside both. The process has a
  client of its own, which keeps the system running while no other client is there.
* A client talks to the service over XML-RPC (attach, remove, logs) and to its
  data service over a socket, in lock step: one command, one status. Nothing in a
  status says which command it answers.
* The EtherCAT tools see the bus only through the output of the master's command
  line, one command per question, while the master goes on.

What is hard about it: threads with different locks (or none) on the same data; a
check on one thread and the write that depends on it with a step of another in
between; an error latch that a dry run may clear; a task that can end while
another waits for it; a semaphore that counts a backlog; a count of clients that are
killed, refused or stop twice; an answer that comes after its timeout; counts taken
one after the other of a bus that is coming up; a tool that is interrupted between
the overwriting and the restoring.

## Modules

| Module | Models |
|---|---|
| `M3Component` | the components: `state`, `status`, `command`, `pdo` (`shm->cmd`), `ecOk`; setters and one step of each kind of component |
| `RtStep` (extends it) | `rt_system_thread` and `M3RtSystem::Step`, broken where another thread can see or be seen: each semaphore wait, each component's step, the check of the states, the release |
| `RtSystem` (extends it) | the same thread composed with the kernel task, the data services, the RPC thread and the request to stop; the properties |
| `MCRtSystem` | its small instances for TLC |
| `RtSystem_proofs` | theorems about it |
| `LogFile` | abstract: what a log session promises of its files |
| `RtLog` | a log session: the page ring between the end of `Step` and the disk thread, attach, failed start, removal; implements `LogFile` |
| `RtLog_proofs` | theorems about it, the refinement among them |
| `ServiceLife` | abstract: the life of the one system a service owns: created, running, at rest, deleted; once the service is ending none is created, and one that runs may be given up |
| `RtService` | the server process and its clients from the first attach to the exit; implements `ServiceLife` |
| `DataLink` | a client's steps over the socket and the data service's thread that answers them |
| `RtService_proofs`, `RtServiceRemoval_proofs` (extends it) | theorems: the types, what each step changes, the count and the threads; the data services, the removal and the refinement |
| `LogReader` | reading a log through the proxy while it may be recorded anew |
| `ProxyClient` (extends both) | the two kinds of script that use a proxy; its instances give `link` and `log_read` |
| `ProxyClient_proofs` | theorems about the link and the reader |
| `EtherCatBus` | the bus as the master shows it, and `ethercat_bus_init` |
| `FirmwareUpdate` (extends it) | the firmware tool on that bus, with the operator, power and Ctrl-C |
| `FirmwareUpdate_proofs` | theorems about both |
| `Gui`, `MCGui` | program, widgets and user; seven windows for TLC |
| `Gui_proofs` | theorems about them |
| `Eeprom`, `MCEeprom` | both directions of `eeprom.py`; dictionaries for TLC |
| `Eeprom_proofs` | theorems about it |

### Correspondence to the code

*Control.* `pc` is the place of the RT thread: `start` (entry), `dry`/`dryRet`
(the dry-run loop before and after its `Step`), `enter`, `loop`/`ret` (the
real-time loop before and after its `Step`), `end`; inside `Step`: `ext`,
`sync`, `shm` (the three waits), `mark` (the `safeop_only` pass), four passes
(`ecStatus`, `rtStatus`, `rtCommand`, `ecCommand`), `check`
(`CheckComponentStates`), `release`. The passes visit `todo` in the order of the
code's nested loops: ascending priority for status, descending for commands,
list order within a priority. `kpc` is the place of the kernel task: waiting,
exchanging PDOs slave by slave, looking at slave states, stopped. `dpc[d]` is the
place of a data service. `rop/rtodo/rpassed` are an RPC call in progress,
`rpassed` holding the component it has tested and not yet written: the test in
`SetStateOp`/`SetStateSafeOp` and its write are two steps, because nothing
protects them.

In `RtLog`, `lpc` is the place of the RT thread in the last part of `Step` and in
`M3RtLogService::Step`, `dpc` that of `log_thread`, `apc` that of the RPC thread in
`AttachLogService` and `RemoveLogService`. Each touch of a variable that another
thread writes is a step of its own; setting a bit of `is_page_full`, a
`vector<bool>`, is a load and a store of the whole word (`rword`, `dword`), so that an
update of one thread can undo one of the other's. `page` is an index of `pages` or
`NoPage` (NULL). A use of a deleted service, of a NULL pointer or page is
`crashed`, which ends the process.

*Data.* A status message is the parity of the cycle that produced it, a command
message and a PDO one value of a small set, with `Zero` for the all-zero PDO.
Log entries, timing statistics and message texts are left out. `drove`
(components that computed commands in this cycle) is a history variable that
properties use. `Raised` stands for the code of components: it may call `SetStateError`
in any of its steps. `RtStepCommand` stands for the control components of other
packages, written from the contract in `component.h`: in OP they compute the
commands of the components they drive, out of OP they change none.

*Environment.* A slave's state may change (`FaultySlaves`), the number of slaves
on the bus may change to any other (`MayDrop`), a client may send a command or
an empty request, or hang up, an operator may call any of `RpcOps` on any
component.

*The server process.* In `RtService`, `at` is the place of the three threads of the
process: the watchdog (`service_thread`), the main thread of `m3rt_server.py` and the
RPC thread, which serves one call (`serving`) at a time. `RemoveRtSystem` is five
steps, each thread being in it on its own: the count down, the loop over the data
services, the test, `Shutdown` of the system and the deletion. `pc` is the place of
each proxy: the calls of `start()`, `stop()` and `start_log_service()` it is in, and `run`
between them. A client that is killed or hangs takes no further step, and one whose `stop()`
raises stays in `run`: clients outside are not fair. `InService` keeps the RPC thread from
beginning a call while the main thread is inside of `svc.Shutdown()`, and `BeginShutdown` waits for
the call in progress: that is Python's lock.

What can fail is named by `MayFail` and `Faults`. A system may fail to start (`StartRtSystem`). A data or a log
service may fail to start (`StartDataService`, `AttachLogService`), and then `RemoveRtSystem`
runs in the RPC thread for a client that is still attached (`rt_service.cpp:188, 241`); `stray`, a history
variable, counts how often the count has gone down for nobody who left, also by the
`stop()` of a client that was refused. A data thread may end with an error under a live
client (`DataThreadFails`), or block in `recv`, `send` or on `ext_sem` for as long as it likes
(`DataThreadBlocks`); `RemoveDataService` and the loop of `RemoveRtSystem` join it
(`rt_data_service.cpp:141-150`) and do not go on while it is blocked. Shutting down a log service that
started late may never return (`hung`). The real-time thread may end by itself, or not end within
the four seconds of `M3RtSystem::Shutdown` (`rt_system.cpp:321-330`), which then deletes the system
all the same: `orphan` is the thread that runs on. `Shutdown` of the service waits four seconds
for the watchdog, or not long enough: `ShutdownWait` may be over at any time.
A use of what another thread has deleted, and two threads in the list of data services together, are undefined: the
process may crash (`Undefined`, `UseDeleted`) or go on, and nothing is said of it once it has crashed.

Taken as one step: the test and the count down of `RmEnter`; what `IsDataServiceError` reads; the
startup of a data service up to its thread's loop (`StartServer` listens and does not block, whatever the comment at
`rt_data_service.cpp:51` says: the connection is accepted by the thread's `Step`). The loop of `RemoveRtSystem` may meet a data service
whose port is not in `ports` yet (`port = 0` in the model); reading behind the end of that list is
undefined and falls under `Undefined` (`data_start`). A real-time thread that comes up more than ten seconds after
its start has been given up (`rt_system.cpp:304`) is left out; so are the clients after the process has ended, and what `RemoveLogService`
does inside of the removal, which is in `RtLog`.

*The link.* A command and its status carry the number of the step, which only the
properties look at. A status travels as three pieces, its length and two parts of its
body, so that a read can be out of step by less than a message; a length read from
the middle of a body sends the client to `lost`, where it waits for bytes that do not
come. Time is not modelled: a timeout that needs silence is enabled when nothing
is on its way, the total timeout whenever something has been received, so a status
that is late and one that never comes are both there.

*Logs.* A page is the pair of indices in its file name; `dir` is the directories as
the server lists them. `load_log_sample` is broken at each call to the server, and each of these
may raise (`CallsMayFail`). `InfoRaises` is `_load_log` when `get_log_info` raises: the name has been taken
over at `rt_proxy.py:539` and what is known of the pages (`log_info`, of the log `info_log`) is still of the
log before. `unanswered` says that this was so when it was asked last.

*The bus and the firmware tool.* `al` is what the master shows of each slave. A check may begin on any
bus: with slaves that are not listed yet, with none at all, or with some in OP because a
process of the last session still drives them. Each
count of `ethercat_bus_init` is a step, with the master's steps in between. The
master's steps, the operator's power cycles and Ctrl-C are external. `missed` and
`forgotten` record the two ways in which the code itself loses a slave: it writes the
EEPROM back while the master does not list it, and `restart()` drops the file name
after a failed `Startup`.

*Images.* A file is a sequence of bytes; the fields before the categories, other than
the serial number, are zeros. A step is one item of a category (a string, a block of
fields, an entry, a byte) written or read, or its type, its size, its padding; the loops that
compute a size go item by item too. `seg` is the place in the loops of the open
category, and the same record serves writer and reader: the category's number and type, how many items it asks
for, how many are done, how many entries the last PDO still has. `pos` is the reader's place
in the file; `complete` is a history variable, true once the end of the categories is written.
Exceptions end the task as `raised` (writing) or
`refused` (reading), leaving the file as it is. *Windows.* A variable is a sequence of
values, and a tree's dictionary is shared between program and widget as in Python.

## Runs

| Run | Asks | Bounds |
|---|---|---|
| `cycle` | locks, error latch, commands of one cycle, replies of one cycle, with kernel synchronisation and the dry run | one slave `e1` under a chain `r2 -> r1 -> e1`, one client, two command values (symmetric), a faulty slave component, `Op` calls |
| `nosync` | the shared memory is exchanged whole, in the build where nothing but `shm_sem` orders the RT thread and the kernel task | two slaves in one domain, one client with two command values (symmetric), `OpAll` calls, a bus that may lose slaves |
| `live` | liveness: a slave in error ends with the zero command, requests are answered, stops complete; errors are final when no state call is made | one slave, one client with commands, a stop at any time |
| `error_final` | violated: a state call overwrites an error | `SafeOp` calls, a faulty `r1` |
| `log` | files are in order (refinement of `LogFile`), complete while the disk keeps up, and a removal returns | three pages of two entries, ten entries, one cycle in two is logged, a disk that may fail, a removal at any time |
| `service` | `RtService` implements `ServiceLife`; when two threads can be inside of the removal of the system; how far the count is from the clients let in; to whom a client can lose its service, and its system, while the service is not ending; what an exit can leave; Ctrl-C ends the server or a join blocks it | two clients with data services, of which one publishes, one starts a log service and may find a system that does not start, and the server's own without; every fault of `Faults`; one service that fails to start (`MaxStray = 1`, which refused clients do not count against), Ctrl-C at any time |
| `watchdog` | violated: a dropped data service does not stop the system while two clients are attached | one client, killed, and the server's own |
| `firmware` | the bus check ends, and PREOP means that as many slaves are in it as were listed at first; the tool knows of every EEPROM it owes, exits clean, and programs only a slave that runs the boot loader | a hub and a slave behind it, any of them listed or not when the check begins, two looks and two waits (5 and 10 in the code), two slaves set |
| `link` | lock step of commands and statuses until a step raises, every step ends; a sample loaded is the one asked for, or of another log after a `get_log_info` that raised; calls to the server may fail at any time | two components, three commands, of which one component fits into a packet; two logs, two sessions, pages of one or two samples, indices to 3 |
| `log_read` | violated: a sample that is there is not loaded | one log, one session |
| `gui` | what the user sets in a widget that is alone with an element, and has it once, arrives and stays; which widgets freeze the window | seven windows of two widgets, three values of which one is out of range, variables of two elements |
| `eeprom` | proper dictionaries come back byte for byte, partial files are refused | all lists of up to two of 17 categories (of every kind, and each way a category can fail), a list of three of which one shifts what is read behind it, a file of another tool, three serial numbers, one of them out of range, a second write of what was read |

Why the bounds are enough. Two command components in a chain are the least
in which the visiting order can be wrong in either direction. Two slaves in
one domain are the least that can be torn apart; `NUM_EC_DOMAIN` is a
compile-time constant, and with `NumEcDomain = 1` both slaves are in the domain
that signals. `MinTrials = 1` (500 in the code) passes both branches of the trial
counter; `MaxOverrun = 0` (5000) reaches safe real time at the first overrun,
and overruns may happen in any cycle. `MaxSync = 1` is the largest backlog
counted. One data service meets the RT thread on
`ext_sem`; that two of them exclude each other too is proved for any number.
In `log`, three pages are the
least in which one can be written, one wait and one be filled; ten entries take the
RT thread round the ring once and into the second lap, so that every index
wraps and the ring is overrun.

In `service`, two clients outside and the one inside are the least with which a
count can be wrong in either direction while somebody still runs, and two data
services the least of which the loop skips one. One service that fails to start lets the count be one too low, after which a
removal meets clients that stay. In `firmware` the hub and a slave
behind it are the least in which one power cycle takes another slave off the list;
two looks and two waits pass every branch of the loops, and two slaves set let a second one
meet what the first has left. In `link` three commands let one answer be late by
one and be taken for the next; a first published component fits and a second does not.
Two logs and two sessions let a log be replaced, and another be asked for, between any two calls
of a load. In `gui` sharing takes two widgets, and the values are one inside, one at the
edge and one outside of the range. In `eeprom` what a category writes wrongly shows
in the category after it; that nothing adds up over longer lists is what the proofs show.

Deadlock is checked where the system cannot stop, in `cycle`, `live` and
`error_final`. In `nosync`, without the kernel's synchronisation, nobody goes on once the real-time
thread has failed to start. A log session, a server process, a tool, a script and a conversion end, and a window
whose timer is gone stays as it is: `nosync`, `log`, `service`, `watchdog`,
`firmware`, `link`, `log_read`, `gui` and `eeprom` do not check deadlock.

### Fairness

All tasks are created with RTAI priority 0, so a semaphore hands over to the one
that waits longest: strong fairness of `WaitExt`, `WaitShm`, `KernelWait` and
`LockExt`. The RT thread and the kernel task are periodic and never block
elsewhere: weak fairness of `RtStepOf` and `Kernel`. A data service that has received a message goes on
by itself, an RPC call that has begun ends, and a stop that is asked for is
carried through: weak fairness. No client, operator, fault or stop request is
fair, and weak fairness of `Kernel` does not keep it from ending. In `RtLog` the RT
thread, the disk thread and an RPC call that has begun run on: weak fairness.

In `RtService` the RPC thread goes on with a call it has begun, unless it joins a thread that is
blocked: weak fairness of `Rpc`. Python's lock comes round to both of its threads, and the RPC server takes
calls in the order they come: the main thread, which can only begin `Shutdown` between two calls, and the in-process client are
served though others call again and again, which is strong fairness of `MainThread` and `ServerClient`. Nothing is
asked of the watchdog, whose end `Shutdown` does not need, of clients outside, of data threads that fail or are blocked, of the real-time
thread's end or of Ctrl-C. In `FirmwareUpdate` the script of the check runs on and the master reads the
identity of every slave it has found: weak fairness of `Check` and `Identify`; nothing
is asked of the operator. In `ProxyClient` the client's receive goes on, by a read or
a timeout: weak fairness of `Receive`, and nothing of the data service.

## Proofs

Every invariant and every action property that a passing run checks, and both refinements, are
theorems. They hold for any sets of components, slaves,
clients, pages and so on, under the assumptions the modules state of their constants, which
TLC evaluates in the runs. Where a theorem has a hypothesis of its own it is named here; those about
the service have none, and what they except is in the properties.

| Module | Theorem | Says |
|---|---|---|
| `RtSystem_proofs` | `TypeCorrect` | `TypeOK` |
| | `ExtLockHeld` | `ExtExclusive`: whoever holds `ext_sem` is alone |
| | `ShmLockHeld` | `ShmExclusive`: RT thread and kernel task never both in the shared memory |
| | `LatchHeld`, `ErrorsLatched`, `CleanlyEntered` | `LatchInv`; `ErrorLatched`: an error is latched before its cycle is over; `CleanEntry`: a thread that synchronises with the kernel enters its loop without an error |
| | `LatchKept` | `SafeopLatched`: `safeop_required` is never taken back while the loop runs |
| | `ErrorFinal` | `ErrorIsFinal` when `RpcOps = {}`: the RPC thread is the only one that loses errors |
| | `RepliesOfOneCycle` | `ReplyOfOneCycle` |
| | `CommandsInvariant`, `CommandsOfTheirCycle`, `DomainsWhole` | `CommandOfThisCycle`: one cycle brings a command down to the PDOs; `DomainSnapshot`: a domain is sent commands of one cycle |
| `RtLog_proofs` | `LogInvariant`, `LogTypeCorrect` | `TypeOK`: indices stay in the ring and the page |
| | `LosesNothing`, `SleepsWhenWritten` | `NoGap`, `KeptUpWritten`: nothing is missing while the disk keeps up, and the disk thread sleeps only when all is written |
| | `LogsInOrder` | `OrderedLog`: `RtLog` implements `LogFile` |
| `RtService_proofs` | `ServiceTypeCorrect` | `TypeOK` |
| | `ServiceInvariant`, `CountsItsClients` | `CountIsHolders`: the count is never above the clients let in, and below them at most by `stray` while the service is not ending |
| | `LeavesToTwo` | `LeftAtExit` |
| | `KeepsItsSystem` | `SystemKept`: a service that is not ending deletes its system at rest, without data services, and under no more clients than `stray` |
| `RtServiceRemoval_proofs` | `KeepsServices` | `ServiceKept`, with clients that have data services and clients that have none |
| | `RemovesOnce` | `OneRemoval`: once the server has started, while `stray = 0` and unless the wait for the watchdog has given up |
| | `LivesAsPromised` | `OwnsOneSystem`: `RtService` implements `ServiceLife`, whatever does not start and whichever wait gives up |
| `FirmwareUpdate_proofs` | `FirmwareInvariant`, `FirmwareTypeCorrect` | `TypeOK` |
| | `PreopWhenSaid` | `PreopVerdict`: at least as many slaves are in PREOP as were listed at first; all of them, if all were listed |
| | `KnowsWhatItOwes`, `LeavesClean`, `ProgramsWhatItRestores` | `RestoreKnown`, `ExitClean`, `ProgramsTarget` |
| `ProxyClient_proofs` | `ProxyClientInvariant`, `ProxyClientTypeCorrect` | `TypeOK` |
| | `StaysInStep` | `LockStep` of `DataLink` |
| | `LoadsWhatWasAsked` | `SampleOfLog` of `LogReader`, whichever calls fail, for `PathIsList` or not |
| `Gui_proofs` | `GuiInvariant`, `StopsOnlyFor`, `EditsArrive` | `FreezesOnlyFor`, `EditArrives` |
| `Eeprom_proofs` | `Eeprom_IInv`, `Eeprom_TypeOK` | `TypeOK`: the writer writes bytes only, the reader stays in the file |
| | `Eeprom_RoundTrip` | `RoundTrip`: a proper dictionary, of any length, is written whole and read back byte for byte |
| | `Eeprom_CompleteOrRefused` | `CompleteOrRefused`: a file broken off by any exception is not read as a whole one, when the categories are aligned |

### The invariants they rest on

*`RtSystem`.* `ExtExclusive` and `ShmExclusive` are inductive with `TypeOK`.
`ErrorLatched` is not: a dry cycle clears the latch, and whether the loop begins
with an error depends on what the last dry cycle returned. `LatchInv`
strengthens it with the relation of `sys_thread_active`, `dry_run`, `ret_step` and `pc`:
a dry cycle that returned success has seen no error, and between its check
and the loop only an RPC call could raise one, which it cannot, since calls
only write OP and SAFEOP. `ReplyOfOneCycle` needs that between passes all the
status messages are of the parity of `cycle`, which the status passes establish
component by component (`StatusInv`), and that a data
service that serialises does so outside a cycle (`ExtExclusive`).

`CommandOfThisCycle` is about the end of the command pass; `CommandInv` says the same of
every component visited so far, and that those visited have the higher priorities. A
component can then be driven once more only from below, which the property excludes
(`DrivenFromAbove`): without that the claim is false, for a component driven by one of lower
priority passes on the command of the cycle before. `DomainSnapshot`
needs what the PDOs are outside of a cycle (`PdoInv`), that no message names a slave that is
not published (`MessageInv`), and what has been copied of the domain under exchange
(`SentInv`); `ShmExclusive` keeps the real-time thread out meanwhile, and a shutdown
that comes then only adds zeros.

*`RtLog`.* The files are in order although two threads set bits of the same word without a
lock. What makes it so: round the ring every page is newer than the one before it (`RingOrder`),
and a bit, wherever it is (in memory, or in a word a thread has loaded), is only ever set for a page that
has been full once (`Bits`). A bit that is lost or comes back can then make the disk thread
skip a page or wait, but what it reads next is newer than what it has
written, or is being filled with its bit clear (`InOrder`), until the ring is overrun.
`KeepsUp` says which one page may be on its way while the disk keeps up.

*`RtService`.* `ServiceInv` says where the three threads can be at the same time
(`ThreadOrder`, `ServerClientOrder`), which places of a client make it a holder (`HoldersKnown`), what is gone or at rest
without a system (`EmptyBefore`), and the two bounds of the count (`CountBound`, `CountLower`): each step that takes it down does so for one
who leaves or adds one to `stray`. `ServiceKept` needs that ports are given once and only
upwards (`PortNumbers`), that a service without a port is the last one, at the place where the RPC thread is (`Starting`),
and that every service in the list is that of a holder with its port (`OwnedServices`). A proxy without a service has
`FirstPort`, so it takes its own service or that of the one who got this port. For `OneRemoval`,
`Alone` says that while no count has gone astray and the watchdog has been waited for, a second thread finds the
server's own client still counted and does not go beyond the count. `LivesAsPromised` has to follow each thread
through the removal: whichever deletes, the pointer is still set, and a system in `M3RtSystem::Startup`
(`at_start`) that another thread deletes is a failed start of `ServiceLife`.
The claim that no client outlives its system, which holds with two clients, is false with three once the
service is ending; `SystemKept` says what is left of it.

*`FirmwareUpdate`.* For the verdict, `PreopSeen` says what the counts still mean: a slave in PREOP stays there
unless something disturbs the bus, so that those counted are still in it, and `p = n` at the verdict. A count
equal to the number of slaves is a count of all of them (`CountTyped`, `CountLasts`). For the tool, `ToolInv`
says from where to where in the program it has the file of a slave, and that it owes nothing
when it asks for the next one.

*`ProxyClient`.* `OneInFlight`: while a step waits there is its command, or pieces of its answer in order,
and nothing else, in the two directions and in the data thread together; between steps both are empty
until one has raised (`Quiet`). `PageKnown` says that what the client keeps of a page is true of the log
`info_log` that its files are of, as long as it knows of any pages, and that this is the log it has the name of
unless the last `get_log_info` raised.

*`Gui`.* `EditKnown` follows an edit from the widget to its value and on to the variable; `MenusKnown` says
that a menu alone with its elements has in its value what it last retrieved, so that
the comparison in `M3GuiModes.load` does not find a difference and does not reach the name that does not exist.

*`Eeprom`.* What is read of a file depends on every byte before it, so the invariant must say what a reader
would do with what has been written so far. A *mark* is a place between two steps of a reader (`seg` and `pos`), and
`Reach` is the mark its next step takes it to. The `Trail` is a set of marks from the first category to the front of
what is written; at every mark but the front one the file has all that the step reads, the step leads to
another mark of the set, and what it reads is what the dictionary has there (`Copied`). A step of the writer adds one mark, and the
bytes it appends change nothing a mark before it reads (`Longer`): an induction over categories, items and bytes is
not needed, for the writer has made it, step by step. `Front` says where the trail ends: with the writer, at the end
of the categories in a complete file, or where a read runs off a file that was broken off (`Stops`). `Reading` says that the reader
is at a mark and that what it has read is what the dictionary has up to there. `Sized` says how far the size of a category has been
computed; for PDOs that takes `Block`, since each PDO asks for its entries and the size is the sum of them. Apart
are files of other tools (`Foreign`) and those that broke off in the fields before the categories (`Short`).

The proof found the hypothesis of `CompleteOrRefused`: every category of the dictionary is `Aligned`, that is, is
written as long as it will be read. Without it the property is false, for the reader is then out of step with
what was written, and takes a `ff ff` in the data for the end.

### Only model-checked

Liveness (`ErrorStopsSlave`, `RequestAnswered`, `StopCompletes`, `RemovalReturns`, `ServerExits`,
`CheckEnds`, `StepEnds`): fairness and `ENABLED` are out of the prover's reach. So is what TLC evaluates
once, as an assumption: that the fields before the categories are where `EEPROM_SPEC` says they are
(`FieldsValidate`), a sum over the list of fields.

## Where the code and its comments disagree

Shown by a run:

* `error_final`: `component.h:112,117` test for ERR and write without a lock;
  `component.h:47` calls ERR non-recoverable.
* `watchdog`: "Detected dropped M3RtDataService. Stopping RtSystem"
  (`rt_service.cpp:42`); with two clients attached `RemoveRtSystem` only counts one down,
  and the watchdog has ended.
* `log_read`: "Load sample idx into the subscribed components" (`rt_proxy.py:362`);
  `get_m3_log_path` returns a list, on which `get_log_dir` (`toolbox_core.py:993`) raises.

Seen while reading, and in the models without a run of their own. In the real-time core:

* `component_ec.cpp:134` raises the error of a slave only if the component is in error already.
* "All or none in OP" (`rt_system.cpp:577`); only the component in error is acted on.
* "Wait until EtherCAT mod signals finished a cycle" (`rt_system.cpp:697`); the
  semaphore counts old signals.
* "Release locks" (`rt_system.cpp:703`); `Step` waits with no timeout for a task that
  may have ended, holding `ext_sem`.
* "Set all cmds to 0" (`m3ec.c:353`); the loop runs over the number of slaves that is left.
* `component.h:45` lets a client put a component in OP; EC components put
  themselves in OP in their first `StepStatus` (`component_ec.cpp:137`).
* "Forcing all components to state SafeOp" (`rt_system.cpp:220`) is printed when
  the loop overruns too often; only components in error are sent there, and refuse.
* `rt_service.h:113`: `SetComponentStateSafeOpAll` calls `SetComponentStateOpAll`.

In the log service:

* `MarkPageEmpty` (`rt_log_service.cpp:266`) clears the mark of the page after the one
  that was written, because `GetNextPageToRead` has moved the index: of two pages that
  wait the second is lost.
* "wait in case we were stepping" (`rt_service.cpp:200`); `Step` tests the pointer before
  it sets `logging`.
* A page that cannot be written ends the disk thread, which sets `page` to NULL; the RT
  thread goes on and uses it (`rt_log_service.cpp:84,194`; `Crash` in `RtLog`).
* The pages that wait when a session ends are not written: `WriteEntry(true)` clears
  `page`, and the last `WritePagesToDisk` returns at once.
* A log thread that starts more than 100 ms late clears `log_thread_end` after a failed
  attach has set it; the attach never returns, and with it the RPC thread and, at Ctrl-C, the main thread.

In the server and its clients:

* `stop()` asks to remove the data service on `data_port`, the default 10000, for a client
  that has started without one (`data_svc` is False, not None); a client whose `start()` was
  refused counts another one down.
* A client that has published and whose service is gone raises in `stop()` and never detaches.
  Two such clients, or two that still run, are enough for the server to exit without `Shutdown` of the system.
* After a step has raised, the answer it gave up on may be taken for the next one, and all
  that follow are one step late. A chunk variable left over from before keeps a dead receive going for four seconds.
* `WriteStringToPort` returns 0 when the socket takes nothing within a second; the request
  then has no answer. A command of more than 8192 bytes ends the data thread and leaves the
  socket open. A subscription made before `start()` goes to no service. The exceptions at
  `rt_proxy.py:393,439` are made and not raised.
* A data or log service that does not start calls `RemoveRtSystem` for a
  client that stays, or that will call it once more (`rt_service.cpp:188,241`): the count is one too low, and a
  later removal takes the data service of a running client and, if none is left, the system.
* The joins of the data threads have no time limit (`rt_data_service.cpp:146`): a thread in the middle of
  a message in `recv`, or in `send`, keeps `RemoveDataService`, the server's calls and Ctrl-C waiting.
* "M3RtSystem thread did not shutdown correctly" (`rt_system.cpp:328`) is printed, the `return` under it is
  commented out, and the system is deleted under its thread.
* `_load_log` takes the name of a log before it asks for it (`rt_proxy.py:539`). When the call raises, the next
  `load_log_sample` of that log does not ask again (`:363`) and returns a sample of the log before.
* `load_log_sample` keeps the name of a log even if it was not found; `start_log_service`
  empties the directory before it looks whether there is anything to log.
* `get_log_num_samples` returns the last index; page names sort as text, which is their order up to six
  digits; `get_time_sorted_valid_logdirs` (`toolbox_core.py:925`) takes a list for a path as `get_log_dir` does.

In the tools:

* `ethercat_bus_init` counts the slaves once (`m3rt_toolbox.py:168`) and compares those in PREOP with that number
  (`:183`, `:210`): it says "All slaves in state PREOP" of a bus of which it has seen a part, or nothing.
* `ethercat_bus_init` takes slaves in PREOP off those in OP with a later command, so `o` may be
  negative, which counts as operational, and `o` is not counted again; the looks follow each
  other without a pause unless something was in error; what has come to PREOP since the last look is a failure.
* `echub_init` has an IndexError when no hub is listed. In the firmware tool it comes right after a power cycle.
* After a failed `Startup`, `restart()` forgets the EEPROM file of a slave that has the boot
  loader's. A boot loader file that is missing is found out by a TypeError. A second `set_slave`
  drops an open boot loader without its `Shutdown`. Ctrl-C in the last `shutdown` is not caught.
* `eeprom.py` shifts the vendor's bit by 2^15 places: reading gives 0, writing raises. A category of unknown
  type can be read; writing it raises after its type is in the file. `SyncMSegment` takes the last item for padding
  when it writes and reads none, so what was read and is written again has a sync manager too few in its size:
  all that follows is read from the wrong place, and a file broken off there may be read as if it were whole.
  A negative serial number leaves 28 bytes in the file.
* `widgets.py:137` uses a name that does not exist (`data_curr`): a menu whose value the program has
  changed ends the timer. Menus are filled from the first values, whatever their indices are. What the program writes to
  a variable of a writable widget is overwritten at once; a writable tree never shows it. A slider out of range changes the variable.

## What is not modelled, and why

* Startup and configuration read files and drop what fails, once, on one thread; the
  rest of the models take the lists it leaves as constants.
* `RtSystem` models a shutdown of the system as far as the wait for its thread succeeds. In `RtService`
  the wait may give up; what a thread does whose components and semaphores have been deleted
  has no outcome in the code, and there it is a crash that may come at any time.
* A real-time thread that fails to start leaves `RtStep` at `end`. That `Startup` waits for it ten
  seconds and fails then is a failed start of the system (`StartRtSystem`).
* In `LogReader`, the other queries of logs: `get_log_component_names` loads a log as `load_log_sample` does
  and reads its first page once more, `get_log_num_samples` keeps nothing.
* The kernel module's load and unload and the lock callbacks of the EtherCAT master: they are
  for the master's own threads, which are not in the repository.
* `component_async.cpp` is a base class from which nothing in the repository derives.
* Components with `virtual_mode` set are in the model (`VirtualComps`) and in
  the proofs; no run has one, since it keeps no PDO.
* The ROS service, the Python components and monitors and the scripts copy messages and start
  processes; they have no protocol of their own. The toolbox is mostly floating
  point, which is out of reach.
* PDO registration, EtherCAT master calls, protobuf and YAML are libraries or
  configuration. Parameters travel with the commands and the status and are not told apart from them.

## Plan

1. The real-time system (`M3Component`, `RtStep`, `RtSystem`), with theorems: done.
2. The log service (`LogFile`, `RtLog`), with theorems and the refinement: done.
3. The service (`ServiceLife`, `RtService`), the link (`DataLink`, `LogReader`, `ProxyClient`),
   the bus and the firmware tool (`EtherCatBus`, `FirmwareUpdate`) and the windows (`Gui`), with
   theorems: done.
4. The images (`Eeprom`), with theorems: done.
5. Failed starts, blocked threads and waits that give up in the service, calls that raise in the
   reader, a bus that is not all there in the check: done.
6. Left: what the service promises of its clients once a count has gone astray, beyond the bounds that `stray` gives.
