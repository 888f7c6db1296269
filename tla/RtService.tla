----------------------------- MODULE RtService -----------------------------
(***************************************************************************)
(* The life of the service process: M3RtService (rt_service.cpp) with its  *)
(* watchdog thread, the process around it (m3rt_server.py: main thread,    *)
(* XML-RPC thread, in-process client) and the clients (M3RtProxy of        *)
(* rt_proxy.py), from the first AttachRtSystem to the exit of the server.  *)
(*                                                                         *)
(* The RPC thread serves one call at a time. It and the main thread call   *)
(* M3RtService through SWIG, which keeps Python's lock (the GIL) for the   *)
(* whole call: neither runs while the other is inside the service. The     *)
(* watchdog and the data threads know no such lock, so RemoveRtSystem is   *)
(* cut into steps and each thread has its own place.                       *)
(*                                                                         *)
(* What the code leaves undefined, the use of what another thread has      *)
(* deleted, is a crash of the process: nothing is said of it afterwards.   *)
(***************************************************************************)
EXTENDS Naturals, Sequences, FiniteSets, SequencesExt

CONSTANTS Clients,      \* the client processes outside of the server
          Server,       \* the client inside of the server (client_thread)
          DataClients,  \* those that call start(start_data_svc=True)
          Publishers,   \* those that have published a command
          Loggers,      \* those that call start_log_service
          FirstPort,    \* next_port at the start, and data_port of every proxy
          MayFail,      \* those for which M3RtSystem::Startup may fail
          Faults,       \* what else may go wrong, of FaultKinds
          MaxStray      \* bound: a service fails to start only while stray is below

Proxies == Clients \cup {Server}
NoProxy == "nobody"

\* A data or log service does not start; a data or log thread blocks; the real-time
\* thread ends by itself; it does not end within the 4 s of M3RtSystem::Shutdown.
FaultKinds == {"misstart", "block", "die", "hang"}

ASSUME ProxyAssumption ==
  /\ Server \notin Clients /\ NoProxy \notin Proxies /\ DataClients \subseteq Proxies
  /\ IsFiniteSet(Clients) /\ Publishers \subseteq DataClients /\ Loggers \subseteq Clients
  /\ FirstPort \in Nat \ {0} /\ MayFail \subseteq Proxies /\ Faults \subseteq FaultKinds
  /\ MaxStray \in Nat

VARIABLES
  svc_thread_active, svc_thread_end,  \* the flags of the watchdog
  rt_system,           \* rt_system # NULL
  rt_active,           \* its sys_thread_active
  orphan,              \* a real-time thread runs on a system that has been deleted
  num_rtsys_attach,    \* how many clients the service believes attached
  data_services,       \* the list, as records [port, owner, error, blocked]
  next_port,
  cursor,              \* i of the loop over the list, of each thread; 0 outside of it
  at,                  \* where the threads "dog", "main" and "rpc" are
  serving,             \* the proxy whose call the RPC thread serves
  pc,                  \* where each proxy is
  data_port, data_svc, \* of each proxy; data_svc is None before start()
  holders,             \* the proxies whose attach the service has granted
  stray,               \* history: how often the count has gone down for nobody who left
  stop_signal          \* Ctrl-C has been caught

flags == <<svc_thread_active, svc_thread_end>>
system == <<rt_system, rt_active, orphan, num_rtsys_attach>>
services == <<data_services, next_port, cursor>>
proxies == <<pc, data_port, data_svc, holders>>
vars == <<flags, system, services, at, serving, proxies, stray, stop_signal>>

Calls == {"attach", "attach_data", "undo_data", "log", "rm_data", "rm_sys"}
Places == Calls \cup {"connect", "run", "done"}
Removing == {"rm_services", "rm_test", "rm_shutdown", "rm_delete"}
Threads == {"dog", "main", "rpc"}
DogPlaces == {"boot", "loop", "check", "report", "rm_enter", "exit", "ended"} \cup Removing
MainPlaces == {"startup", "client", "loop", "sd_wait", "rm_enter", "stop_client", "stop_server",
               "exited", "crashed"} \cup Removing
RpcPlaces == {"idle", "attach", "at_start", "attach_data", "data_start", "undo_data", "log",
              "hung", "rm_data", "rm_enter", "closed"} \cup Removing

TypeOK ==
  /\ {svc_thread_active, svc_thread_end, rt_system, rt_active, orphan, stop_signal} \subseteq BOOLEAN
  /\ num_rtsys_attach \in Nat /\ stray \in Nat
  /\ data_services \in Seq([port : Nat, owner : Proxies, error : BOOLEAN, blocked : BOOLEAN])
  /\ next_port \in Nat /\ cursor \in [Threads -> Nat]
  /\ at \in [dog : DogPlaces, main : MainPlaces, rpc : RpcPlaces]
  /\ serving \in Proxies \cup {NoProxy}
  /\ serving # NoProxy <=> at.rpc \notin {"idle", "closed"}
  /\ pc \in [Proxies -> Places]
  /\ data_port \in [Proxies -> Nat]
  /\ data_svc \in [Proxies -> {"None", "True", "False"}]
  /\ holders \subseteq Proxies

Init ==
  /\ svc_thread_active = FALSE /\ svc_thread_end = FALSE
  /\ rt_system = FALSE /\ rt_active = FALSE /\ orphan = FALSE /\ num_rtsys_attach = 0
  /\ data_services = <<>> /\ next_port = FirstPort /\ cursor = [t \in Threads |-> 0]
  /\ at = [dog |-> "boot", main |-> "startup", rpc |-> "closed"]
  /\ serving = NoProxy
  /\ pc = [c \in Proxies |-> "attach"]
  /\ data_port = [c \in Proxies |-> FirstPort]
  /\ data_svc = [c \in Proxies |-> "None"]
  /\ holders = {} /\ stray = 0 /\ stop_signal = FALSE

(***************************************************************************)
(* The service.                                                            *)
(***************************************************************************)
Goto(t, place) == at' = [at EXCEPT ![t] = place]

\* The RPC thread answers the proxy it serves, which goes on at place.
Reply(place) ==
  /\ pc' = [pc EXCEPT ![serving] = place]
  /\ serving' = NoProxy
  /\ Goto("rpc", "idle")

\* The process ends where undefined behaviour has brought it.
Crashed ==
  /\ at' = [dog |-> "ended", main |-> "crashed", rpc |-> "closed"]
  /\ serving' = NoProxy
  /\ UNCHANGED <<flags, system, services, proxies, stray, stop_signal>>

\* stop() asks to remove a data service when data_svc is not None, which is so
\* for a client that has said start_data_svc=False, too.
StopCall(c) == IF data_svc[c] = "None" THEN "rm_sys" ELSE "rm_data"

\* stop() of a proxy that has been let in; start() and start_log_service() take the
\* count down when a service does not start, and their proxy stays.
Leaves == pc[serving] = "rm_sys" /\ serving \in holders

\* RemoveRtSystem returns to its caller.
AfterRemoval ==
  IF pc[serving] = "log" THEN "run"
  ELSE IF pc[serving] = "attach_data" THEN StopCall(serving) ELSE "done"
Return(t) ==
  CASE t = "dog"  -> Goto("dog", "exit") /\ UNCHANGED <<serving, pc, holders>>
    [] t = "main" -> Goto("main", "stop_client") /\ UNCHANGED <<serving, pc, holders>>
    [] t = "rpc"  -> /\ Reply(AfterRemoval)
                     /\ holders' = IF Leaves THEN holders \ {serving} ELSE holders

\* Mutant: the last but one to leave takes the system down.
RmEnterEarly(t) ==
  /\ at[t] = "rm_enter"
  /\ \/ /\ ~rt_system \/ num_rtsys_attach > 2
        /\ num_rtsys_attach' = IF rt_system THEN num_rtsys_attach - 1 ELSE 0
        /\ Return(t)
        /\ UNCHANGED cursor
     \/ /\ rt_system /\ num_rtsys_attach <= 2
        /\ cursor' = [cursor EXCEPT ![t] = 1]
        /\ Goto(t, "rm_services")
        /\ UNCHANGED <<num_rtsys_attach, serving, pc, holders>>
  /\ UNCHANGED <<flags, rt_system, rt_active, orphan, data_services, next_port, data_port,
                 data_svc, stray, stop_signal>>

\* No system, or not the last one attached: only the count changes.
RmEnter(t) ==
  /\ at[t] = "rm_enter"
  /\ stray' = IF t = "rpc" /\ ~Leaves /\ rt_system /\ num_rtsys_attach > 0
                THEN stray + 1 ELSE stray
  /\ \/ /\ ~rt_system \/ num_rtsys_attach > 1
        /\ num_rtsys_attach' = IF rt_system THEN num_rtsys_attach - 1 ELSE 0
        /\ Return(t)
        /\ UNCHANGED cursor
     \/ /\ rt_system /\ num_rtsys_attach <= 1
        /\ cursor' = [cursor EXCEPT ![t] = 1]
        /\ Goto(t, "rm_services")
        /\ UNCHANGED <<num_rtsys_attach, serving, pc, holders>>
  /\ UNCHANGED <<flags, rt_system, rt_active, orphan, data_services, next_port, data_port,
                 data_svc, stop_signal>>

\* The loop goes over the list by index while RemoveDataService, which waits for
\* the data thread, erases the element it stands on: the one behind is skipped. A
\* service that has no port yet is passed over.
RmServices(t) ==
  /\ at[t] = "rm_services"
  /\ LET i == cursor[t] IN
     \/ /\ i > Len(data_services)
        /\ cursor' = [cursor EXCEPT ![t] = 0]
        /\ Goto(t, "rm_test")
        /\ UNCHANGED data_services
     \/ /\ i <= Len(data_services) /\ data_services[i].port = 0
        /\ cursor' = [cursor EXCEPT ![t] = i + 1]
        /\ UNCHANGED <<data_services, at>>
     \/ /\ i <= Len(data_services) /\ data_services[i].port # 0 /\ ~data_services[i].blocked
        /\ data_services' = RemoveAt(data_services, i)
        /\ cursor' = [cursor EXCEPT ![t] = i + 1]
        /\ UNCHANGED at
  /\ UNCHANGED <<flags, system, next_port, serving, proxies, stray, stop_signal>>

MayTearDown == (data_services = <<>> /\ ~rt_active) \/ svc_thread_end

RmTest(t) ==
  /\ at[t] = "rm_test" /\ rt_system
  /\ \/ /\ MayTearDown
        /\ Goto(t, "rm_shutdown")
        /\ UNCHANGED <<num_rtsys_attach, serving, pc, holders>>
     \/ /\ ~MayTearDown
        /\ num_rtsys_attach' = 0
        /\ Return(t)
  /\ UNCHANGED <<flags, rt_system, rt_active, orphan, services, data_port, data_svc, stray,
                 stop_signal>>

\* M3RtSystem::Shutdown waits for the real-time thread, but not for good, and goes
\* on. (The log service goes before it: RtLog.)
RmShutdown(t) ==
  /\ at[t] = "rm_shutdown" /\ rt_system
  /\ rt_active' = FALSE \/ ("hang" \in Faults /\ UNCHANGED rt_active)
  /\ Goto(t, "rm_delete")
  /\ UNCHANGED <<flags, rt_system, orphan, num_rtsys_attach, services, serving, proxies, stray,
                 stop_signal>>

RmDelete(t) ==
  /\ at[t] = "rm_delete"
  /\ rt_system' = FALSE /\ num_rtsys_attach' = 0
  /\ rt_active' = FALSE /\ orphan' = (orphan \/ rt_active)
  /\ Return(t)
  /\ UNCHANGED <<flags, services, data_port, data_svc, stray, stop_signal>>

\* The thread goes on with a system that another one has deleted.
UseDeleted(t) ==
  /\ ~rt_system /\ at[t] \in {"at_start", "rm_test", "rm_shutdown"}
  /\ Crashed

RemoveRtSystem(t) ==
  RmEnter(t) \/ RmServices(t) \/ RmTest(t) \/ RmShutdown(t) \/ RmDelete(t) \/ UseDeleted(t)

\* Mutant: the attach is not counted.
GrantUncounted ==
  /\ holders' = holders \cup {serving}
  /\ data_svc' = [data_svc EXCEPT ![serving] = IF serving \in DataClients THEN "True" ELSE "False"]
  /\ Reply(IF serving \in DataClients THEN "attach_data" ELSE "run")
  /\ UNCHANGED num_rtsys_attach

\* The attach of the proxy that is served is counted and answered.
Grant ==
  /\ num_rtsys_attach' = num_rtsys_attach + 1
  /\ holders' = holders \cup {serving}
  /\ data_svc' = [data_svc EXCEPT ![serving] = IF serving \in DataClients THEN "True" ELSE "False"]
  /\ Reply(IF serving \in DataClients THEN "attach_data" ELSE "run")

\* Mutant: a service that is ending takes clients, too.
IsSvcActiveFlag == svc_thread_active

IsSvcActive == svc_thread_active /\ ~svc_thread_end

AttachRtSystem ==
  /\ at.rpc = "attach"
  /\ \/ /\ ~IsSvcActive
        /\ Reply(StopCall(serving))
        /\ UNCHANGED <<rt_system, num_rtsys_attach, holders, data_svc>>
     \/ /\ IsSvcActive /\ rt_system
        /\ Grant
        /\ UNCHANGED rt_system
     \/ /\ IsSvcActive /\ ~rt_system
        /\ rt_system' = TRUE
        /\ Goto("rpc", "at_start")
        /\ UNCHANGED <<num_rtsys_attach, holders, serving, pc, data_svc>>
  /\ UNCHANGED <<flags, rt_active, orphan, services, data_port, stray, stop_signal>>

\* M3RtSystem::Startup. After a failure the proxy calls stop() before it raises.
StartRtSystem ==
  /\ at.rpc = "at_start" /\ rt_system
  /\ \/ rt_active' = TRUE /\ Grant /\ UNCHANGED rt_system
     \/ /\ serving \in MayFail
        /\ rt_system' = FALSE /\ num_rtsys_attach' = 0
        /\ Reply("rm_sys")
        /\ UNCHANGED <<rt_active, holders, data_svc>>
  /\ UNCHANGED <<flags, orphan, services, data_port, stray, stop_signal>>

\* The service is in the list before its port is in the other one.
AttachDataService ==
  /\ at.rpc = "attach_data"
  /\ \/ /\ ~rt_system \/ svc_thread_end
        /\ Reply(StopCall(serving))
        /\ UNCHANGED data_services
     \/ /\ rt_system /\ ~svc_thread_end
        /\ data_services' = Append(data_services,
             [port |-> 0, owner |-> serving, error |-> FALSE, blocked |-> FALSE])
        /\ Goto("rpc", "data_start")
        /\ UNCHANGED <<serving, pc>>
  /\ UNCHANGED <<flags, system, next_port, cursor, data_port, data_svc, holders, stray,
                 stop_signal>>

Misstart == "misstart" \in Faults /\ stray < MaxStray

\* A service that does not start takes the system of a proxy with it that is let in.
StartDataService ==
  /\ at.rpc = "data_start"
  /\ \/ /\ data_services' = [data_services EXCEPT ![Len(data_services)].port = next_port]
        /\ next_port' = next_port + 1
        /\ data_port' = [data_port EXCEPT ![serving] = next_port]
        /\ Reply("connect")
     \/ /\ Misstart
        /\ data_services' = Front(data_services)
        /\ Goto("rpc", "rm_enter")
        /\ UNCHANGED <<next_port, data_port, serving, pc>>
  /\ UNCHANGED <<flags, system, cursor, data_svc, holders, stray, stop_signal>>

\* A log service that does not start is shut down, which may wait for ever for a
\* thread that has started late and taken the request to end back; then the system
\* of a client goes that stays. (What a log service does once it runs: RtLog.)
AttachLogService ==
  /\ at.rpc = "log"
  /\ \/ Reply("run")
     \/ /\ rt_system /\ Misstart
        /\ Goto("rpc", "rm_enter") \/ ("block" \in Faults /\ Goto("rpc", "hung"))
        /\ UNCHANGED <<serving, pc>>
  /\ UNCHANGED <<flags, system, services, data_port, data_svc, holders, stray, stop_signal>>

\* Mutant: the first service of the list goes, whoever owns it.
OtherPortFirst(s, port) == IF s = <<>> THEN s ELSE Tail(s)

\* No port is given twice.
OtherPort(s, port) ==
  IF \E i \in 1..Len(s) : s[i].port = port
  THEN RemoveAt(s, CHOOSE i \in 1..Len(s) : s[i].port = port)
  ELSE s

\* The service at the port of the proxy that is served.
AtPort(i) == data_services[i].port = data_port[serving]

\* RemoveDataService(self.data_port), from stop() or after a failed connect: it
\* waits for the data thread.
RemoveDataService ==
  /\ at.rpc \in {"rm_data", "undo_data"}
  /\ \A i \in 1..Len(data_services) : AtPort(i) => ~data_services[i].blocked
  /\ data_services' = OtherPort(data_services, data_port[serving])
  /\ Reply(IF at.rpc = "rm_data" THEN "rm_sys" ELSE StopCall(serving))
  /\ UNCHANGED <<flags, system, next_port, cursor, data_port, data_svc, holders, stray,
                 stop_signal>>

\* Where the main thread is inside of the service, with Python's lock.
InService == {"sd_wait", "rm_enter"} \cup Removing

\* The XML-RPC server takes the call of one proxy.
Free == at.rpc = "idle" /\ at.main \notin InService
Take(c) ==
  /\ Free /\ pc[c] \in Calls
  /\ serving' = c
  /\ Goto("rpc", IF pc[c] = "rm_sys" THEN "rm_enter" ELSE pc[c])
  /\ UNCHANGED <<flags, system, services, proxies, stray, stop_signal>>

Rpc ==
  \/ AttachRtSystem \/ StartRtSystem \/ AttachDataService \/ StartDataService
  \/ AttachLogService \/ RemoveDataService \/ RemoveRtSystem("rpc")

(***************************************************************************)
(* The watchdog: service_thread.                                           *)
(***************************************************************************)
DogBoot ==
  /\ at.dog = "boot"
  /\ svc_thread_end' = FALSE
  /\ Goto("dog", "loop")
  /\ UNCHANGED <<svc_thread_active, system, services, serving, proxies, stray, stop_signal>>

DogLoop ==
  /\ at.dog = "loop"
  /\ \/ svc_thread_end /\ Goto("dog", "exit") /\ UNCHANGED svc_thread_active
     \/ ~svc_thread_end /\ svc_thread_active' = TRUE /\ Goto("dog", "check")
  /\ UNCHANGED <<svc_thread_end, system, services, serving, proxies, stray, stop_signal>>

IsDataServiceError == \E i \in 1..Len(data_services) : data_services[i].error

DogCheck ==
  /\ at.dog = "check"
  /\ Goto("dog", IF IsDataServiceError THEN "report" ELSE "loop")
  /\ UNCHANGED <<flags, system, services, serving, proxies, stray, stop_signal>>

\* "Detected dropped M3RtDataService. Stopping RtSystem", whatever has become of it.
DogReport ==
  /\ at.dog = "report"
  /\ svc_thread_end' = TRUE
  /\ Goto("dog", "rm_enter")
  /\ UNCHANGED <<svc_thread_active, system, services, serving, proxies, stray, stop_signal>>

DogExit ==
  /\ at.dog = "exit"
  /\ svc_thread_active' = FALSE
  /\ Goto("dog", "ended")
  /\ UNCHANGED <<svc_thread_end, system, services, serving, proxies, stray, stop_signal>>

Dog ==
  DogBoot \/ DogLoop \/ DogCheck \/ DogReport \/ DogExit \/ RemoveRtSystem("dog")

(***************************************************************************)
(* The proxies: start() and stop() of M3RtProxy.                           *)
(***************************************************************************)
\* The process has not come to its end; what the clients do later is left out.
Runs == at.main \notin {"exited", "crashed"}

Move(c, place) ==
  /\ Runs
  /\ pc' = [pc EXCEPT ![c] = place]
  /\ UNCHANGED <<flags, system, services, at, serving, data_port, data_svc, holders, stray,
                 stop_signal>>

HasService(c) == \E i \in 1..Len(data_services) : data_services[i].owner = c
Alive(c) == \E i \in 1..Len(data_services) :
              data_services[i].owner = c /\ ~data_services[i].error

\* socket.connect; when it fails __stop_data_service takes the service back.
Connect(c) ==
  /\ pc[c] = "connect"
  /\ \/ Alive(c) /\ Move(c, "run")
     \/ Move(c, "undo_data")

\* stop() steps once for each published command first; without its service the
\* step raises, and nothing is ever given back.
Stop(c) == pc[c] = "run" /\ (c \in Publishers => Alive(c)) /\ Move(c, StopCall(c))

\* A running client's call of start_log_service is taken.
Log(c) ==
  /\ Free /\ c \in Loggers /\ pc[c] = "run"
  /\ pc' = [pc EXCEPT ![c] = "log"]
  /\ serving' = c
  /\ Goto("rpc", "log")
  /\ UNCHANGED <<flags, system, services, data_port, data_svc, holders, stray, stop_signal>>

\* There is no RPC server yet: a socket.error.
Refused(c) == at.rpc = "closed" /\ pc[c] \in Calls /\ Move(c, "done")

Proxy(c) == Take(c) \/ Connect(c) \/ Stop(c) \/ Log(c) \/ Refused(c)

(***************************************************************************)
(* What happens to the threads of the process by itself.                   *)
(***************************************************************************)
\* A data thread leaves its loop with an error: its client has hung up or has been
\* killed, or what came over the link was not a packet.
DataThreadFails ==
  /\ Runs
  /\ \E i \in 1..Len(data_services) :
       /\ ~data_services[i].error /\ ~data_services[i].blocked
       /\ data_services' = [data_services EXCEPT ![i].error = TRUE]
  /\ UNCHANGED <<flags, system, next_port, cursor, at, serving, proxies, stray, stop_signal>>

\* Service i is being removed: its thread has been asked to end, and looks at the
\* request before it reads from its client again.
Joined(i) ==
  \/ \E t \in Threads : at[t] = "rm_services" /\ cursor[t] = i
  \/ at.rpc \in {"rm_data", "undo_data"} /\ AtPort(i)

\* A data thread waits in recv for the rest of a message, in send for its client to
\* read, or for ext_sem; nothing says for how long.
DataThreadBlocks ==
  /\ Runs /\ "block" \in Faults
  /\ \E i \in 1..Len(data_services) :
       /\ ~data_services[i].error /\ ~data_services[i].blocked /\ ~Joined(i)
       /\ pc[data_services[i].owner] = "run"
       /\ data_services' = [data_services EXCEPT ![i].blocked = TRUE]
  /\ UNCHANGED <<flags, system, next_port, cursor, at, serving, proxies, stray, stop_signal>>

DataThreadGoesOn ==
  /\ Runs
  /\ \E i \in 1..Len(data_services) :
       /\ data_services[i].blocked
       /\ data_services' = [data_services EXCEPT ![i].blocked = FALSE]
  /\ UNCHANGED <<flags, system, next_port, cursor, at, serving, proxies, stray, stop_signal>>

RtThreadDies ==
  /\ Runs /\ "die" \in Faults /\ rt_active
  /\ rt_active' = FALSE
  /\ UNCHANGED <<flags, rt_system, orphan, num_rtsys_attach, services, at, serving, proxies,
                 stray, stop_signal>>

\* Threads use what has been deleted, or two are in the list of data services: from
\* then on the process may crash.
InList == {t \in Threads : at[t] \in {"rm_services", "data_start", "rm_data", "undo_data"}}
Undefined ==
  /\ Runs
  /\ \/ orphan
     \/ Cardinality(InList) > 1
     \/ ~rt_system /\ data_services # <<>>
  /\ Crashed

(***************************************************************************)
(* The main thread: m3rt_server.py.                                        *)
(***************************************************************************)
Exit == at' = [dog |-> "ended", main |-> "exited", rpc |-> "closed"]

\* svc.Startup() waits 100 ms for the watchdog and fails if it is not there;
\* then the RPC server starts, and the client thread's proxy.start().
MainStartup ==
  /\ at.main = "startup"
  /\ \/ ~svc_thread_active /\ Exit
     \/ /\ svc_thread_active
        /\ at' = [at EXCEPT !.main = "client", !.rpc = "idle"]
  /\ UNCHANGED <<flags, system, services, serving, proxies, stray, stop_signal>>

IsRtSystemOperational == rt_system /\ rt_active

\* svc.Shutdown() asks the watchdog to end. It is called with Python's lock, so
\* the RPC thread is not inside of the service.
BeginShutdown ==
  /\ serving = NoProxy
  /\ svc_thread_end' = TRUE
  /\ Goto("main", "sd_wait")

\* proxy.start() of the client thread has returned, or raised.
MainClient ==
  /\ at.main = "client"
  /\ \/ pc[Server] = "run" /\ Goto("main", "loop") /\ UNCHANGED svc_thread_end
     \/ pc[Server] = "done" /\ BeginShutdown
  /\ UNCHANGED <<svc_thread_active, system, services, serving, proxies, stray, stop_signal>>

\* Mutant: the loop does not look at Ctrl-C.
MainLoopDeaf ==
  /\ at.main = "loop"
  /\ ~IsRtSystemOperational
  /\ BeginShutdown
  /\ UNCHANGED <<svc_thread_active, system, services, serving, proxies, stray, stop_signal>>

MainLoop ==
  /\ at.main = "loop"
  /\ ~IsRtSystemOperational \/ stop_signal
  /\ BeginShutdown
  /\ UNCHANGED <<svc_thread_active, system, services, serving, proxies, stray, stop_signal>>

\* The watchdog has ended, or 4 s are over.
ShutdownWait ==
  /\ at.main = "sd_wait"
  /\ Goto("main", "rm_enter")
  /\ UNCHANGED <<flags, system, services, serving, proxies, stray, stop_signal>>

\* Mutant: the client inside of the server is not stopped.
StopClientNot ==
  /\ at.main = "stop_client"
  /\ Goto("main", "stop_server")
  /\ UNCHANGED <<flags, system, services, serving, proxies, stray, stop_signal>>

StopClient ==
  /\ at.main = "stop_client"
  /\ \/ pc[Server] = "run" /\ Move(Server, StopCall(Server))
     \/ /\ pc[Server] = "done"
        /\ Goto("main", "stop_server")
        /\ UNCHANGED <<flags, system, services, serving, proxies, stray, stop_signal>>

\* Mutant: the RPC server is closed under the call it serves.
StopServerAtOnce ==
  /\ at.main = "stop_server"
  /\ Exit
  /\ UNCHANGED <<flags, system, services, serving, proxies, stray, stop_signal>>

\* server.shutdown() returns when the call that is being served is over.
StopServer ==
  /\ at.main = "stop_server" /\ at.rpc = "idle"
  /\ Exit
  /\ UNCHANGED <<flags, system, services, serving, proxies, stray, stop_signal>>

MainThread ==
  \/ MainStartup \/ MainClient \/ MainLoop \/ ShutdownWait \/ StopClient \/ StopServer
  \/ RemoveRtSystem("main")

Signal ==
  /\ at.main \in {"startup", "client", "loop"} /\ ~stop_signal
  /\ stop_signal' = TRUE
  /\ UNCHANGED <<flags, system, services, at, serving, proxies, stray>>

ServerClient == Take(Server) \/ Connect(Server)

Next ==
  \/ Rpc \/ Dog \/ MainThread \/ ServerClient
  \/ \E c \in Clients : Proxy(c)
  \/ DataThreadFails \/ DataThreadBlocks \/ DataThreadGoesOn \/ RtThreadDies
  \/ Undefined \/ Signal

Spec == Init /\ [][Next]_vars

\* The two threads of the server run, and Python's lock comes round; nothing is asked
\* of the watchdog, of the clients outside, whose calls may wait for ever, of errors,
\* of a thread that is blocked or of the operator.
FairSpec ==
  /\ Spec
  /\ WF_vars(Rpc) /\ SF_vars(MainThread) /\ SF_vars(ServerClient)

(***************************************************************************)
(* Properties.                                                             *)
(***************************************************************************)

\* The service as ServiceLife describes it: its system exists while the pointer
\* is set, and rests once its thread has ended.
Life == INSTANCE ServiceLife WITH
  system <- IF ~rt_system THEN "none"
            ELSE IF at.rpc = "at_start" THEN "created"
            ELSE IF rt_active THEN "running" ELSE "resting",
  ending <- svc_thread_end

\* RtService implements ServiceLife: whatever the watchdog, the main thread and
\* the RPC thread do at the same time, and whatever fails, no system is created by
\* a service that is ending, and one that runs is deleted only by a service that is
\* ending, whose wait for the real-time thread was over (AttachRtSystem,
\* RemoveRtSystem, M3RtSystem::Shutdown).
OwnsOneSystem == Life!Spec

\* Once the server has started, two threads are inside the removal of one system,
\* which has no lock, only if the main thread's wait for the watchdog was over too
\* early, or the count has gone down for somebody who did not leave: the second
\* would use what the first has deleted (RemoveRtSystem).
GaveUp == svc_thread_active /\ at.main \notin {"startup", "client", "loop", "sd_wait"}
OneRemoval ==
  at.main # "client" /\ stray = 0 /\ ~GaveUp
    => Cardinality({t \in Threads : at[t] \in Removing}) <= 1

\* The count is never above the number of clients that the service has let in and
\* that have not left, the killed ones included; and until the service is ending
\* it is below only by what was taken down for nobody (num_rtsys_attach).
CountIsHolders ==
  /\ num_rtsys_attach <= Cardinality(holders)
  /\ ~svc_thread_end => Cardinality(holders) <= num_rtsys_attach + stray

\* As long as the service is not ending, a client that is running loses its data
\* service in two ways only: a proxy that has none gives back the default port, or
\* the count says that the last one leaves, with at most one more let in than counts
\* went down for nobody (RemoveDataService, and the loop of RemoveRtSystem).
ServiceKept ==
  [][\A c \in Clients : pc[c] = "run" /\ HasService(c) /\ ~HasService(c)' =>
       \/ svc_thread_end
       \/ at.rpc = "rm_data" /\ data_port[serving] = FirstPort /\ ~HasService(serving)
       \/ Cardinality(holders) <= stray + 1]_vars

\* The system is deleted under nobody who counts: as long as the service is not
\* ending it goes with the last data service, its thread at rest, and with no more
\* clients left in it than counts went down for nobody (the count and the loop of
\* RemoveRtSystem, whichever of its returns was taken before). Once the service is
\* ending it is deleted in any case, under the services that the loop has skipped, too.
SystemKept ==
  [][rt_system /\ ~rt_system' =>
       \/ svc_thread_end
       \/ ~rt_active /\ data_services' = <<>> /\ Cardinality(holders') <= stray']_vars

\* If the process exits and leaves its system, then at least two clients outside
\* were still attached: with at most one the components have been shut down
\* (m3rt_server.py's Shutdown and its client's stop() each count one down).
LeftAtExit ==
  at.main = "exited" /\ rt_system => Cardinality(holders \ {Server}) >= 2

\* Ctrl-C ends the server, whatever the clients and their services do, unless the
\* main thread or the RPC thread waits for good for a data or log thread that is
\* blocked (the joins of RemoveDataService and AttachLogService have no time limit).
Waits(t) ==
  \/ at[t] = "rm_services" /\ cursor[t] \in {i \in DOMAIN data_services : data_services[i].blocked}
  \/ at[t] \in {"rm_data", "undo_data"}
       /\ \E i \in DOMAIN data_services : AtPort(i) /\ data_services[i].blocked
  \/ at[t] = "hung"
ServerExits ==
  \/ <>[](stop_signal => at.main \in {"exited", "crashed"})
  \/ <>[](Waits("main") \/ Waits("rpc"))

\* When the watchdog has seen a data service fail it stops the real-time system.
DroppedStopsSystem == at.dog = "ended" /\ at.main = "loop" => ~rt_system
=============================================================================
