-------------------------- MODULE RtService_proofs --------------------------
(***************************************************************************)
(* Theorems about RtService for any clients, ports and faults: what each   *)
(* step changes and the types; then what the service, its threads and its  *)
(* clients know of one another in every state, and what follows: how far   *)
(* the count of clients may be from the clients, that the system is        *)
(* deleted under nobody who counts, and that it is not left behind at the  *)
(* exit of the server.                                                     *)
(***************************************************************************)
EXTENDS RtService, FiniteSetTheorems, SequenceTheorems, TLAPS

USE DEF Proxies, Calls, Places, Removing, Threads, DogPlaces, MainPlaces, RpcPlaces, InService

-----------------------------------------------------------------------------
(* The operations on the list of data services.                            *)

(* The type of an element of data_services.                                *)
Services == [port : Nat, owner : Proxies, error : BOOLEAN, blocked : BOOLEAN]

(* RemoveAt leaves out one element and keeps the others.                   *)
LEMMA RemoveAtElements ==
  ASSUME NEW S, NEW s \in Seq(S), NEW i \in 1..Len(s)
  PROVE  /\ RemoveAt(s, i) \in Seq(S)
         /\ Len(RemoveAt(s, i)) = Len(s) - 1
         /\ \A j \in 1..(Len(s) - 1) : RemoveAt(s, i)[j] = IF j < i THEN s[j] ELSE s[j + 1]
<1> DEFINE a == SubSeq(s, 1, i - 1)
           b == SubSeq(s, i + 1, Len(s))
<1>1. a \in Seq(S) /\ Len(a) = i - 1 /\ \A j \in 1..(i - 1) : a[j] = s[j]
  BY SubSeqProperties
<1>2. b \in Seq(S) /\ Len(b) = Len(s) - i /\ \A j \in 1..(Len(s) - i) : b[j] = s[i + j]
  BY SubSeqProperties
<1>3. RemoveAt(s, i) = a \o b
  BY DEF RemoveAt
<1> HIDE DEF a, b
<1>4. /\ a \o b \in Seq(S) /\ Len(a \o b) = Len(a) + Len(b)
      /\ \A j \in 1..(Len(a) + Len(b)) : (a \o b)[j] = IF j <= Len(a) THEN a[j] ELSE b[j - Len(a)]
  BY <1>1, <1>2, ConcatProperties
<1>5. ASSUME NEW j \in 1..(Len(s) - 1)
      PROVE  (a \o b)[j] = IF j < i THEN s[j] ELSE s[j + 1]
  <2>1. CASE j < i
    BY <1>1, <1>2, <1>4, <2>1
  <2>2. CASE ~(j < i)
    <3>1. j - (i - 1) \in 1..(Len(s) - i) /\ i + (j - (i - 1)) = j + 1
      BY <2>2
    <3>2. (a \o b)[j] = b[j - (i - 1)]
      BY <1>1, <1>2, <1>4, <2>2
    <3> QED
      BY <1>2, <2>2, <3>1, <3>2
  <2> QED
    BY <2>1, <2>2
<1>6. Len(a) + Len(b) = Len(s) - 1
  BY <1>1, <1>2
<1> QED
  BY <1>3, <1>4, <1>5, <1>6

(* What is left of the services after one port has been removed: the       *)
(* others, at their places or one place before.                            *)
LEMMA OtherPortElements ==
  ASSUME NEW s \in Seq(Services), NEW port
  PROVE  /\ OtherPort(s, port) \in Seq(Services)
         /\ Len(OtherPort(s, port)) \in {Len(s), Len(s) - 1}
         /\ \/ OtherPort(s, port) = s /\ \A j \in 1..Len(s) : s[j].port # port
            \/ \E i \in 1..Len(s) :
                 /\ s[i].port = port
                 /\ Len(OtherPort(s, port)) = Len(s) - 1
                 /\ \A j \in 1..(Len(s) - 1) :
                      OtherPort(s, port)[j] = IF j < i THEN s[j] ELSE s[j + 1]
<1>1. CASE \E i \in 1..Len(s) : s[i].port = port
  <2> DEFINE i == CHOOSE i \in 1..Len(s) : s[i].port = port
  <2>1. i \in 1..Len(s) /\ s[i].port = port
    BY <1>1
  <2>2. OtherPort(s, port) = RemoveAt(s, i)
    BY <1>1 DEF OtherPort
  <2> HIDE DEF i
  <2> QED
    BY <2>1, <2>2, RemoveAtElements
<1>2. CASE ~\E i \in 1..Len(s) : s[i].port = port
  BY <1>2 DEF OtherPort
<1> QED
  BY <1>1, <1>2

(* Front leaves out the last element.                                      *)
LEMMA FrontElements ==
  ASSUME NEW S, NEW s \in Seq(S), s # <<>>
  PROVE  /\ Front(s) \in Seq(S) /\ Len(s) \in Nat \ {0} /\ Len(Front(s)) = Len(s) - 1
         /\ \A j \in 1..(Len(s) - 1) : Front(s)[j] = s[j]
<1>1. Len(s) \in Nat /\ Len(s) # 0
  BY EmptySeq
<1> DEFINE n == Len(s) - 1
<1>2. n \in Nat /\ n = Len(s) - 1 /\ \A i \in 1..n : s[i] \in S
  BY <1>1
<1> HIDE DEF n
<1>3. /\ SubSeq(s, 1, n) \in Seq(S) /\ Len(SubSeq(s, 1, n)) = n
      /\ \A j \in 1..n : SubSeq(s, 1, n)[j] = s[j]
  <2>1. /\ SubSeq(s, 1, n) \in Seq(S)
        /\ Len(SubSeq(s, 1, n)) = IF 1 <= n THEN n - 1 + 1 ELSE 0
        /\ \A j \in 1..(n - 1 + 1) : SubSeq(s, 1, n)[j] = s[1 + j - 1]
    BY <1>1, <1>2, SubSeqProperties
  <2> QED
    BY <1>2, <2>1
<1>4. Front(s) = SubSeq(s, 1, n)
  BY DEF Front, n
<1> QED
  BY <1>1, <1>2, <1>3, <1>4

(* A field of one element changes, and nothing else.                       *)
LEMMA ExceptElements ==
  ASSUME NEW s \in Seq(Services), NEW i \in 1..Len(s), NEW e \in Services,
         NEW r, r = [s EXCEPT ![i] = e]
  PROVE  /\ r \in Seq(Services) /\ Len(r) = Len(s)
         /\ \A j \in 1..Len(s) : r[j] = IF j = i THEN e ELSE s[j]
BY ExceptSeq

-----------------------------------------------------------------------------
(* What each step does, for the proofs that follow: where the threads go,  *)
(* and every variable that changes.                                        *)

USE DEF flags, system, services, proxies

(* The list is one of services.                                            *)
LEMMA ServiceElements ==
  ASSUME TypeOK
  PROVE  /\ data_services \in Seq(Services) /\ Len(data_services) \in Nat
         /\ \A i \in 1..Len(data_services) : data_services[i] \in Services
<1>1. data_services \in Seq(Services)
  BY DEF TypeOK, Services
<1> QED
  BY <1>1, ElementOfSeq

(* Only thread t moves, to place.                                          *)
Went(t, place) ==
  at' = [dog  |-> IF t = "dog" THEN place ELSE at.dog,
         main |-> IF t = "main" THEN place ELSE at.main,
         rpc  |-> IF t = "rpc" THEN place ELSE at.rpc]

(* A Goto of one thread, as the places of the three.                       *)
LEMMA WentStep ==
  ASSUME TypeOK, NEW t \in Threads, NEW place, Goto(t, place)
  PROVE  Went(t, place)
<1>1. CASE t = "dog"
  BY <1>1 DEF Goto, TypeOK, Went
<1>2. CASE t = "main"
  BY <1>2 DEF Goto, TypeOK, Went
<1>3. CASE t = "rpc"
  BY <1>3 DEF Goto, TypeOK, Went
<1> QED
  BY <1>1, <1>2, <1>3

(* The answer of the RPC thread, which the proxy goes on from at place.    *)
Answered(place) ==
  /\ serving \in Proxies /\ serving' = NoProxy /\ place \in Places
  /\ Went("rpc", "idle")
  /\ pc' = [pc EXCEPT ![serving] = place]

(* An answer moves the RPC thread to idle and the proxy to its place.      *)
LEMMA ReplyStep ==
  ASSUME TypeOK, at.rpc \notin {"idle", "closed"}, NEW place \in Places, Reply(place)
  PROVE  Answered(place)
<1>1. serving \in Proxies
  BY DEF TypeOK
<1>2. Went("rpc", "idle")
  BY WentStep DEF Reply
<1> QED
  BY <1>1, <1>2 DEF Reply, Answered

(* Where start(), stop() and a call go on.                                 *)
LEMMA NextPlaces ==
  /\ \A c : StopCall(c) \in {"rm_sys", "rm_data"}
  /\ AfterRemoval \in {"run", "rm_sys", "rm_data", "done"}
<1>1. \A c : StopCall(c) \in {"rm_sys", "rm_data"}
  BY DEF StopCall
<1>2. CASE pc[serving] = "log"
  BY <1>1, <1>2 DEF AfterRemoval
<1>3. CASE pc[serving] = "attach_data"
  BY <1>1, <1>3 DEF AfterRemoval
<1>4. CASE pc[serving] \notin {"log", "attach_data"}
  BY <1>1, <1>4 DEF AfterRemoval
<1> QED
  BY <1>1, <1>2, <1>3, <1>4

(* The proxy that is served becomes a holder, and is counted.              *)
Granted ==
  /\ Answered(IF serving \in DataClients THEN "attach_data" ELSE "run")
  /\ num_rtsys_attach' = num_rtsys_attach + 1
  /\ holders' = holders \cup {serving}
  /\ data_svc' = [data_svc EXCEPT ![serving] = IF serving \in DataClients THEN "True" ELSE "False"]

(* Grant does what Granted says.                                           *)
LEMMA GrantStep ==
  ASSUME TypeOK, at.rpc \notin {"idle", "closed"}, Grant
  PROVE  Granted
<1> DEFINE place == IF serving \in DataClients THEN "attach_data" ELSE "run"
<1>1. place \in Places
  OBVIOUS
<1>2. Reply(place)
  BY DEF Grant
<1> HIDE DEF place
<1>3. Answered(place)
  BY <1>1, <1>2, ReplyStep
<1> QED
  BY <1>3 DEF place, Grant, Granted

(* The attach: refused, joins the system that is there, or creates one.    *)
Refuse ==
  /\ at.rpc = "attach" /\ ~IsSvcActive
  /\ Answered(StopCall(serving))
  /\ UNCHANGED <<flags, system, services, data_port, data_svc, holders, stray, stop_signal>>

Join ==
  /\ at.rpc = "attach" /\ ~svc_thread_end /\ rt_system
  /\ Granted
  /\ UNCHANGED <<flags, rt_system, rt_active, orphan, services, data_port, stray, stop_signal>>

Create ==
  /\ at.rpc = "attach" /\ serving \in Proxies /\ ~svc_thread_end /\ ~rt_system
  /\ rt_system' = TRUE
  /\ Went("rpc", "at_start")
  /\ UNCHANGED <<flags, rt_active, orphan, num_rtsys_attach, services, serving, proxies, stray,
                 stop_signal>>

(* The three answers to an attach.                                         *)
LEMMA AttachEffect ==
  ASSUME TypeOK, AttachRtSystem
  PROVE  Refuse \/ Join \/ Create
<1>1. at.rpc = "attach" /\ UNCHANGED <<flags, rt_active, orphan, services, data_port, stray, stop_signal>>
  BY DEF AttachRtSystem
<1>2. serving \in Proxies
  BY <1>1 DEF TypeOK
<1>3. CASE /\ ~IsSvcActive /\ Reply(StopCall(serving))
           /\ UNCHANGED <<rt_system, num_rtsys_attach, holders, data_svc>>
  <2>1. Answered(StopCall(serving))
    BY <1>1, <1>3, NextPlaces, ReplyStep
  <2> QED
    BY <1>1, <1>3, <2>1 DEF Refuse
<1>4. CASE IsSvcActive /\ rt_system /\ Grant /\ UNCHANGED rt_system
  BY <1>1, <1>4, GrantStep DEF Join, IsSvcActive
<1>5. CASE /\ IsSvcActive /\ ~rt_system /\ rt_system' = TRUE /\ Goto("rpc", "at_start")
           /\ UNCHANGED <<num_rtsys_attach, holders, serving, pc, data_svc>>
  BY <1>1, <1>2, <1>5, WentStep DEF Create, IsSvcActive
<1> QED
  BY <1>3, <1>4, <1>5 DEF AttachRtSystem

(* The system runs and its first client is let in; or it is deleted again. *)
Started ==
  /\ at.rpc = "at_start" /\ rt_system
  /\ rt_active' = TRUE
  /\ Granted
  /\ UNCHANGED <<flags, rt_system, orphan, services, data_port, stray, stop_signal>>

NotStarted ==
  /\ at.rpc = "at_start" /\ rt_system
  /\ rt_system' = FALSE /\ num_rtsys_attach' = 0
  /\ Answered("rm_sys")
  /\ UNCHANGED <<flags, rt_active, orphan, services, data_port, data_svc, holders, stray,
                 stop_signal>>

(* M3RtSystem::Startup succeeds or fails.                                  *)
LEMMA StartEffect ==
  ASSUME TypeOK, StartRtSystem
  PROVE  Started \/ NotStarted
<1>1. /\ at.rpc = "at_start" /\ rt_system
      /\ UNCHANGED <<flags, orphan, services, data_port, stray, stop_signal>>
  BY DEF StartRtSystem
<1>2. CASE rt_active' = TRUE /\ Grant /\ UNCHANGED rt_system
  BY <1>1, <1>2, GrantStep DEF Started
<1>3. CASE /\ rt_system' = FALSE /\ num_rtsys_attach' = 0 /\ Reply("rm_sys")
           /\ UNCHANGED <<rt_active, holders, data_svc>>
  BY <1>1, <1>3, ReplyStep DEF NotStarted
<1> QED
  BY <1>2, <1>3 DEF StartRtSystem

(* A data service is refused, or is new at the end of the list.            *)
NoData ==
  /\ at.rpc = "attach_data" /\ (~rt_system \/ svc_thread_end)
  /\ Answered(StopCall(serving))
  /\ UNCHANGED <<flags, system, services, data_port, data_svc, holders, stray, stop_signal>>

Pushed ==
  /\ at.rpc = "attach_data" /\ serving \in Proxies /\ rt_system /\ ~svc_thread_end
  /\ data_services' = Append(data_services,
       [port |-> 0, owner |-> serving, error |-> FALSE, blocked |-> FALSE])
  /\ Went("rpc", "data_start")
  /\ UNCHANGED <<flags, system, next_port, cursor, serving, proxies, stray, stop_signal>>

(* The two answers to a request for a data service.                        *)
LEMMA AttachDataEffect ==
  ASSUME TypeOK, AttachDataService
  PROVE  NoData \/ Pushed
<1>1. /\ at.rpc = "attach_data"
      /\ UNCHANGED <<flags, system, next_port, cursor, data_port, data_svc, holders, stray, stop_signal>>
  BY DEF AttachDataService
<1>2. serving \in Proxies
  BY <1>1 DEF TypeOK
<1>3. CASE (~rt_system \/ svc_thread_end) /\ Reply(StopCall(serving)) /\ UNCHANGED data_services
  BY <1>1, <1>3, NextPlaces, ReplyStep DEF NoData
<1>4. CASE /\ rt_system /\ ~svc_thread_end
           /\ data_services' = Append(data_services,
                [port |-> 0, owner |-> serving, error |-> FALSE, blocked |-> FALSE])
           /\ Goto("rpc", "data_start") /\ UNCHANGED <<serving, pc>>
  BY <1>1, <1>2, <1>4, WentStep DEF Pushed
<1> QED
  BY <1>3, <1>4 DEF AttachDataService

(* It has its port, or it is taken out of the list and the system removed. *)
PortGiven ==
  /\ at.rpc = "data_start"
  /\ data_services' = [data_services EXCEPT ![Len(data_services)].port = next_port]
  /\ next_port' = next_port + 1
  /\ data_port' = [data_port EXCEPT ![serving] = next_port]
  /\ Answered("connect")
  /\ UNCHANGED <<flags, system, cursor, data_svc, holders, stray, stop_signal>>

NoPort ==
  /\ at.rpc = "data_start" /\ serving \in Proxies
  /\ data_services' = Front(data_services)
  /\ Went("rpc", "rm_enter")
  /\ UNCHANGED <<flags, system, next_port, cursor, serving, proxies, stray, stop_signal>>

(* A data service starts, or does not.                                     *)
LEMMA StartDataEffect ==
  ASSUME TypeOK, StartDataService
  PROVE  PortGiven \/ NoPort
<1>1. at.rpc = "data_start" /\ UNCHANGED <<flags, system, cursor, data_svc, holders, stray, stop_signal>>
  BY DEF StartDataService
<1>2. serving \in Proxies
  BY <1>1 DEF TypeOK
<1>3. CASE /\ data_services' = [data_services EXCEPT ![Len(data_services)].port = next_port]
           /\ next_port' = next_port + 1
           /\ data_port' = [data_port EXCEPT ![serving] = next_port]
           /\ Reply("connect")
  BY <1>1, <1>3, ReplyStep DEF PortGiven
<1>4. CASE /\ data_services' = Front(data_services) /\ Goto("rpc", "rm_enter")
           /\ UNCHANGED <<next_port, data_port, serving, pc>>
  BY <1>1, <1>2, <1>4, WentStep DEF NoPort
<1> QED
  BY <1>3, <1>4 DEF StartDataService

(* A log service: it runs or is refused; or the system is removed, or the  *)
(* call does not come back.                                                *)
Logged ==
  /\ at.rpc = "log"
  /\ Answered("run")
  /\ UNCHANGED <<flags, system, services, data_port, data_svc, holders, stray, stop_signal>>

NotLogged ==
  /\ at.rpc = "log" /\ serving \in Proxies /\ rt_system
  /\ Went("rpc", "rm_enter") \/ Went("rpc", "hung")
  /\ UNCHANGED <<flags, system, services, serving, proxies, stray, stop_signal>>

(* What comes of a request for a log service.                              *)
LEMMA AttachLogEffect ==
  ASSUME TypeOK, AttachLogService
  PROVE  Logged \/ NotLogged
<1>1. /\ at.rpc = "log"
      /\ UNCHANGED <<flags, system, services, data_port, data_svc, holders, stray, stop_signal>>
  BY DEF AttachLogService
<1>2. serving \in Proxies
  BY <1>1 DEF TypeOK
<1>3. CASE Reply("run")
  BY <1>1, <1>3, ReplyStep DEF Logged
<1>4. CASE /\ rt_system /\ (Goto("rpc", "rm_enter") \/ Goto("rpc", "hung"))
           /\ UNCHANGED <<serving, pc>>
  BY <1>1, <1>2, <1>4, WentStep DEF NotLogged
<1> QED
  BY <1>3, <1>4 DEF AttachLogService

(* The service on the port of the proxy is given back.                     *)
DataRemoved ==
  /\ at.rpc \in {"rm_data", "undo_data"}
  /\ data_services' = OtherPort(data_services, data_port[serving])
  /\ Answered(IF at.rpc = "rm_data" THEN "rm_sys" ELSE StopCall(serving))
  /\ UNCHANGED <<flags, system, next_port, cursor, data_port, data_svc, holders, stray, stop_signal>>

(* A data service is given back.                                           *)
LEMMA RemoveDataEffect ==
  ASSUME TypeOK, RemoveDataService
  PROVE  DataRemoved
<1> DEFINE place == IF at.rpc = "rm_data" THEN "rm_sys" ELSE StopCall(serving)
<1>1. place \in Places
  BY NextPlaces
<1>2. Reply(place) /\ at.rpc \notin {"idle", "closed"}
  BY DEF RemoveDataService
<1> HIDE DEF place
<1>3. Answered(place)
  BY <1>1, <1>2, ReplyStep
<1> QED
  BY <1>3 DEF place, RemoveDataService, DataRemoved

(* The call of a proxy is taken.                                           *)
Taken(c) ==
  /\ at.rpc = "idle" /\ at.main \notin InService /\ pc[c] \in Calls
  /\ serving' = c
  /\ Went("rpc", IF pc[c] = "rm_sys" THEN "rm_enter" ELSE pc[c])
  /\ UNCHANGED <<flags, system, services, proxies, stray, stop_signal>>

LogTaken(c) ==
  /\ at.rpc = "idle" /\ at.main \notin InService /\ c \in Clients /\ pc[c] = "run"
  /\ pc' = [pc EXCEPT ![c] = "log"]
  /\ serving' = c
  /\ Went("rpc", "log")
  /\ UNCHANGED <<flags, system, services, data_port, data_svc, holders, stray, stop_signal>>

(* The call of a proxy is taken.                                           *)
LEMMA TakeEffect ==
  ASSUME TypeOK, NEW c \in Proxies, Take(c)
  PROVE  Taken(c)
<1>1. Went("rpc", IF pc[c] = "rm_sys" THEN "rm_enter" ELSE pc[c])
  BY WentStep DEF Take
<1> QED
  BY <1>1 DEF Take, Free, Taken

(* So is that of a client which asks for a log service.                    *)
LEMMA LogEffect ==
  ASSUME TypeOK, NEW c \in Clients, Log(c)
  PROVE  LogTaken(c)
<1>1. Went("rpc", "log")
  BY WentStep DEF Log
<1> QED
  BY <1>1 DEF Log, Free, LogTaken

(* Where a thread goes on when RemoveRtSystem returns, and what it tells.  *)
Home(t) == IF t = "dog" THEN "exit" ELSE IF t = "main" THEN "stop_client" ELSE "idle"
Returned(t) ==
  /\ Went(t, Home(t))
  /\ \/ t # "rpc" /\ UNCHANGED <<serving, pc, holders>>
     \/ /\ t = "rpc" /\ Answered(AfterRemoval)
        /\ holders' = IF Leaves THEN holders \ {serving} ELSE holders

(* The return of RemoveRtSystem to its caller.                             *)
LEMMA ReturnStep ==
  ASSUME TypeOK, NEW t \in Threads, at[t] \in {"rm_enter"} \cup Removing, Return(t)
  PROVE  Returned(t)
<1>1. CASE t = "dog"
  BY <1>1, WentStep DEF Return, Returned, Home
<1>2. CASE t = "main"
  BY <1>2, WentStep DEF Return, Returned, Home
<1>3. CASE t = "rpc"
  <2>1. at.rpc \notin {"idle", "closed"} /\ AfterRemoval \in Places
    BY <1>3, NextPlaces
  <2>2. Reply(AfterRemoval) /\ holders' = IF Leaves THEN holders \ {serving} ELSE holders
    BY <1>3 DEF Return
  <2>3. Answered(AfterRemoval)
    BY <2>1, <2>2, ReplyStep
  <2> QED
    BY <1>3, <2>2, <2>3 DEF Answered, Returned, Home
<1> QED
  BY <1>1, <1>2, <1>3

(* The removal by thread t: it only counts down, or goes in.               *)
CountDown(t) ==
  /\ at[t] = "rm_enter" /\ (~rt_system \/ num_rtsys_attach > 1)
  /\ num_rtsys_attach' = IF rt_system THEN num_rtsys_attach - 1 ELSE 0
  /\ stray' = IF t = "rpc" /\ ~Leaves /\ rt_system THEN stray + 1 ELSE stray
  /\ Returned(t)
  /\ UNCHANGED <<flags, rt_system, rt_active, orphan, services, data_port, data_svc, stop_signal>>

GoIn(t) ==
  /\ at[t] = "rm_enter" /\ rt_system /\ num_rtsys_attach <= 1
  /\ stray' = IF t = "rpc" /\ ~Leaves /\ num_rtsys_attach > 0 THEN stray + 1 ELSE stray
  /\ cursor' = [cursor EXCEPT ![t] = 1]
  /\ Went(t, "rm_services")
  /\ UNCHANGED <<flags, system, data_services, next_port, serving, proxies, stop_signal>>

(* A turn of the loop over the services, and its end.                      *)
Looped(t) ==
  /\ at[t] = "rm_services"
  /\ cursor' = [cursor EXCEPT ![t] = @ + 1]
  /\ \/ UNCHANGED data_services
     \/ \E i \in 1..Len(data_services) :
          data_services[i].port # 0 /\ data_services' = RemoveAt(data_services, i)
  /\ UNCHANGED <<flags, system, next_port, at, serving, proxies, stray, stop_signal>>

LoopEnd(t) ==
  /\ at[t] = "rm_services"
  /\ cursor' = [cursor EXCEPT ![t] = 0]
  /\ Went(t, "rm_test")
  /\ UNCHANGED <<flags, system, data_services, next_port, serving, proxies, stray, stop_signal>>

(* The test: on with the removal, or back.                                 *)
GoOn(t) ==
  /\ at[t] = "rm_test" /\ rt_system /\ MayTearDown
  /\ Went(t, "rm_shutdown")
  /\ UNCHANGED <<flags, system, services, serving, proxies, stray, stop_signal>>

TurnBack(t) ==
  /\ at[t] = "rm_test" /\ rt_system /\ ~MayTearDown
  /\ num_rtsys_attach' = 0
  /\ Returned(t)
  /\ UNCHANGED <<flags, rt_system, rt_active, orphan, services, data_port, data_svc, stray,
                 stop_signal>>

(* The system is shut down, and deleted.                                   *)
ShutDown(t) ==
  /\ at[t] = "rm_shutdown" /\ rt_system
  /\ rt_active' \in {FALSE, rt_active}
  /\ Went(t, "rm_delete")
  /\ UNCHANGED <<flags, rt_system, orphan, num_rtsys_attach, services, serving, proxies, stray,
                 stop_signal>>

Deleted(t) ==
  /\ at[t] = "rm_delete"
  /\ rt_system' = FALSE /\ num_rtsys_attach' = 0
  /\ rt_active' = FALSE /\ orphan' = (orphan \/ rt_active)
  /\ Returned(t)
  /\ UNCHANGED <<flags, services, data_port, data_svc, stray, stop_signal>>

RemovalStep(t) ==
  \/ CountDown(t) \/ GoIn(t) \/ Looped(t) \/ LoopEnd(t) \/ GoOn(t) \/ TurnBack(t) \/ ShutDown(t)
  \/ Deleted(t)

(* The loop stands on an element of the list, or behind its end.           *)
LoopOrder == \A t \in Threads : at[t] = "rm_services" => cursor[t] >= 1

(* Each step of RemoveRtSystem does one of these.                          *)
LEMMA RemovalEffect ==
  ASSUME TypeOK, LoopOrder, NEW t \in Threads, RemoveRtSystem(t)
  PROVE  RemovalStep(t) \/ (Crashed /\ UseDeleted(t))
<1>0. num_rtsys_attach \in Nat /\ rt_active \in BOOLEAN
  BY DEF TypeOK
<1>1. CASE RmEnter(t)
  <2>0. /\ at[t] = "rm_enter"
        /\ stray' = IF t = "rpc" /\ ~Leaves /\ rt_system /\ num_rtsys_attach > 0
                      THEN stray + 1 ELSE stray
        /\ UNCHANGED <<flags, rt_system, rt_active, orphan, data_services, next_port, data_port,
                       data_svc, stop_signal>>
    BY <1>1 DEF RmEnter
  <2>1. CASE /\ ~rt_system \/ num_rtsys_attach > 1
             /\ num_rtsys_attach' = IF rt_system THEN num_rtsys_attach - 1 ELSE 0
             /\ Return(t) /\ UNCHANGED cursor
    <3>1. Returned(t)
      BY <2>0, <2>1, ReturnStep
    <3>2. stray' = IF t = "rpc" /\ ~Leaves /\ rt_system THEN stray + 1 ELSE stray
      BY <1>0, <2>0, <2>1
    <3>3. CountDown(t)
      BY <2>0, <2>1, <3>1, <3>2 DEF CountDown
    <3> QED
      BY <3>3 DEF RemovalStep
  <2>2. CASE /\ rt_system /\ num_rtsys_attach <= 1
             /\ cursor' = [cursor EXCEPT ![t] = 1]
             /\ Goto(t, "rm_services")
             /\ UNCHANGED <<num_rtsys_attach, serving, pc, holders>>
    <3>1. Went(t, "rm_services")
      BY <2>2, WentStep
    <3>2. GoIn(t)
      BY <2>0, <2>2, <3>1 DEF GoIn
    <3> QED
      BY <3>2 DEF RemovalStep
  <2> QED
    BY <1>1, <2>1, <2>2 DEF RmEnter
<1>2. CASE RmServices(t)
  <2> DEFINE i == cursor[t]
  <2>0. /\ at[t] = "rm_services"
        /\ UNCHANGED <<flags, system, next_port, serving, proxies, stray, stop_signal>>
    BY <1>2 DEF RmServices
  <2>1. CASE cursor' = [cursor EXCEPT ![t] = 0] /\ Goto(t, "rm_test") /\ UNCHANGED data_services
    <3>1. LoopEnd(t)
      BY <2>0, <2>1, WentStep DEF LoopEnd
    <3> QED
      BY <3>1 DEF RemovalStep
  <2>2. CASE cursor' = [cursor EXCEPT ![t] = i + 1] /\ UNCHANGED <<data_services, at>>
    <3>1. Looped(t)
      BY <2>0, <2>2 DEF Looped
    <3> QED
      BY <3>1 DEF RemovalStep
  <2>3. CASE /\ i <= Len(data_services) /\ data_services[i].port # 0
             /\ data_services' = RemoveAt(data_services, i)
             /\ cursor' = [cursor EXCEPT ![t] = i + 1] /\ UNCHANGED at
    <3>1. i \in 1..Len(data_services)
      BY <2>0, <2>3, ServiceElements DEF LoopOrder, TypeOK
    <3>2. Looped(t)
      BY <2>0, <2>3, <3>1 DEF Looped
    <3> QED
      BY <3>2 DEF RemovalStep
  <2> QED
    BY <1>2, <2>1, <2>2, <2>3 DEF RmServices
<1>3. CASE RmTest(t)
  <2>0. /\ at[t] = "rm_test" /\ rt_system
        /\ UNCHANGED <<flags, rt_system, rt_active, orphan, services, data_port, data_svc, stray,
                       stop_signal>>
    BY <1>3 DEF RmTest
  <2>1. CASE ~MayTearDown /\ num_rtsys_attach' = 0 /\ Return(t)
    <3>1. TurnBack(t)
      BY <2>0, <2>1, ReturnStep DEF TurnBack
    <3> QED
      BY <3>1 DEF RemovalStep
  <2>2. CASE /\ MayTearDown /\ Goto(t, "rm_shutdown")
             /\ UNCHANGED <<num_rtsys_attach, serving, pc, holders>>
    <3>1. GoOn(t)
      BY <2>0, <2>2, WentStep DEF GoOn
    <3> QED
      BY <3>1 DEF RemovalStep
  <2> QED
    BY <1>3, <2>1, <2>2 DEF RmTest
<1>4. CASE RmShutdown(t)
  <2>1. ShutDown(t)
    BY <1>4, WentStep DEF RmShutdown, ShutDown
  <2> QED
    BY <2>1 DEF RemovalStep
<1>5. CASE RmDelete(t)
  <2>1. Deleted(t)
    BY <1>5, ReturnStep DEF RmDelete, Deleted
  <2> QED
    BY <2>1 DEF RemovalStep
<1>6. CASE UseDeleted(t)
  BY <1>6 DEF UseDeleted
<1> QED
  BY <1>1, <1>2, <1>3, <1>4, <1>5, <1>6 DEF RemoveRtSystem

(* The watchdog's own steps, in the order of service_thread.               *)
DogStep ==
  /\ UNCHANGED <<system, services, serving, proxies, stray, stop_signal>>
  /\ \/ /\ at.dog = "boot" /\ Went("dog", "loop")
        /\ svc_thread_end' = FALSE /\ UNCHANGED svc_thread_active
     \/ at.dog = "loop" /\ svc_thread_end /\ Went("dog", "exit") /\ UNCHANGED flags
     \/ /\ at.dog = "loop" /\ ~svc_thread_end /\ Went("dog", "check")
        /\ svc_thread_active' = TRUE /\ UNCHANGED svc_thread_end
     \/ at.dog = "check" /\ Went("dog", "loop") /\ UNCHANGED flags
     \/ /\ at.dog = "check" /\ data_services # <<>> /\ Went("dog", "report") /\ UNCHANGED flags
     \/ /\ at.dog = "report" /\ Went("dog", "rm_enter")
        /\ svc_thread_end' = TRUE /\ UNCHANGED svc_thread_active
     \/ /\ at.dog = "exit" /\ Went("dog", "ended")
        /\ svc_thread_active' = FALSE /\ UNCHANGED svc_thread_end

(* The watchdog's own steps do what DogStep says.                          *)
LEMMA DogEffect ==
  ASSUME TypeOK, Dog
  PROVE  DogStep \/ RemoveRtSystem("dog")
<1>1. CASE DogBoot
  BY <1>1, WentStep DEF DogBoot, DogStep
<1>2. CASE DogLoop
  BY <1>2, WentStep DEF DogLoop, DogStep
<1>3. CASE DogCheck
  <2>1. IsDataServiceError => data_services # <<>>
    BY DEF IsDataServiceError
  <2>2. Went("dog", IF IsDataServiceError THEN "report" ELSE "loop")
    BY <1>3, WentStep DEF DogCheck
  <2> QED
    BY <1>3, <2>1, <2>2 DEF DogCheck, DogStep
<1>4. CASE DogReport
  BY <1>4, WentStep DEF DogReport, DogStep
<1>5. CASE DogExit
  BY <1>5, WentStep DEF DogExit, DogStep
<1> QED
  BY <1>1, <1>2, <1>3, <1>4, <1>5 DEF Dog

(* The main thread's own steps, in the order of m3rt_server.py.            *)
Exited == at' = [dog |-> "ended", main |-> "exited", rpc |-> "closed"]
MainStep ==
  /\ UNCHANGED <<system, services, serving, data_port, data_svc, holders, stray, stop_signal>>
  /\ \/ at.main = "startup" /\ ~svc_thread_active /\ Exited /\ UNCHANGED <<flags, pc>>
     \/ /\ at.main = "startup" /\ svc_thread_active /\ UNCHANGED <<flags, pc>>
        /\ at' = [dog |-> at.dog, main |-> "client", rpc |-> "idle"]
     \/ at.main = "client" /\ pc[Server] = "run" /\ Went("main", "loop") /\ UNCHANGED <<flags, pc>>
     \/ /\ at.main = "loop" \/ (at.main = "client" /\ pc[Server] = "done")
        /\ serving = NoProxy
        /\ Went("main", "sd_wait")
        /\ svc_thread_end' = TRUE /\ UNCHANGED <<svc_thread_active, pc>>
     \/ at.main = "sd_wait" /\ Went("main", "rm_enter") /\ UNCHANGED <<flags, pc>>
     \/ /\ at.main = "stop_client" /\ pc[Server] = "run"
        /\ UNCHANGED <<flags, at>>
        /\ pc' = [pc EXCEPT ![Server] = StopCall(Server)]
     \/ /\ at.main = "stop_client" /\ pc[Server] = "done"
        /\ Went("main", "stop_server") /\ UNCHANGED <<flags, pc>>
     \/ at.main = "stop_server" /\ at.rpc = "idle" /\ Exited /\ UNCHANGED <<flags, pc>>

(* The main thread's own steps do what MainStep says.                      *)
LEMMA MainEffect ==
  ASSUME TypeOK, MainThread
  PROVE  MainStep \/ RemoveRtSystem("main")
<1>1. CASE MainStartup
  <2>1. CASE at' = [at EXCEPT !.main = "client", !.rpc = "idle"] /\ svc_thread_active
    <3>1. at' = [dog |-> at.dog, main |-> "client", rpc |-> "idle"]
      BY <2>1 DEF TypeOK
    <3> QED
      BY <1>1, <2>1, <3>1 DEF MainStartup, MainStep
  <2>2. CASE ~svc_thread_active /\ Exit
    BY <1>1, <2>2 DEF MainStartup, MainStep, Exit, Exited
  <2> QED
    BY <1>1, <2>1, <2>2 DEF MainStartup
<1>2. CASE MainClient
  BY <1>2, WentStep DEF MainClient, BeginShutdown, MainStep
<1>3. CASE MainLoop
  BY <1>3, WentStep DEF MainLoop, BeginShutdown, MainStep
<1>4. CASE ShutdownWait
  BY <1>4, WentStep DEF ShutdownWait, MainStep
<1>5. CASE StopClient
  BY <1>5, WentStep DEF StopClient, Move, MainStep
<1>6. CASE StopServer
  BY <1>6 DEF StopServer, Exit, Exited, MainStep
<1> QED
  BY <1>1, <1>2, <1>3, <1>4, <1>5, <1>6 DEF MainThread

(* A proxy goes on to place, and nothing else changes.                     *)
Moves(c, place) ==
  /\ pc' = [pc EXCEPT ![c] = place]
  /\ UNCHANGED <<flags, system, services, at, serving, data_port, data_svc, holders, stray,
                 stop_signal>>
  /\ \/ pc[c] = "connect" /\ place \in {"run", "undo_data"}
     \/ c \in Clients /\ pc[c] = "run" /\ place = StopCall(c)
     \/ c \in Clients /\ at.rpc = "closed" /\ pc[c] \in Calls /\ place = "done"
  /\ at.main \notin {"exited", "crashed"}

(* The steps of a proxy lead where start() and stop() go on.               *)
LEMMA ProxyEffect ==
  ASSUME TypeOK, NEW c \in Proxies,
         Connect(c) \/ (c \in Clients /\ (Stop(c) \/ Refused(c)))
  PROVE  \E place \in Places : Moves(c, place)
<1>1. StopCall(c) \in Places
  BY NextPlaces
<1>2. CASE Connect(c)
  BY <1>2 DEF Connect, Move, Runs, Moves
<1>3. CASE c \in Clients /\ Stop(c)
  BY <1>1, <1>3 DEF Stop, Move, Runs, Moves
<1>4. CASE c \in Clients /\ Refused(c)
  BY <1>4 DEF Refused, Move, Runs, Moves
<1> QED
  BY <1>2, <1>3, <1>4

(* A data thread that fails, blocks or goes on keeps its port and owner.   *)
DataChanged ==
  /\ at.main \notin {"exited", "crashed"}
  /\ data_services # <<>>
  /\ data_services' \in Seq(Services) /\ Len(data_services') = Len(data_services)
  /\ \A i \in 1..Len(data_services) :
       /\ data_services'[i].port = data_services[i].port
       /\ data_services'[i].owner = data_services[i].owner
  /\ UNCHANGED <<flags, system, next_port, cursor, at, serving, proxies, stray, stop_signal>>

(* The three steps of the data threads.                                    *)
LEMMA DataEffect ==
  ASSUME TypeOK, DataThreadFails \/ DataThreadBlocks \/ DataThreadGoesOn
  PROVE  DataChanged
<1>1. PICK i \in 1..Len(data_services) :
        \/ data_services' = [data_services EXCEPT ![i].error = TRUE]
        \/ data_services' = [data_services EXCEPT ![i].blocked = TRUE]
        \/ data_services' = [data_services EXCEPT ![i].blocked = FALSE]
  BY DEF DataThreadFails, DataThreadBlocks, DataThreadGoesOn
<1>2. data_services \in Seq(Services) /\ data_services[i] \in Services /\ Len(data_services) \in Nat
  BY ServiceElements
<1>3. /\ at.main \notin {"exited", "crashed"}
      /\ UNCHANGED <<flags, system, next_port, cursor, at, serving, proxies, stray, stop_signal>>
  BY DEF DataThreadFails, DataThreadBlocks, DataThreadGoesOn, Runs
<1>4. PICK e \in Services : /\ data_services' = [data_services EXCEPT ![i] = e]
                            /\ e.port = data_services[i].port /\ e.owner = data_services[i].owner
  <2>1. /\ [data_services[i] EXCEPT !.error = TRUE] \in Services
        /\ [data_services[i] EXCEPT !.blocked = TRUE] \in Services
        /\ [data_services[i] EXCEPT !.blocked = FALSE] \in Services
    BY <1>2 DEF Services
  <2>2. CASE data_services' = [data_services EXCEPT ![i].error = TRUE]
    BY <1>2, <2>1, <2>2 DEF Services
  <2>3. CASE data_services' = [data_services EXCEPT ![i].blocked = TRUE]
    BY <1>2, <2>1, <2>3 DEF Services
  <2>4. CASE data_services' = [data_services EXCEPT ![i].blocked = FALSE]
    BY <1>2, <2>1, <2>4 DEF Services
  <2> QED
    BY <1>1, <2>2, <2>3, <2>4
<1>5. /\ data_services' \in Seq(Services) /\ Len(data_services') = Len(data_services)
      /\ \A j \in 1..Len(data_services) :
           data_services'[j] = IF j = i THEN e ELSE data_services[j]
  BY <1>2, <1>4, ExceptElements
<1>6. data_services # <<>>
  BY <1>2, EmptySeq
<1> QED
  BY <1>3, <1>4, <1>5, <1>6 DEF DataChanged

(* Every step is one of these.                                             *)
CallStep ==
  \/ Refuse \/ Join \/ Create \/ Started \/ NotStarted \/ NoData \/ Pushed \/ PortGiven \/ NoPort
  \/ Logged \/ NotLogged \/ DataRemoved
  \/ (\E c \in Proxies : Taken(c)) \/ (\E c \in Clients : LogTaken(c))

(* What happens to one variable, or none.                                  *)
Aside == DataChanged \/ RtThreadDies \/ Signal \/ UNCHANGED vars

(* The whole of Next, step by step.                                        *)
LEMMA Effects ==
  ASSUME TypeOK, LoopOrder, [Next]_vars
  PROVE  \/ CallStep
         \/ \E t \in Threads : RemovalStep(t)
         \/ DogStep \/ MainStep
         \/ \E c \in Proxies, place \in Places : Moves(c, place)
         \/ Aside
         \/ Crashed /\ (Undefined \/ \E t \in Threads : UseDeleted(t))
<1>1. ASSUME NEW t \in Threads, RemoveRtSystem(t)
      PROVE  (\E u \in Threads : RemovalStep(u)) \/ (Crashed /\ \E u \in Threads : UseDeleted(u))
  BY <1>1, RemovalEffect
<1>2. CASE Rpc
  BY <1>1, <1>2, AttachEffect, StartEffect, AttachDataEffect, StartDataEffect, AttachLogEffect,
     RemoveDataEffect DEF Rpc, CallStep
<1>3. CASE Dog
  BY <1>1, <1>3, DogEffect
<1>4. CASE MainThread
  BY <1>1, <1>4, MainEffect
<1>5. CASE ServerClient
  <2>1. Server \in Proxies
    OBVIOUS
  <2> QED
    BY <1>5, <2>1, TakeEffect, ProxyEffect DEF ServerClient, CallStep
<1>6. ASSUME NEW c \in Clients, Proxy(c)
      PROVE  CallStep \/ \E d \in Proxies, place \in Places : Moves(d, place)
  <2>1. c \in Proxies
    OBVIOUS
  <2>2. CASE Take(c)
    BY <2>1, <2>2, TakeEffect DEF CallStep
  <2>3. CASE Log(c)
    BY <2>3, LogEffect DEF CallStep
  <2>4. CASE Connect(c) \/ Stop(c) \/ Refused(c)
    BY <2>1, <2>4, ProxyEffect
  <2> QED
    BY <1>6, <2>2, <2>3, <2>4 DEF Proxy
<1>7. CASE DataThreadFails \/ DataThreadBlocks \/ DataThreadGoesOn
  BY <1>7, DataEffect DEF Aside
<1>8. CASE Undefined
  BY <1>8 DEF Undefined
<1> QED
  BY <1>2, <1>3, <1>4, <1>5, <1>6, <1>7, <1>8 DEF Next, Aside

-----------------------------------------------------------------------------
(* The types.                                                              *)

(* The RPC server is not there before the service has started.             *)
StartupClosed == at.main = "startup" => at.rpc = "closed"

TypeInv == TypeOK /\ StartupClosed /\ LoopOrder

(* The places of the three threads, when one of them moves.                *)
LEMMA WentType ==
  ASSUME TypeOK, NEW t \in Threads, NEW place, Went(t, place),
         t = "dog" => place \in DogPlaces, t = "main" => place \in MainPlaces,
         t = "rpc" => place \in RpcPlaces
  PROVE  at' \in [dog : DogPlaces, main : MainPlaces, rpc : RpcPlaces]
<1>1. at.dog \in DogPlaces /\ at.main \in MainPlaces /\ at.rpc \in RpcPlaces
  BY DEF TypeOK
<1> QED
  BY <1>1 DEF Went

(* The variables that are not about the data services or the threads.      *)
PlainType ==
  /\ {svc_thread_active, svc_thread_end, rt_system, rt_active, orphan, stop_signal} \subseteq BOOLEAN
  /\ num_rtsys_attach \in Nat /\ stray \in Nat
  /\ next_port \in Nat
  /\ data_port \in [Proxies -> Nat]
  /\ data_svc \in [Proxies -> {"None", "True", "False"}]

ThreadType ==
  /\ at \in [dog : DogPlaces, main : MainPlaces, rpc : RpcPlaces]
  /\ serving \in Proxies \cup {NoProxy}
  /\ serving # NoProxy <=> at.rpc \notin {"idle", "closed"}
  /\ pc \in [Proxies -> Places]
  /\ holders \subseteq Proxies

ListType == data_services \in Seq(Services) /\ cursor \in [Threads -> Nat]

(* The three parts of TypeOK.                                              *)
LEMMA TypeParts == TypeOK <=> PlainType /\ ThreadType /\ ListType
BY DEF TypeOK, PlainType, ThreadType, ListType, Services

(* The plain variables, which each effect names.                           *)
LEMMA PlainStep ==
  ASSUME TypeOK, LoopOrder, [Next]_vars
  PROVE  PlainType'
<1>0. PlainType
  BY TypeParts
<1> USE DEF PlainType
<1>1. CASE CallStep
  <2>1. CASE Join \/ Started
    <3>1. Granted /\ serving \in Proxies
      BY <2>1 DEF Join, Started, Granted, Answered
    <3>2. num_rtsys_attach' \in Nat /\ data_svc' \in [Proxies -> {"None", "True", "False"}]
      BY <1>0, <3>1 DEF Granted
    <3>3. rt_active' \in BOOLEAN
      <4>1. rt_active' = TRUE \/ rt_active' = rt_active
        BY <2>1 DEF Join, Started
      <4> QED
        BY <1>0, <4>1
    <3>4. UNCHANGED <<flags, rt_system, orphan, stop_signal, stray, next_port, data_port>>
      BY <2>1 DEF Join, Started
    <3> QED
      BY <1>0, <3>2, <3>3, <3>4
  <2>2. CASE PortGiven
    <3>0. next_port' = next_port + 1 /\ data_port' = [data_port EXCEPT ![serving] = next_port]
      BY <2>2 DEF PortGiven
    <3>1. next_port' \in Nat /\ data_port' \in [Proxies -> Nat]
      <4>1. next_port \in Nat /\ data_port \in [Proxies -> Nat]
        BY <1>0
      <4>2. next_port' \in Nat
        BY <3>0, <4>1
      <4>3. data_port' \in [Proxies -> Nat]
        BY <3>0, <4>1
      <4> QED
        BY <4>2, <4>3
    <3>2. UNCHANGED <<flags, rt_system, rt_active, orphan, num_rtsys_attach, stop_signal, stray, data_svc>>
      BY <2>2 DEF PortGiven
    <3> QED
      BY <1>0, <3>1, <3>2
  <2>3. CASE NotStarted \/ Create
    <3>1. rt_system' \in BOOLEAN /\ num_rtsys_attach' \in {0, num_rtsys_attach}
      BY <2>3 DEF NotStarted, Create
    <3>2. UNCHANGED <<flags, rt_active, orphan, stop_signal, stray, next_port, data_port, data_svc>>
      BY <2>3 DEF NotStarted, Create
    <3> QED
      BY <1>0, <3>1, <3>2
  <2>4. CASE Refuse \/ NoData \/ Pushed \/ NoPort \/ Logged \/ NotLogged \/ DataRemoved
    BY <1>0, <2>4 DEF Refuse, NoData, Pushed, NoPort, Logged, NotLogged, DataRemoved
  <2>5. CASE (\E c \in Proxies : Taken(c)) \/ (\E c \in Clients : LogTaken(c))
    BY <1>0, <2>5 DEF Taken, LogTaken
  <2> QED
    BY <1>1, <2>1, <2>2, <2>3, <2>4, <2>5 DEF CallStep
<1>2. ASSUME NEW t \in Threads, RemovalStep(t)
      PROVE  PlainType'
  <2>1. CASE CountDown(t) \/ GoIn(t)
    <3>1. stray' \in Nat /\ num_rtsys_attach' \in Nat
      BY <1>0, <2>1 DEF CountDown, GoIn
    <3>2. UNCHANGED <<flags, rt_system, rt_active, orphan, stop_signal, next_port, data_port, data_svc>>
      BY <2>1 DEF CountDown, GoIn
    <3> QED
      BY <1>0, <3>1, <3>2
  <2>2. CASE Looped(t) \/ LoopEnd(t) \/ GoOn(t) \/ TurnBack(t)
    BY <1>0, <2>2 DEF Looped, LoopEnd, GoOn, TurnBack
  <2>3. CASE ShutDown(t)
    <3>1. rt_active' = FALSE \/ rt_active' = rt_active
      BY <2>3 DEF ShutDown
    <3>2. rt_active' \in BOOLEAN
      BY <1>0, <3>1
    <3> QED
      BY <1>0, <2>3, <3>2 DEF ShutDown
  <2>4. CASE Deleted(t)
    <3>1. orphan' \in BOOLEAN /\ rt_system' \in BOOLEAN /\ rt_active' \in BOOLEAN
      BY <2>4 DEF Deleted
    <3> QED
      BY <1>0, <2>4, <3>1 DEF Deleted
  <2> QED
    BY <1>2, <2>1, <2>2, <2>3, <2>4 DEF RemovalStep
<1>3. CASE DogStep
  BY <1>0, <1>3 DEF DogStep
<1>4. CASE MainStep
  BY <1>0, <1>4 DEF MainStep
<1>5. CASE (\E c \in Proxies, place \in Places : Moves(c, place)) \/ Aside \/ Crashed
  BY <1>0, <1>5 DEF Moves, Aside, DataChanged, RtThreadDies, Signal, vars, Crashed
<1> QED
  BY <1>1, <1>2, <1>3, <1>4, <1>5, Effects

(* A thread that moves on inside of its removal or its call.               *)
LEMMA WentOn ==
  ASSUME ThreadType, NEW t \in Threads, NEW place, Went(t, place), UNCHANGED <<serving, pc, holders>>,
         t = "dog" => place \in DogPlaces, t = "main" => place \in MainPlaces,
         t = "rpc" => at.rpc \notin {"idle", "closed"} /\ place \in RpcPlaces \ {"idle", "closed"}
  PROVE  ThreadType'
<1>1. at.dog \in DogPlaces /\ at.main \in MainPlaces /\ at.rpc \in RpcPlaces
  BY DEF ThreadType
<1>2. at' \in [dog : DogPlaces, main : MainPlaces, rpc : RpcPlaces]
  BY <1>1 DEF Went
<1>3. at'.rpc \notin {"idle", "closed"} <=> at.rpc \notin {"idle", "closed"}
  BY DEF Went
<1> QED
  BY <1>2, <1>3 DEF ThreadType

(* A call that is answered.                                                *)
LEMMA AnsweredType ==
  ASSUME ThreadType, NEW place, Answered(place), holders' \subseteq Proxies
  PROVE  ThreadType'
<1>1. at.dog \in DogPlaces /\ at.main \in MainPlaces /\ at.rpc \in RpcPlaces
  BY DEF ThreadType
<1>2. at' \in [dog : DogPlaces, main : MainPlaces, rpc : RpcPlaces] /\ at'.rpc = "idle"
  BY <1>1 DEF Answered, Went
<1>3. pc' \in [Proxies -> Places]
  BY DEF ThreadType, Answered
<1> QED
  BY <1>2, <1>3 DEF ThreadType, Answered

(* The threads, the proxies and the holders.                               *)
LEMMA ThreadTypeStep ==
  ASSUME TypeInv, [Next]_vars
  PROVE  ThreadType'
<1>0. ThreadType /\ TypeOK /\ StartupClosed /\ LoopOrder
  BY TypeParts DEF TypeInv
<1>1. CASE CallStep
  <2>1. CASE Refuse \/ NoData \/ PortGiven \/ NotStarted \/ Logged \/ DataRemoved
    <3>1. (\E place : Answered(place)) /\ holders' = holders
      BY <2>1 DEF Refuse, NoData, PortGiven, NotStarted, Logged, DataRemoved
    <3> QED
      BY <1>0, <3>1, AnsweredType DEF ThreadType
  <2>2. CASE Join \/ Started
    <3>1. Granted
      BY <2>2 DEF Join, Started
    <3>2. holders' \subseteq Proxies
      BY <1>0, <3>1 DEF Granted, Answered, ThreadType
    <3>3. \E place : Answered(place)
      BY <3>1 DEF Granted
    <3> QED
      BY <1>0, <3>2, <3>3, AnsweredType
  <2>3. CASE Create \/ Pushed \/ NoPort \/ NotLogged
    <3>1. /\ \E place \in {"at_start", "data_start", "rm_enter", "hung"} : Went("rpc", place)
          /\ UNCHANGED <<serving, pc, holders>> /\ at.rpc \notin {"idle", "closed"}
      BY <2>3 DEF Create, Pushed, NoPort, NotLogged
    <3>2. PICK place \in {"at_start", "data_start", "rm_enter", "hung"} : Went("rpc", place)
      BY <3>1
    <3> QED
      BY <1>0, <3>1, <3>2, WentOn
  <2>4. ASSUME NEW c \in Proxies, Taken(c)
        PROVE  ThreadType'
    <3>1. Went("rpc", IF pc[c] = "rm_sys" THEN "rm_enter" ELSE pc[c])
      BY <2>4 DEF Taken
    <3>2. at' \in [dog : DogPlaces, main : MainPlaces, rpc : RpcPlaces] /\ at'.rpc \notin {"idle", "closed"}
      BY <1>0, <2>4, <3>1 DEF Taken, Went, ThreadType
    <3> QED
      BY <1>0, <2>4, <3>2, ProxyAssumption DEF Taken, ThreadType
  <2>5. ASSUME NEW c \in Clients, LogTaken(c)
        PROVE  ThreadType'
    <3>2. at' \in [dog : DogPlaces, main : MainPlaces, rpc : RpcPlaces] /\ at'.rpc \notin {"idle", "closed"}
      BY <1>0, <2>5 DEF LogTaken, Went, ThreadType
    <3>3. pc' \in [Proxies -> Places]
      BY <1>0, <2>5 DEF LogTaken, ThreadType
    <3> QED
      BY <1>0, <2>5, <3>2, <3>3, ProxyAssumption DEF LogTaken, ThreadType
  <2> QED
    BY <1>1, <2>1, <2>2, <2>3, <2>4, <2>5 DEF CallStep
<1>2. ASSUME NEW t \in Threads, RemovalStep(t)
      PROVE  ThreadType'
  <2>1. CASE CountDown(t) \/ TurnBack(t) \/ Deleted(t)
    <3>1. Returned(t) /\ at[t] \notin {"idle", "closed"}
      BY <2>1 DEF CountDown, TurnBack, Deleted
    <3>2. CASE t # "rpc"
      BY <1>0, <3>1, <3>2, WentOn DEF Returned, Home
    <3>3. CASE t = "rpc"
      <4>1. Answered(AfterRemoval) /\ holders' \subseteq Proxies
        BY <1>0, <3>1, <3>3 DEF Returned, ThreadType
      <4> QED
        BY <1>0, <4>1, AnsweredType
    <3> QED
      BY <3>2, <3>3
  <2>2. CASE GoIn(t) \/ LoopEnd(t) \/ GoOn(t) \/ ShutDown(t)
    <3>1. /\ \E place \in Removing : Went(t, place)
          /\ UNCHANGED <<serving, pc, holders>> /\ at[t] \notin {"idle", "closed"}
      BY <2>2 DEF GoIn, LoopEnd, GoOn, ShutDown
    <3>2. PICK place \in Removing : Went(t, place)
      BY <3>1
    <3> QED
      BY <1>0, <3>1, <3>2, WentOn
  <2>3. CASE Looped(t)
    BY <1>0, <2>3 DEF Looped, ThreadType
  <2> QED
    BY <1>2, <2>1, <2>2, <2>3 DEF RemovalStep
<1>3. CASE DogStep
  <2>1. /\ \E place \in {"loop", "exit", "check", "report", "rm_enter", "ended"} : Went("dog", place)
        /\ UNCHANGED <<serving, pc, holders>>
    BY <1>3 DEF DogStep
  <2>2. PICK place \in {"loop", "exit", "check", "report", "rm_enter", "ended"} : Went("dog", place)
    BY <2>1
  <2> QED
    BY <1>0, <2>1, <2>2, WentOn
<1>4. CASE MainStep
  <2>0. UNCHANGED <<serving, holders>>
    BY <1>4 DEF MainStep
  <2>1. CASE (\E place \in {"loop", "sd_wait", "rm_enter", "stop_server"} : Went("main", place)) /\ pc' = pc
    BY <1>0, <2>0, <2>1, WentOn
  <2>2. CASE UNCHANGED at /\ pc' = [pc EXCEPT ![Server] = StopCall(Server)]
    <3>1. pc' \in [Proxies -> Places]
      BY <1>0, <2>2, NextPlaces DEF ThreadType
    <3> QED
      BY <1>0, <2>0, <2>2, <3>1 DEF ThreadType
  <2>3. CASE Exited /\ at.rpc \in {"idle", "closed"} /\ pc' = pc
    BY <1>0, <2>0, <2>3 DEF ThreadType, Exited
  <2>4. CASE /\ at' = [dog |-> at.dog, main |-> "client", rpc |-> "idle"]
             /\ at.rpc = "closed" /\ pc' = pc
    BY <1>0, <2>0, <2>4 DEF ThreadType
  <2> QED
    BY <1>0, <1>4, <2>1, <2>2, <2>3, <2>4 DEF MainStep, StartupClosed
<1>5. ASSUME NEW c \in Proxies, NEW place \in Places, Moves(c, place)
      PROVE  ThreadType'
  <2>1. pc' \in [Proxies -> Places]
    BY <1>0, <1>5 DEF Moves, ThreadType
  <2> QED
    BY <1>0, <1>5, <2>1 DEF Moves, ThreadType
<1>6. CASE Aside
  BY <1>0, <1>6 DEF Aside, DataChanged, RtThreadDies, Signal, vars, ThreadType
<1>7. CASE Crashed
  BY <1>0, <1>7 DEF Crashed, ThreadType
<1> QED
  BY <1>0, <1>1, <1>2, <1>3, <1>4, <1>5, <1>6, <1>7, Effects

(* The list of data services and the loops over it.                        *)
LEMMA ListTypeStep ==
  ASSUME TypeInv, [Next]_vars
  PROVE  ListType'
<1>0. ListType /\ TypeOK /\ LoopOrder /\ PlainType
  BY TypeParts DEF TypeInv
<1>00. data_services \in Seq(Services) /\ Len(data_services) \in Nat /\ cursor \in [Threads -> Nat]
  BY <1>0, ServiceElements DEF ListType
<1>1. CASE CallStep
  <2>1. CASE Pushed
    <3>1. [port |-> 0, owner |-> serving, error |-> FALSE, blocked |-> FALSE] \in Services
      BY <2>1 DEF Pushed, Services
    <3>2. data_services' \in Seq(Services)
      BY <1>00, <2>1, <3>1, AppendProperties DEF Pushed
    <3> QED
      BY <1>00, <2>1, <3>2 DEF Pushed, ListType
  <2>2. CASE PortGiven
    <3>1. data_services' \in Seq(Services)
      <4>1. data_services' = [data_services EXCEPT ![Len(data_services)].port = next_port]
        BY <2>2 DEF PortGiven
      <4>2. CASE data_services = <<>>
        <5>1. Len(data_services) \notin DOMAIN data_services
          BY <1>00, <4>2
        <5>2. data_services' = data_services
          BY <1>00, <4>1, <5>1
        <5> QED
          BY <1>00, <5>2
      <4>3. CASE data_services # <<>>
        <5>1. Len(data_services) \in 1..Len(data_services)
          BY <1>00, <4>3, EmptySeq
        <5>2. data_services[Len(data_services)] \in Services
          BY <1>0, <5>1, ServiceElements
        <5>3. [data_services[Len(data_services)] EXCEPT !.port = next_port] \in Services
          BY <1>0, <5>2 DEF Services, PlainType
        <5>4. data_services' = [data_services EXCEPT ![Len(data_services)] =
                                  [data_services[Len(data_services)] EXCEPT !.port = next_port]]
          BY <4>1
        <5> QED
          BY <1>00, <5>1, <5>3, <5>4, ExceptElements
      <4> QED
        BY <4>2, <4>3
    <3> QED
      BY <1>00, <2>2, <3>1 DEF PortGiven, ListType
  <2>3. CASE NoPort
    <3>1. data_services' \in Seq(Services)
      <4>1. data_services' = Front(data_services)
        BY <2>3 DEF NoPort
      <4>2. CASE data_services # <<>>
        BY <1>00, <4>1, <4>2, FrontElements
      <4>3. CASE data_services = <<>>
        <5>1. Front(data_services) = <<>>
          BY <4>3, SubSeqEmpty DEF Front
        <5> QED
          BY <4>1, <5>1
      <4> QED
        BY <4>2, <4>3
    <3> QED
      BY <1>00, <2>3, <3>1 DEF NoPort, ListType
  <2>4. CASE DataRemoved
    <3>1. data_services' \in Seq(Services)
      BY <1>00, <2>4, OtherPortElements DEF DataRemoved
    <3> QED
      BY <1>00, <2>4, <3>1 DEF DataRemoved, ListType
  <2>5. CASE Refuse \/ Join \/ Create \/ Started \/ NotStarted \/ NoData \/ Logged \/ NotLogged
             \/ (\E c \in Proxies : Taken(c)) \/ (\E c \in Clients : LogTaken(c))
    BY <1>0, <2>5 DEF Refuse, Join, Create, Started, NotStarted, NoData, Logged, NotLogged, Taken,
                      LogTaken, ListType
  <2> QED
    BY <1>1, <2>1, <2>2, <2>3, <2>4, <2>5 DEF CallStep
<1>2. ASSUME NEW t \in Threads, RemovalStep(t)
      PROVE  ListType'
  <2>1. CASE Looped(t)
    <3>1. data_services' \in Seq(Services)
      BY <1>00, <2>1, RemoveAtElements DEF Looped
    <3>2. cursor' \in [Threads -> Nat]
      BY <1>00, <2>1 DEF Looped
    <3> QED
      BY <3>1, <3>2 DEF ListType
  <2>2. CASE GoIn(t) \/ LoopEnd(t)
    <3>1. cursor' \in [Threads -> Nat]
      BY <1>00, <2>2 DEF GoIn, LoopEnd
    <3> QED
      BY <1>0, <2>2, <3>1 DEF GoIn, LoopEnd, ListType
  <2>3. CASE CountDown(t) \/ GoOn(t) \/ TurnBack(t) \/ ShutDown(t) \/ Deleted(t)
    BY <1>0, <2>3 DEF CountDown, GoOn, TurnBack, ShutDown, Deleted, ListType
  <2> QED
    BY <1>2, <2>1, <2>2, <2>3 DEF RemovalStep
<1>3. CASE DogStep \/ MainStep \/ Crashed \/ \E c \in Proxies, place \in Places : Moves(c, place)
  BY <1>0, <1>3 DEF DogStep, MainStep, Crashed, Moves, ListType
<1>4. CASE Aside
  BY <1>0, <1>4 DEF Aside, DataChanged, RtThreadDies, Signal, vars, ListType
<1> QED
  BY <1>0, <1>1, <1>2, <1>3, <1>4, Effects

(* Which places a thread comes to, and from which.                         *)
LEMMA OrderStep ==
  ASSUME TypeInv, [Next]_vars
  PROVE  StartupClosed' /\ LoopOrder'
<1>0. TypeOK /\ StartupClosed /\ LoopOrder /\ cursor \in [Threads -> Nat]
  BY DEF TypeInv, TypeOK
<1> USE DEF StartupClosed, LoopOrder
<1>1. CASE CallStep
  <2>1. at.rpc # "closed" /\ UNCHANGED cursor
    BY <1>1 DEF CallStep, Refuse, Join, Create, Started, NotStarted, NoData, Pushed, PortGiven,
         NoPort, Logged, NotLogged, DataRemoved, Taken, LogTaken
  <2>2. \E place \in RpcPlaces \ {"rm_services"} : Went("rpc", place)
    <3>1. ASSUME NEW place, Answered(place) PROVE Went("rpc", "idle")
      BY <3>1 DEF Answered
    <3>2. CASE Refuse \/ Join \/ Started \/ NotStarted \/ NoData \/ PortGiven \/ Logged \/ DataRemoved
      BY <3>1, <3>2 DEF Refuse, Join, Started, NotStarted, NoData, PortGiven, Logged, DataRemoved, Granted
    <3>3. CASE Create \/ Pushed \/ NoPort \/ NotLogged \/ \E c \in Clients : LogTaken(c)
      BY <3>3 DEF Create, Pushed, NoPort, NotLogged, LogTaken
    <3>4. ASSUME NEW c \in Proxies, Taken(c)
          PROVE  \E place \in RpcPlaces \ {"rm_services"} : Went("rpc", place)
      <4>1. CASE pc[c] = "rm_sys"
        BY <3>4, <4>1 DEF Taken
      <4>2. CASE pc[c] # "rm_sys"
        BY <3>4, <4>2 DEF Taken
      <4> QED
        BY <4>1, <4>2
    <3> QED
      BY <1>1, <3>2, <3>3, <3>4 DEF CallStep
  <2> QED
    BY <1>0, <2>1, <2>2 DEF Went
<1>2. ASSUME NEW t \in Threads, RemovalStep(t)
      PROVE  StartupClosed' /\ LoopOrder'
  <2>0. at[t] \notin {"startup", "closed"}
    BY <1>2 DEF RemovalStep, CountDown, GoIn, Looped, LoopEnd, GoOn, TurnBack, ShutDown, Deleted
  <2>1. CASE GoIn(t)
    BY <1>0, <2>0, <2>1 DEF GoIn, Went
  <2>2. CASE Looped(t)
    BY <1>0, <2>0, <2>2 DEF Looped
  <2>3. CASE LoopEnd(t)
    BY <1>0, <2>0, <2>3 DEF LoopEnd, Went
  <2>4. CASE CountDown(t) \/ GoOn(t) \/ TurnBack(t) \/ ShutDown(t) \/ Deleted(t)
    <3>1. \E place \in {"exit", "stop_client", "idle", "rm_shutdown", "rm_delete"} : Went(t, place)
      BY <2>4 DEF CountDown, GoOn, TurnBack, ShutDown, Deleted, Returned, Home
    <3>2. UNCHANGED cursor
      BY <2>4 DEF CountDown, GoOn, TurnBack, ShutDown, Deleted
    <3> QED
      BY <1>0, <2>0, <3>1, <3>2 DEF Went
  <2> QED
    BY <1>2, <2>1, <2>2, <2>3, <2>4 DEF RemovalStep
<1>3. CASE DogStep
  BY <1>0, <1>3 DEF DogStep, Went
<1>4. CASE MainStep
  BY <1>0, <1>4 DEF MainStep, Went, Exited
<1>5. CASE Crashed
  BY <1>0, <1>5 DEF Crashed
<1>6. CASE (\E c \in Proxies, place \in Places : Moves(c, place)) \/ Aside
  <2>1. UNCHANGED <<at, cursor>>
    BY <1>6 DEF Moves, Aside, DataChanged, RtThreadDies, Signal, vars
  <2> QED
    BY <1>0, <2>1
<1> QED
  BY <1>0, <1>1, <1>2, <1>3, <1>4, <1>5, <1>6, Effects

(* The types hold to begin with.                                           *)
LEMMA TypeInit == Init => TypeInv
<1> SUFFICES ASSUME Init PROVE TypeInv
  OBVIOUS
<1>1. <<>> \in Seq(Services)
  OBVIOUS
<1>2. PlainType
  BY ProxyAssumption DEF Init, PlainType
<1>3. ThreadType
  BY DEF Init, ThreadType
<1>4. ListType
  BY <1>1 DEF Init, ListType
<1> QED
  BY <1>2, <1>3, <1>4, TypeParts DEF Init, TypeInv, StartupClosed, LoopOrder

(* Every step keeps them.                                                  *)
LEMMA TypeStep ==
  ASSUME TypeInv, [Next]_vars
  PROVE  TypeInv'
<1>1. PlainType' /\ ThreadType' /\ ListType'
  BY PlainStep, ThreadTypeStep, ListTypeStep DEF TypeInv
<1>2. TypeOK'
  BY <1>1 DEF PlainType, ThreadType, ListType, TypeOK, Services
<1> QED
  BY <1>2, OrderStep DEF TypeInv

(* ServiceTypeCorrect: in every state the variables have their types, and  *)
(* the RPC thread serves a proxy exactly while it is in a call.            *)
THEOREM ServiceTypeCorrect == Spec => []TypeOK
<1>1. TypeInv /\ [Next]_vars => TypeInv'
  BY TypeStep
<1>2. TypeInv => TypeOK
  BY DEF TypeInv
<1> QED
  BY <1>1, <1>2, TypeInit, PTL DEF Spec

-----------------------------------------------------------------------------
(* What the service, its threads and its clients know of one another.      *)

\* The proxy that is served waits for the answer.
ServedWaits ==
  serving # NoProxy =>
    /\ at.rpc \in Calls => pc[serving] = at.rpc
    /\ at.rpc = "at_start" => pc[serving] = "attach"
    /\ at.rpc = "data_start" => pc[serving] = "attach_data"
    /\ at.rpc = "hung" => pc[serving] = "log"
    /\ at.rpc \in {"rm_enter"} \cup Removing => pc[serving] \in {"rm_sys", "attach_data", "log"}

\* How far the watchdog, the main thread and the RPC thread can be at the same time.
Over == {"exited", "crashed"}
ThreadOrder ==
  /\ at.dog = "boot" => at.main = "startup" /\ ~svc_thread_active
  /\ at.main = "startup" =>
       /\ at.rpc = "closed" /\ at.dog \in {"boot", "loop", "check"}
       /\ ~svc_thread_end /\ ~rt_system /\ ~rt_active /\ ~orphan /\ num_rtsys_attach = 0
       /\ holders = {} /\ data_services = <<>>
  /\ at.main \notin {"startup"} \cup Over =>
       at.rpc # "closed" /\ (svc_thread_active \/ at.dog = "ended")
  /\ at.main \in Over => at.rpc = "closed" /\ at.dog = "ended"
  /\ at.main = "exited" => svc_thread_end \/ holders = {}
  /\ at.main \in InService => at.rpc = "idle"
  /\ at.main \in InService \cup {"stop_client", "stop_server"} => svc_thread_end
  /\ at.dog \in {"rm_enter", "exit"} \cup Removing => svc_thread_end /\ svc_thread_active
  /\ at.dog = "ended" => svc_thread_end \/ at.main \in Over

\* How far the client inside of the server is when the main thread goes on.
ServerClientOrder ==
  /\ at.main = "startup" => pc[Server] = "attach"
  /\ at.main = "loop" => pc[Server] = "run"
  /\ at.main \in InService => pc[Server] \in {"run", "done"}
  /\ at.main = "stop_server" => pc[Server] = "done"
  /\ at.main = "exited" => pc[Server] \in {"attach", "done"}

\* Who is a holder, from where each proxy is.
Within == {"attach_data", "connect", "undo_data", "run", "log"}
HoldersKnown ==
  /\ IsFiniteSet(holders)
  /\ \A c \in Proxies :
       /\ pc[c] \in {"attach", "done"} => c \notin holders
       /\ pc[c] \in Within => c \in holders

\* Before a system runs, and once it has been taken down by a service that is not
\* ending, nothing is left of it.
EmptyBefore ==
  /\ ~rt_system \/ at.rpc = "at_start" => ~rt_active
  /\ at.rpc = "at_start" => data_services = <<>> /\ num_rtsys_attach = 0
  /\ ~svc_thread_end /\ ~rt_system => data_services = <<>> /\ num_rtsys_attach = 0
  /\ ~svc_thread_end /\ at.rpc \in {"rm_shutdown", "rm_delete"} => data_services = <<>> /\ ~rt_active
  /\ ~svc_thread_end /\ at.rpc \in {"at_start", "data_start"} \cup Removing => rt_system
  /\ orphan => svc_thread_end
  /\ orphan /\ at.rpc = "at_start" => ~rt_system

(* A call moves the RPC thread only, and leaves the flags alone.           *)
LEMMA CallPlaces ==
  ASSUME TypeOK, CallStep
  PROVE  /\ at.rpc \notin {"closed", "hung", "rm_enter"} \cup Removing
         /\ at.rpc = "idle" => at.main \notin InService
         /\ \E place \in RpcPlaces \ ({"closed"} \cup Removing) : Went("rpc", place)
         /\ UNCHANGED <<flags, orphan, cursor, stray, stop_signal>>
<1>1. ASSUME NEW place, Answered(place) PROVE Went("rpc", "idle")
  BY <1>1 DEF Answered
<1>2. CASE Refuse \/ Join \/ Started \/ NotStarted \/ NoData \/ PortGiven \/ Logged \/ DataRemoved
  <2>1. Went("rpc", "idle")
    BY <1>1, <1>2
       DEF Refuse, Join, Started, NotStarted, NoData, PortGiven, Logged, DataRemoved, Granted
  <2>2. /\ at.rpc \in {"attach", "at_start", "attach_data", "data_start", "log", "rm_data", "undo_data"}
        /\ UNCHANGED <<flags, orphan, cursor, stray, stop_signal>>
    BY <1>2 DEF Refuse, Join, Started, NotStarted, NoData, PortGiven, Logged, DataRemoved
  <2> QED
    BY <2>1, <2>2
<1>3. CASE Create \/ Pushed \/ NoPort \/ NotLogged \/ \E c \in Clients : LogTaken(c)
  BY <1>3 DEF Create, Pushed, NoPort, NotLogged, LogTaken
<1>4. ASSUME NEW c \in Proxies, Taken(c)
      PROVE  /\ at.rpc = "idle" /\ at.main \notin InService
             /\ \E place \in RpcPlaces \ ({"closed"} \cup Removing) : Went("rpc", place)
             /\ UNCHANGED <<flags, orphan, cursor, stray, stop_signal>>
  <2>1. CASE pc[c] = "rm_sys"
    BY <1>4, <2>1 DEF Taken
  <2>2. CASE pc[c] # "rm_sys"
    BY <1>4, <2>2 DEF Taken
  <2> QED
    BY <2>1, <2>2
<1> QED
  BY <1>2, <1>3, <1>4 DEF CallStep

(* A thread that stays in the loop stays where it is.                      *)
LEMMA LoopedWent ==
  ASSUME TypeOK, NEW t \in Threads, Looped(t)
  PROVE  Went(t, "rm_services")
<1>1. at = [dog |-> at.dog, main |-> at.main, rpc |-> at.rpc]
  BY DEF TypeOK
<1> QED
  BY <1>1 DEF Looped, Went

(* A removal moves its thread only, and leaves the flags and ports alone.  *)
LEMMA RemovalPlaces ==
  ASSUME TypeOK, NEW t \in Threads, RemovalStep(t)
  PROVE  /\ at[t] \in {"rm_enter"} \cup Removing
         /\ \E place \in {Home(t)} \cup Removing : Went(t, place)
         /\ t # "rpc" => UNCHANGED <<serving, pc, holders>>
         /\ UNCHANGED <<flags, next_port, data_port, data_svc, stop_signal>>
<1>1. CASE CountDown(t) \/ TurnBack(t) \/ Deleted(t)
  BY <1>1 DEF CountDown, TurnBack, Deleted, Returned
<1>2. CASE GoIn(t) \/ LoopEnd(t) \/ GoOn(t) \/ ShutDown(t)
  BY <1>2 DEF GoIn, LoopEnd, GoOn, ShutDown
<1>3. CASE Looped(t)
  BY <1>3, LoopedWent DEF Looped
<1> QED
  BY <1>1, <1>2, <1>3 DEF RemovalStep

(* The proxy that is served stays where it is.                             *)
LEMMA ServedWaitsStep ==
  ASSUME TypeInv, ServedWaits, [Next]_vars
  PROVE  ServedWaits'
<1>0. TypeOK /\ LoopOrder /\ pc \in [Proxies -> Places]
  BY DEF TypeInv, TypeOK
<1>1. ASSUME NEW place, Answered(place) PROVE ServedWaits'
  BY <1>1 DEF Answered, ServedWaits
<1>2. CASE CallStep
  <2>1. CASE Refuse \/ Join \/ Started \/ NotStarted \/ NoData \/ PortGiven \/ Logged \/ DataRemoved
    BY <1>1, <2>1
       DEF Refuse, Join, Started, NotStarted, NoData, PortGiven, Logged, DataRemoved, Granted
  <2>2. CASE Create
    BY <2>2 DEF Create, ServedWaits, Went
  <2>3. CASE Pushed
    BY <2>3 DEF Pushed, ServedWaits, Went
  <2>4. CASE NoPort
    BY <2>4 DEF NoPort, ServedWaits, Went
  <2>5. CASE NotLogged
    BY <2>5 DEF NotLogged, ServedWaits, Went
  <2>6. ASSUME NEW c \in Proxies, Taken(c) PROVE ServedWaits'
    BY <1>0, <2>6 DEF Taken, ServedWaits, Went
  <2>7. ASSUME NEW c \in Clients, LogTaken(c) PROVE ServedWaits'
    <3>1. pc'[c] = "log" /\ serving' = c /\ at'.rpc = "log"
      BY <1>0, <2>7 DEF LogTaken, Went
    <3> QED
      BY <3>1 DEF ServedWaits
  <2> QED
    BY <1>2, <2>1, <2>2, <2>3, <2>4, <2>5, <2>6, <2>7 DEF CallStep
<1>3. ASSUME NEW t \in Threads, RemovalStep(t)
      PROVE  ServedWaits'
  <2>1. CASE t # "rpc"
    <3>1. at'.rpc = at.rpc /\ UNCHANGED <<serving, pc>>
      BY <1>0, <1>3, <2>1, RemovalPlaces DEF Went
    <3> QED
      BY <3>1 DEF ServedWaits
  <2>2. CASE t = "rpc"
    <3>1. CASE CountDown(t) \/ TurnBack(t) \/ Deleted(t)
      BY <1>1, <2>2, <3>1 DEF CountDown, TurnBack, Deleted, Returned
    <3>2. CASE GoIn(t) \/ Looped(t) \/ LoopEnd(t) \/ GoOn(t) \/ ShutDown(t)
      <4>1. at.rpc \in {"rm_enter"} \cup Removing /\ at'.rpc \in Removing
        <5>1. CASE Looped(t)
          BY <2>2, <5>1 DEF Looped
        <5>2. CASE GoIn(t) \/ LoopEnd(t) \/ GoOn(t) \/ ShutDown(t)
          <6>1. at[t] \in {"rm_enter"} \cup Removing /\ \E place \in Removing : Went(t, place)
            BY <5>2 DEF GoIn, LoopEnd, GoOn, ShutDown
          <6> QED
            BY <2>2, <6>1 DEF Went
        <5> QED
          BY <3>2, <5>1, <5>2
      <4>2. UNCHANGED <<serving, pc>>
        BY <3>2 DEF GoIn, Looped, LoopEnd, GoOn, ShutDown
      <4> QED
        BY <4>1, <4>2 DEF ServedWaits
    <3> QED
      BY <1>3, <3>1, <3>2 DEF RemovalStep
  <2> QED
    BY <2>1, <2>2
<1>4. CASE DogStep
  BY <1>4 DEF DogStep, ServedWaits, Went
<1>5. CASE MainStep
  <2>1. CASE Exited \/ at' = [dog |-> at.dog, main |-> "client", rpc |-> "idle"]
    <3>1. serving = NoProxy
      BY <1>5, <2>1 DEF MainStep, TypeInv, TypeOK, StartupClosed, Exited, Went
    <3> QED
      BY <1>5, <3>1 DEF MainStep, ServedWaits
  <2>2. CASE at'.rpc = at.rpc /\ pc' = pc
    BY <1>5, <2>2 DEF MainStep, ServedWaits
  <2>3. CASE UNCHANGED at /\ pc[Server] = "run" /\ pc' = [pc EXCEPT ![Server] = StopCall(Server)]
    <3>1. serving # NoProxy => serving # Server
      BY <1>0, <2>3 DEF ServedWaits, TypeOK
    <3> QED
      BY <1>0, <1>5, <2>3, <3>1 DEF MainStep, ServedWaits
  <2> QED
    BY <1>5, <2>1, <2>2, <2>3 DEF MainStep, Went
<1>6. ASSUME NEW c \in Proxies, NEW place \in Places, Moves(c, place)
      PROVE  ServedWaits'
  <2>1. serving # NoProxy => serving # c
    BY <1>0, <1>6 DEF Moves, ServedWaits, TypeOK
  <2> QED
    BY <1>0, <1>6, <2>1 DEF Moves, ServedWaits
<1>7. CASE Aside
  BY <1>7 DEF Aside, DataChanged, RtThreadDies, Signal, vars, ServedWaits
<1>8. CASE Crashed
  BY <1>8 DEF Crashed, ServedWaits
<1> QED
  BY <1>0, <1>2, <1>3, <1>4, <1>5, <1>6, <1>7, <1>8, Effects

(* No two threads are where one of them excludes the other.                *)
LEMMA ThreadOrderStep ==
  ASSUME TypeInv, ThreadOrder, [Next]_vars
  PROVE  ThreadOrder'
<1>0. TypeOK /\ LoopOrder
  BY DEF TypeInv
<1>1. CASE CallStep
  <2>1. /\ at.rpc # "closed" /\ at.main \notin InService
        /\ UNCHANGED <<flags, orphan>>
        /\ \E place \in RpcPlaces \ ({"closed"} \cup Removing) : Went("rpc", place)
    BY <1>0, <1>1, CallPlaces DEF ThreadOrder
  <2>2. at.main \notin {"startup"} \cup Over
    BY <2>1 DEF ThreadOrder
  <2>3. at'.main = at.main /\ at'.dog = at.dog /\ at'.rpc # "closed"
    BY <2>1 DEF Went
  <2> QED
    BY <2>1, <2>2, <2>3 DEF ThreadOrder, Over
<1>2. ASSUME NEW t \in Threads, RemovalStep(t)
      PROVE  ThreadOrder'
  <2>1. /\ at[t] \in {"rm_enter"} \cup Removing
        /\ \E place \in {Home(t)} \cup Removing : Went(t, place)
        /\ UNCHANGED flags
    BY <1>0, <1>2, RemovalPlaces
  <2>2. at.main \notin {"startup"} \cup Over
    BY <2>1 DEF ThreadOrder, Over
  <2>3. CASE t = "dog"
    <3>1. at'.main = at.main /\ at'.rpc = at.rpc /\ at'.dog \in {"exit"} \cup Removing
      BY <2>1, <2>3 DEF Went, Home
    <3> QED
      BY <2>1, <2>2, <2>3, <3>1 DEF ThreadOrder, Over
  <2>4. CASE t = "main"
    <3>1. at'.dog = at.dog /\ at'.rpc = at.rpc /\ at'.main \in {"stop_client"} \cup Removing
      BY <2>1, <2>4 DEF Went, Home
    <3> QED
      BY <2>1, <2>2, <2>4, <3>1 DEF ThreadOrder, Over
  <2>5. CASE t = "rpc"
    <3>1. at'.dog = at.dog /\ at'.main = at.main /\ at'.rpc \in {"idle"} \cup Removing
      BY <2>1, <2>5 DEF Went, Home
    <3> QED
      BY <2>1, <2>2, <2>5, <3>1 DEF ThreadOrder, Over
  <2> QED
    BY <2>3, <2>4, <2>5
<1>3. CASE DogStep
  <2>1. at'.main = at.main /\ at'.rpc = at.rpc
    BY <1>3 DEF DogStep, Went
  <2>2. CASE at.dog = "boot"
    BY <1>3, <2>1, <2>2 DEF DogStep, Went, ThreadOrder, Over
  <2>3. CASE at.dog # "boot"
    BY <1>3, <2>1, <2>3 DEF DogStep, Went, ThreadOrder, Over
  <2> QED
    BY <2>2, <2>3
<1>4. CASE MainStep
  <2>1. CASE Exited
    BY <1>4, <2>1 DEF MainStep, Exited, Went, ThreadOrder, Over
  <2>2. CASE at' = [dog |-> at.dog, main |-> "client", rpc |-> "idle"]
    BY <1>4, <2>2 DEF MainStep, Exited, Went, ThreadOrder, Over
  <2>3. CASE at.main = "startup" /\ UNCHANGED <<at, flags>>
    BY <1>4, <2>3 DEF MainStep, Exited, Went
  <2>4. CASE at.main # "startup" /\ at'.rpc = at.rpc /\ at'.dog = at.dog
    <3>1. at.main \in {"client", "loop", "sd_wait", "stop_client"}
      BY <1>4, <2>4 DEF MainStep, Exited
    <3>2. CASE Went("main", "sd_wait")
      <4>1. at.rpc = "idle" /\ svc_thread_end' = TRUE /\ svc_thread_active' = svc_thread_active
        BY <1>4, <3>1, <3>2 DEF MainStep, TypeInv, TypeOK, ThreadOrder, Over, Went, Exited
      <4> QED
        BY <2>4, <3>1, <3>2, <4>1 DEF Went, ThreadOrder, Over
    <3>3. CASE ~Went("main", "sd_wait")
      BY <1>4, <2>4, <3>1, <3>3 DEF MainStep, Went, ThreadOrder, Over, Exited
    <3> QED
      BY <3>2, <3>3
  <2> QED
    BY <1>4, <2>1, <2>2, <2>3, <2>4 DEF MainStep, Went, Exited
<1>5. CASE Crashed
  BY <1>5 DEF Crashed, ThreadOrder, Over
<1>6. CASE \E c \in Proxies, place \in Places : Moves(c, place)
  BY <1>6 DEF Moves, ThreadOrder
<1>7. CASE Aside
  <2>1. CASE DataChanged
    BY <2>1 DEF DataChanged, ThreadOrder
  <2>2. CASE RtThreadDies
    <3>1. rt_active /\ UNCHANGED <<flags, at, orphan, holders, data_services>>
      BY <2>2 DEF RtThreadDies
    <3>2. at.main # "startup"
      BY <3>1 DEF ThreadOrder
    <3> QED
      BY <3>1, <3>2 DEF ThreadOrder
  <2>3. CASE Signal \/ UNCHANGED vars
    BY <2>3 DEF Signal, vars, ThreadOrder
  <2> QED
    BY <1>7, <2>1, <2>2, <2>3 DEF Aside
<1> QED
  BY <1>0, <1>1, <1>2, <1>3, <1>4, <1>5, <1>6, <1>7, Effects

(* The main thread moves when its client has got far enough.               *)
LEMMA ServerClientOrderStep ==
  ASSUME TypeInv, ServedWaits, ThreadOrder, ServerClientOrder, [Next]_vars
  PROVE  ServerClientOrder'
<1>0. TypeOK /\ LoopOrder /\ pc \in [Proxies -> Places] /\ Server \in Proxies
  BY DEF TypeInv, TypeOK
<1>1. CASE CallStep
  <2>1. at'.main = at.main /\ at.main \notin {"startup", "exited"} \cup InService
    <3>1. \E place : Went("rpc", place)
      BY <1>0, <1>1, CallPlaces
    <3> QED
      BY <1>0, <1>1, <3>1, CallPlaces DEF ThreadOrder, Over, Went
  <2>2. ASSUME NEW place, Answered(place)
        PROVE  ServerClientOrder'
    <3>1. at.rpc # "idle"
      BY <1>0, <2>2, ProxyAssumption DEF Answered, TypeOK
    <3>2. serving = Server => pc[Server] \notin {"run", "done"}
      BY <1>0, <1>1, <2>2, <3>1, CallPlaces, ProxyAssumption DEF Answered, ServedWaits, TypeOK
    <3>3. pc[Server] \in {"run", "done"} => pc'[Server] = pc[Server]
      BY <1>0, <2>2, <3>2 DEF Answered
    <3> QED
      BY <2>1, <3>3 DEF ServerClientOrder
  <2>3. CASE Refuse \/ Join \/ Started \/ NotStarted \/ NoData \/ PortGiven \/ Logged \/ DataRemoved
    BY <2>2, <2>3
       DEF Refuse, Join, Started, NotStarted, NoData, PortGiven, Logged, DataRemoved, Granted
  <2>4. CASE Create \/ Pushed \/ NoPort \/ NotLogged \/ \E c \in Proxies : Taken(c)
    <3>1. pc' = pc
      BY <2>4 DEF Create, Pushed, NoPort, NotLogged, Taken
    <3> QED
      BY <2>1, <3>1 DEF ServerClientOrder
  <2>5. ASSUME NEW c \in Clients, LogTaken(c)
        PROVE  ServerClientOrder'
    <3>1. pc'[Server] = pc[Server]
      BY <1>0, <2>5, ProxyAssumption DEF LogTaken
    <3> QED
      BY <2>1, <3>1 DEF ServerClientOrder
  <2> QED
    BY <1>1, <2>3, <2>4, <2>5 DEF CallStep
<1>2. ASSUME NEW t \in Threads, RemovalStep(t)
      PROVE  ServerClientOrder'
  <2>1. at[t] \in {"rm_enter"} \cup Removing /\ \E place \in {Home(t)} \cup Removing : Went(t, place)
    BY <1>0, <1>2, RemovalPlaces
  <2>2. CASE t # "rpc"
    <3>1. /\ pc' = pc
          /\ at'.main = at.main \/ (at.main \in InService /\ at'.main \in {"stop_client"} \cup Removing)
      BY <1>0, <1>2, <2>1, <2>2, RemovalPlaces DEF Went, Home
    <3> QED
      BY <3>1 DEF ServerClientOrder
  <2>3. CASE t = "rpc"
    <3>1. at'.main = at.main /\ at.main \notin {"startup", "exited"} \cup InService
      BY <2>1, <2>3 DEF Went, ThreadOrder, Over
    <3>2. serving \in Proxies /\ pc[serving] \notin {"run", "done"}
      BY <1>0, <2>1, <2>3, ProxyAssumption DEF ServedWaits, TypeOK
    <3>3. pc' = pc \/ \E place : pc' = [pc EXCEPT ![serving] = place]
      BY <1>2 DEF RemovalStep, CountDown, GoIn, Looped, LoopEnd, GoOn, TurnBack, ShutDown, Deleted,
                  Returned, Answered
    <3>4. pc[Server] \in {"run", "done"} => pc'[Server] = pc[Server]
      BY <1>0, <3>2, <3>3
    <3> QED
      BY <3>1, <3>4 DEF ServerClientOrder
  <2> QED
    BY <2>2, <2>3
<1>3. CASE DogStep
  BY <1>3 DEF DogStep, Went, ServerClientOrder
<1>4. CASE MainStep
  <2>1. CASE pc' = pc
    BY <1>4, <2>1 DEF MainStep, Exited, Went, ServerClientOrder
  <2>2. CASE pc' # pc
    BY <1>4, <2>2 DEF MainStep, ServerClientOrder
  <2> QED
    BY <2>1, <2>2
<1>5. CASE Crashed
  BY <1>5 DEF Crashed, ServerClientOrder
<1>6. ASSUME NEW c \in Proxies, NEW place \in Places, Moves(c, place)
      PROVE  ServerClientOrder'
  <2>1. c = Server => pc[Server] = "connect"
    BY <1>6, ProxyAssumption DEF Moves
  <2>2. pc[Server] # "connect" => pc'[Server] = pc[Server]
    BY <1>0, <1>6, <2>1 DEF Moves
  <2> QED
    BY <1>6, <2>2 DEF Moves, ServerClientOrder
<1>7. CASE Aside
  BY <1>7 DEF Aside, DataChanged, RtThreadDies, Signal, vars, ServerClientOrder
<1> QED
  BY <1>0, <1>1, <1>2, <1>3, <1>4, <1>5, <1>6, <1>7, Effects

(* Who is served holds, or holds not, as where it was says.                *)
LEMMA HoldersKnownStep ==
  ASSUME TypeInv, ServedWaits, ThreadOrder, HoldersKnown, [Next]_vars
  PROVE  HoldersKnown'
<1>0. /\ TypeOK /\ LoopOrder /\ pc \in [Proxies -> Places] /\ IsFiniteSet(holders)
      /\ \A c \in Proxies :
           /\ pc[c] \in {"attach", "done"} => c \notin holders
           /\ pc[c] \in Within => c \in holders
  BY DEF TypeInv, TypeOK, HoldersKnown
(* A proxy that goes to a place where it holds as before.                  *)
<1>a. ASSUME NEW c \in Proxies, NEW place, pc' = [pc EXCEPT ![c] = place], holders' = holders,
             place \in {"attach", "done"} => c \notin holders,
             place \in Within => c \in holders
      PROVE  HoldersKnown'
  BY <1>0, <1>a DEF HoldersKnown
<1>1. CASE CallStep
  <2>1. CASE Refuse \/ NotStarted \/ NoData \/ DataRemoved
    <3>1. serving \in Proxies /\ holders' = holders
          /\ \E place \in {"rm_data", "rm_sys"} : pc' = [pc EXCEPT ![serving] = place]
      BY <2>1, NextPlaces DEF Refuse, NotStarted, NoData, DataRemoved, Answered
    <3> QED
      BY <1>a, <3>1 DEF Within
  <2>2. CASE PortGiven \/ Logged
    <3>1. serving \in Proxies /\ holders' = holders
          /\ \E place \in {"connect", "run"} : pc' = [pc EXCEPT ![serving] = place]
      BY <2>2 DEF PortGiven, Logged, Answered
    <3>2. serving \in holders
      BY <1>0, <2>2, <3>1, ProxyAssumption DEF PortGiven, Logged, ServedWaits, Within
    <3> QED
      BY <1>a, <3>1, <3>2 DEF Within
  <2>3. CASE Join \/ Started
    <3>1. /\ serving \in Proxies /\ holders' = holders \cup {serving}
          /\ pc' = [pc EXCEPT ![serving] = IF serving \in DataClients THEN "attach_data" ELSE "run"]
      BY <2>3 DEF Join, Started, Granted, Answered
    <3>2. IsFiniteSet(holders')
      BY <1>0, <3>1, FS_AddElement
    <3> QED
      BY <1>0, <3>1, <3>2 DEF HoldersKnown, Within
  <2>4. CASE Create \/ Pushed \/ NoPort \/ NotLogged \/ \E c \in Proxies : Taken(c)
    <3>1. UNCHANGED <<pc, holders>>
      BY <2>4 DEF Create, Pushed, NoPort, NotLogged, Taken
    <3> QED
      BY <1>0, <3>1 DEF HoldersKnown
  <2>5. ASSUME NEW c \in Clients, LogTaken(c)
        PROVE  HoldersKnown'
    <3>1. c \in Proxies /\ c \in holders
      BY <1>0, <2>5 DEF LogTaken, Within
    <3> QED
      BY <1>a, <2>5, <3>1 DEF LogTaken
  <2> QED
    BY <1>1, <2>1, <2>2, <2>3, <2>4, <2>5 DEF CallStep
<1>2. ASSUME NEW t \in Threads, RemovalStep(t)
      PROVE  HoldersKnown'
  <2>1. CASE UNCHANGED <<pc, holders>>
    BY <1>0, <2>1 DEF HoldersKnown
  <2>2. CASE t = "rpc" /\ Returned(t)
    <3>1. at.rpc \in {"rm_enter"} \cup Removing
      BY <1>0, <1>2, <2>2, RemovalPlaces
    <3>2. /\ serving \in Proxies /\ pc[serving] \in {"rm_sys", "attach_data", "log"}
      BY <1>0, <3>1, ProxyAssumption DEF ServedWaits, TypeOK
    <3>3. /\ pc' = [pc EXCEPT ![serving] = AfterRemoval]
          /\ holders' = IF Leaves THEN holders \ {serving} ELSE holders
      BY <2>2 DEF Returned, Answered
    <3>4. CASE Leaves
      <4>1. AfterRemoval = "done" /\ holders' = holders \ {serving}
        BY <3>3, <3>4 DEF Leaves, AfterRemoval
      <4>2. IsFiniteSet(holders')
        BY <1>0, <4>1, FS_RemoveElement
      <4> QED
        BY <1>0, <3>2, <3>3, <4>1, <4>2 DEF HoldersKnown, Within
    <3>5. CASE ~Leaves
      <4>1. CASE pc[serving] = "log"
        <5>1. AfterRemoval = "run" /\ serving \in holders
          BY <1>0, <3>2, <4>1 DEF AfterRemoval, Within
        <5> QED
          BY <1>a, <3>2, <3>3, <3>5, <5>1
      <4>2. CASE pc[serving] = "attach_data"
        <5>1. AfterRemoval \in {"rm_sys", "rm_data"}
          BY <4>2, NextPlaces DEF AfterRemoval
        <5> QED
          BY <1>a, <3>2, <3>3, <3>5, <5>1 DEF Within
      <4>3. CASE pc[serving] = "rm_sys"
        <5>1. AfterRemoval = "done" /\ serving \notin holders
          BY <3>5, <4>3 DEF AfterRemoval, Leaves
        <5> QED
          BY <1>a, <3>2, <3>3, <3>5, <5>1 DEF Within
      <4> QED
        BY <3>2, <4>1, <4>2, <4>3
    <3> QED
      BY <3>4, <3>5
  <2> QED
    BY <1>2, <2>1, <2>2 DEF RemovalStep, CountDown, GoIn, Looped, LoopEnd, GoOn, TurnBack, ShutDown,
                            Deleted, Returned
<1>3. CASE DogStep
  BY <1>0, <1>3 DEF DogStep, HoldersKnown
<1>4. CASE MainStep
  <2>1. CASE pc' = pc
    BY <1>0, <1>4, <2>1 DEF MainStep, HoldersKnown
  <2>2. CASE pc' = [pc EXCEPT ![Server] = StopCall(Server)]
    <3>1. Server \in Proxies /\ StopCall(Server) \in {"rm_sys", "rm_data"} /\ holders' = holders
      BY <1>4, NextPlaces DEF MainStep
    <3> QED
      BY <1>a, <2>2, <3>1 DEF Within
  <2> QED
    BY <1>4, <2>1, <2>2 DEF MainStep
<1>5. CASE Crashed \/ Aside
  <2>1. UNCHANGED <<pc, holders>>
    BY <1>5 DEF Crashed, Aside, DataChanged, RtThreadDies, Signal, vars
  <2> QED
    BY <1>0, <2>1 DEF HoldersKnown
<1>6. ASSUME NEW c \in Proxies, NEW place \in Places, Moves(c, place)
      PROVE  HoldersKnown'
  <2>1. CASE pc[c] = "connect" /\ place \in {"run", "undo_data"}
    BY <1>0, <1>6, <1>a, <2>1 DEF Moves, Within
  <2>2. CASE place = StopCall(c)
    BY <1>6, <1>a, <2>2, NextPlaces DEF Moves, Within
  <2>3. CASE at.rpc = "closed" /\ place = "done"
    <3>1. holders = {}
      BY <1>0, <1>6, <2>3 DEF Moves, ThreadOrder, Over, TypeOK
    <3> QED
      BY <1>6, <1>a, <2>3, <3>1 DEF Moves, Within
  <2> QED
    BY <1>6, <2>1, <2>2, <2>3 DEF Moves
<1> QED
  BY <1>0, <1>1, <1>2, <1>3, <1>4, <1>5, <1>6, Effects

(* A system that is not there has nothing.                                 *)
LEMMA EmptyBeforeStep ==
  ASSUME TypeInv, ThreadOrder, EmptyBefore, [Next]_vars
  PROVE  EmptyBefore'
<1>0. /\ TypeOK /\ LoopOrder /\ data_services \in Seq(Services) /\ Len(data_services) \in Nat
      /\ svc_thread_end \in BOOLEAN
  BY ServiceElements DEF TypeInv, TypeOK
<1>1. CASE CallStep
  <2>0. UNCHANGED <<svc_thread_end, orphan>>
    BY <1>0, <1>1, CallPlaces
  <2>1. CASE Refuse \/ NoData \/ Logged
    <3>1. at'.rpc = "idle" /\ UNCHANGED <<system, data_services>>
      BY <2>1 DEF Refuse, NoData, Logged, Answered, Went
    <3> QED
      BY <2>0, <3>1 DEF EmptyBefore
  <2>2. CASE Join
    <3>1. at'.rpc = "idle" /\ rt_system /\ UNCHANGED <<rt_system, rt_active, orphan, data_services>>
      BY <2>2 DEF Join, Granted, Answered, Went
    <3> QED
      BY <2>0, <3>1 DEF EmptyBefore
  <2>3. CASE Create
    <3>1. /\ at'.rpc = "at_start" /\ ~svc_thread_end /\ ~rt_system /\ rt_system' = TRUE
          /\ UNCHANGED <<rt_active, num_rtsys_attach, data_services>>
      BY <2>3 DEF Create, Went
    <3> QED
      BY <2>0, <3>1 DEF EmptyBefore
  <2>4. CASE Started
    <3>1. at'.rpc = "idle" /\ rt_system /\ UNCHANGED <<rt_system, orphan, data_services>>
      BY <2>4 DEF Started, Granted, Answered, Went
    <3> QED
      BY <2>0, <3>1 DEF EmptyBefore
  <2>5. CASE NotStarted
    <3>1. /\ at'.rpc = "idle" /\ at.rpc = "at_start" /\ num_rtsys_attach' = 0
          /\ UNCHANGED <<rt_active, data_services>>
      BY <2>5 DEF NotStarted, Answered, Went
    <3> QED
      BY <2>0, <3>1 DEF EmptyBefore
  <2>6. CASE Pushed \/ PortGiven \/ NoPort
    <3>1. /\ at.rpc \in {"attach_data", "data_start"} /\ at'.rpc \in {"data_start", "idle", "rm_enter"}
          /\ at.rpc = "attach_data" => rt_system
          /\ UNCHANGED system
      BY <2>6 DEF Pushed, PortGiven, NoPort, Answered, Went
    <3>2. ~svc_thread_end => rt_system
      BY <3>1 DEF EmptyBefore
    <3> QED
      BY <2>0, <3>1, <3>2 DEF EmptyBefore
  <2>7. CASE DataRemoved
    <3>1. at'.rpc = "idle" /\ UNCHANGED system
      BY <2>7 DEF DataRemoved, Answered, Went
    <3>2. data_services = <<>> => data_services' = <<>>
      BY <2>7 DEF DataRemoved, OtherPort
    <3> QED
      BY <2>0, <3>1, <3>2 DEF EmptyBefore
  <2>8. CASE NotLogged \/ (\E c \in Proxies : Taken(c)) \/ (\E c \in Clients : LogTaken(c))
    <3>1. /\ \E place \in RpcPlaces \ ({"closed", "at_start", "data_start"} \cup Removing) : Went("rpc", place)
          /\ UNCHANGED <<system, data_services>>
      <4>1. ASSUME NEW c \in Proxies, Taken(c)
            PROVE  /\ \E place \in RpcPlaces \ ({"closed", "at_start", "data_start"} \cup Removing) : Went("rpc", place)
                   /\ UNCHANGED <<system, data_services>>
        <5>1. CASE pc[c] = "rm_sys"
          BY <4>1, <5>1 DEF Taken
        <5>2. CASE pc[c] # "rm_sys"
          BY <4>1, <5>2 DEF Taken
        <5> QED
          BY <5>1, <5>2
      <4> QED
        BY <2>8, <4>1 DEF NotLogged, LogTaken
    <3>2. at'.rpc \notin {"at_start", "data_start"} \cup Removing
      BY <3>1 DEF Went
    <3> QED
      BY <2>0, <3>1, <3>2 DEF EmptyBefore
  <2> QED
    BY <1>1, <2>1, <2>2, <2>3, <2>4, <2>5, <2>6, <2>7, <2>8 DEF CallStep
<1>2. ASSUME NEW t \in Threads, RemovalStep(t)
      PROVE  EmptyBefore'
  <2>0. UNCHANGED svc_thread_end
    BY <1>0, <1>2, RemovalPlaces
  <2>1. t # "rpc" => svc_thread_end /\ at'.rpc = at.rpc
    BY <1>0, <1>2, RemovalPlaces DEF ThreadOrder, Went
  <2>2. t = "rpc" => at.rpc \in {"rm_enter"} \cup Removing
    BY <1>0, <1>2, RemovalPlaces
  <2>3. CASE CountDown(t)
    <3>1. /\ num_rtsys_attach' = IF rt_system THEN num_rtsys_attach - 1 ELSE 0
          /\ rt_system => num_rtsys_attach > 1
          /\ UNCHANGED <<rt_system, rt_active, orphan, data_services>>
          /\ t = "rpc" => at'.rpc = "idle"
      BY <2>3 DEF CountDown, Returned, Home, Went
    <3> QED
      BY <2>0, <2>1, <3>1 DEF EmptyBefore
  <2>4. CASE GoIn(t)
    <3>1. rt_system /\ UNCHANGED <<system, data_services>>
      BY <2>4 DEF GoIn
    <3>2. t = "rpc" => at'.rpc = "rm_services"
      BY <2>4 DEF GoIn, Went
    <3> QED
      BY <2>0, <2>1, <3>1, <3>2 DEF EmptyBefore
  <2>5. CASE Looped(t)
    <3>1. at'.rpc = at.rpc /\ UNCHANGED system
      BY <2>5 DEF Looped
    <3>2. data_services = <<>> => data_services' = <<>>
      BY <1>0, <2>5, EmptySeq DEF Looped
    <3>3. t = "rpc" => at.rpc = "rm_services"
      BY <2>5 DEF Looped
    <3> QED
      BY <2>0, <2>1, <3>1, <3>2, <3>3 DEF EmptyBefore
  <2>6. CASE LoopEnd(t)
    <3>1. UNCHANGED <<system, data_services>> /\ (t = "rpc" => at.rpc = "rm_services" /\ at'.rpc = "rm_test")
      BY <2>6 DEF LoopEnd, Went
    <3> QED
      BY <2>0, <2>1, <3>1 DEF EmptyBefore
  <2>7. CASE GoOn(t)
    <3>1. /\ UNCHANGED <<system, data_services>> /\ rt_system
          /\ t = "rpc" => at'.rpc = "rm_shutdown" /\ MayTearDown
      BY <2>7 DEF GoOn, Went
    <3> QED
      BY <2>0, <2>1, <3>1 DEF EmptyBefore, MayTearDown
  <2>8. CASE TurnBack(t)
    <3>1. /\ UNCHANGED <<rt_system, rt_active, orphan, data_services>> /\ rt_system /\ num_rtsys_attach' = 0
          /\ t = "rpc" => at'.rpc = "idle"
      BY <2>8 DEF TurnBack, Returned, Home, Went
    <3> QED
      BY <2>0, <2>1, <3>1 DEF EmptyBefore
  <2>9. CASE ShutDown(t)
    <3>1. /\ UNCHANGED <<rt_system, orphan, num_rtsys_attach, data_services>> /\ rt_system
          /\ t = "rpc" => at.rpc = "rm_shutdown" /\ at'.rpc = "rm_delete"
      BY <2>9 DEF ShutDown, Went
    <3>2. rt_active' = FALSE \/ rt_active' = rt_active
      BY <2>9 DEF ShutDown
    <3>3. ~rt_active => ~rt_active'
      BY <3>2
    <3> QED
      BY <2>0, <2>1, <3>1, <3>3 DEF EmptyBefore
  <2>10. CASE Deleted(t)
    <3>1. /\ ~rt_system' /\ ~rt_active' /\ num_rtsys_attach' = 0 /\ UNCHANGED data_services
          /\ orphan' => orphan \/ rt_active
          /\ t = "rpc" => at.rpc = "rm_delete" /\ at'.rpc = "idle"
      BY <2>10 DEF Deleted, Returned, Home, Went
    <3> QED
      BY <2>0, <2>1, <3>1 DEF EmptyBefore
  <2> QED
    BY <1>2, <2>3, <2>4, <2>5, <2>6, <2>7, <2>8, <2>9, <2>10 DEF RemovalStep
<1>3. CASE DogStep
  <2>1. at'.rpc = at.rpc /\ UNCHANGED <<system, data_services>>
    BY <1>3 DEF DogStep, Went
  <2>2. UNCHANGED svc_thread_end \/ svc_thread_end' = TRUE \/ at.dog = "boot"
    BY <1>3 DEF DogStep
  <2>3. CASE at.dog = "boot"
    <3>1. ~svc_thread_end /\ ~svc_thread_end'
      BY <1>3, <2>3 DEF DogStep, ThreadOrder
    <3> QED
      BY <2>1, <3>1 DEF EmptyBefore
  <2>4. CASE UNCHANGED svc_thread_end \/ svc_thread_end' = TRUE
    BY <2>1, <2>4 DEF EmptyBefore
  <2> QED
    BY <2>2, <2>3, <2>4
<1>4. CASE MainStep
  <2>1. at'.rpc = at.rpc \/ at'.rpc \in {"idle", "closed"}
    BY <1>4 DEF MainStep, Went, Exited
  <2>2. UNCHANGED <<system, data_services>> /\ (UNCHANGED svc_thread_end \/ svc_thread_end' = TRUE)
    BY <1>4 DEF MainStep
  <2> QED
    BY <2>1, <2>2 DEF EmptyBefore
<1>5. CASE Crashed
  BY <1>5 DEF Crashed, EmptyBefore
<1>6. CASE \E c \in Proxies, place \in Places : Moves(c, place)
  BY <1>6 DEF Moves, EmptyBefore
<1>7. CASE Aside
  <2>1. CASE DataChanged
    BY <2>1 DEF DataChanged, EmptyBefore
  <2>2. CASE RtThreadDies
    BY <2>2 DEF RtThreadDies, EmptyBefore
  <2>3. CASE Signal \/ UNCHANGED vars
    BY <2>3 DEF Signal, vars, EmptyBefore
  <2> QED
    BY <1>7, <2>1, <2>2, <2>3 DEF Aside
<1> QED
  BY <1>0, <1>1, <1>2, <1>3, <1>4, <1>5, <1>6, <1>7, Effects

-----------------------------------------------------------------------------
(* The count of clients.                                                   *)

\* The count is never above the holders; whoever is inside of the removal has seen
\* one at most; and behind the main thread's own removal the one that it took and
\* the one that is left are two.
Past == {"stop_client", "stop_server", "exited"}
CountBound ==
  /\ num_rtsys_attach <= Cardinality(holders)
  /\ (\E t \in Threads : at[t] \in Removing) => num_rtsys_attach <= 1
  /\ at.main \in Past /\ rt_system => 1 <= num_rtsys_attach /\ num_rtsys_attach < Cardinality(holders)
  /\ at.main \in Past => at.rpc # "at_start"

\* As long as the service is not ending, the count is below the holders only by what
\* went down for nobody, also once the RPC thread is inside of the removal, when the
\* count says nothing any more.
CountLower ==
  ~svc_thread_end =>
    /\ Cardinality(holders) <= num_rtsys_attach + stray
    /\ at.rpc \in Removing =>
         Cardinality(holders) <= IF Leaves THEN stray + 1 ELSE stray

(* What is known of the numbers.                                           *)
LEMMA Numbers ==
  ASSUME TypeInv, HoldersKnown
  PROVE  /\ num_rtsys_attach \in Nat /\ stray \in Nat /\ Cardinality(holders) \in Nat
         /\ svc_thread_end \in BOOLEAN
BY FS_CardinalityType DEF TypeInv, TypeOK, HoldersKnown

(* A proxy that is let in was none of the holders.                         *)
LEMMA GrantCounts ==
  ASSUME TypeInv, ServedWaits, HoldersKnown, Granted, at.rpc \in {"attach", "at_start"}
  PROVE  /\ num_rtsys_attach' = num_rtsys_attach + 1
         /\ Cardinality(holders') = Cardinality(holders) + 1
<1>1. serving \in Proxies /\ pc[serving] = "attach"
  BY ProxyAssumption DEF Granted, Answered, ServedWaits
<1>2. serving \notin holders /\ IsFiniteSet(holders)
  BY <1>1 DEF HoldersKnown
<1> QED
  BY <1>2, FS_AddElement DEF Granted

(* A proxy that leaves was one.                                            *)
LEMMA ReturnCounts ==
  ASSUME TypeInv, HoldersKnown, NEW t \in Threads, Returned(t)
  PROVE  Cardinality(holders') = IF t = "rpc" /\ Leaves THEN Cardinality(holders) - 1
                                 ELSE Cardinality(holders)
<1>1. CASE t # "rpc"
  BY <1>1 DEF Returned
<1>2. CASE t = "rpc" /\ Leaves
  <2>1. holders' = holders \ {serving} /\ serving \in holders /\ IsFiniteSet(holders)
    BY <1>2 DEF Returned, Leaves, HoldersKnown
  <2> QED
    BY <1>2, <2>1, FS_RemoveElement
<1>3. CASE t = "rpc" /\ ~Leaves
  BY <1>3 DEF Returned
<1> QED
  BY <1>1, <1>2, <1>3

(* All steps but those that count, and the removal's own.                  *)
LEMMA CountsStay ==
  ASSUME TypeInv, ServedWaits, ThreadOrder, EmptyBefore, [Next]_vars,
         ~Join, ~Started, ~NotStarted, ~Create, \A t \in Threads : ~RemovalStep(t)
  PROVE  /\ UNCHANGED <<rt_system, num_rtsys_attach, holders, stray>>
         /\ \A t \in Threads : at'[t] \in Removing => at[t] \in Removing
         /\ svc_thread_end => svc_thread_end'
         /\ at'.rpc \in Removing => UNCHANGED serving /\ (~svc_thread_end' => pc'[serving] = pc[serving])
         /\ at'.rpc = "at_start" => at.rpc = "at_start"
         /\ at'.main \in Past => at.main \in Past \/ (~rt_system /\ at'.rpc = "closed")
<1>0. TypeOK /\ LoopOrder /\ pc \in [Proxies -> Places]
  BY DEF TypeInv, TypeOK
<1>1. CASE CallStep
  <2>1. /\ at'.dog = at.dog /\ at'.main = at.main /\ at'.rpc \notin Removing
        /\ UNCHANGED <<flags, stray>>
    <3>1. \E place \in RpcPlaces \ ({"closed"} \cup Removing) : Went("rpc", place)
      BY <1>0, <1>1, CallPlaces
    <3> QED
      BY <1>0, <1>1, <3>1, CallPlaces DEF Went
  <2>2. UNCHANGED <<rt_system, num_rtsys_attach, holders>> /\ at'.rpc # "at_start"
    <3>1. CASE Refuse \/ NoData \/ PortGiven \/ Logged \/ DataRemoved
      BY <3>1 DEF Refuse, NoData, PortGiven, Logged, DataRemoved, Answered, Went
    <3>2. CASE Pushed \/ NoPort \/ NotLogged \/ \E c \in Clients : LogTaken(c)
      BY <3>2 DEF Pushed, NoPort, NotLogged, LogTaken, Went
    <3>3. ASSUME NEW c \in Proxies, Taken(c)
          PROVE  UNCHANGED <<rt_system, num_rtsys_attach, holders>> /\ at'.rpc # "at_start"
      BY <3>3 DEF Taken, Went
    <3> QED
      BY <1>1, <3>1, <3>2, <3>3 DEF CallStep
  <2>3. \A t \in Threads : at'[t] \in Removing => at[t] \in Removing
    BY <2>1
  <2> QED
    BY <2>1, <2>2, <2>3
<1>2. CASE DogStep
  <2>1. /\ UNCHANGED <<rt_system, num_rtsys_attach, holders, stray, serving, pc>>
        /\ at'.main = at.main /\ at'.rpc = at.rpc /\ at'.dog \notin Removing
    BY <1>2 DEF DogStep, Went
  <2>2. svc_thread_end => svc_thread_end'
    BY <1>2 DEF DogStep, ThreadOrder
  <2>3. \A t \in Threads : at'[t] \in Removing => at[t] \in Removing
    BY <2>1
  <2> QED
    BY <2>1, <2>2, <2>3
<1>3. CASE MainStep
  <2>1. /\ UNCHANGED <<rt_system, num_rtsys_attach, holders, stray, serving>>
        /\ svc_thread_end => svc_thread_end'
    BY <1>3 DEF MainStep
  <2>2. \A t \in Threads : at'[t] \in Removing => at[t] \in Removing
    BY <1>3 DEF MainStep, Went, Exited
  <2>3. pc' = pc \/ svc_thread_end'
    BY <1>3 DEF MainStep, ThreadOrder
  <2>4. /\ at'.rpc = "at_start" => at.rpc = "at_start"
        /\ at'.main \in Past => at.main \in Past \/ (~rt_system /\ at'.rpc = "closed")
    <3>1. CASE at.main = "startup"
      BY <1>3, <3>1 DEF MainStep, Went, Exited, Past, ThreadOrder
    <3>2. CASE at.main # "startup"
      BY <1>3, <3>2 DEF MainStep, Went, Exited, Past
    <3> QED
      BY <3>1, <3>2
  <2> QED
    BY <2>1, <2>2, <2>3, <2>4
<1>4. ASSUME NEW c \in Proxies, NEW place \in Places, Moves(c, place)
      PROVE  /\ UNCHANGED <<flags, at, rt_system, num_rtsys_attach, holders, stray, serving>>
             /\ at.rpc \in Removing => pc'[serving] = pc[serving]
  <2>1. /\ UNCHANGED <<flags, at, rt_system, num_rtsys_attach, holders, stray, serving>>
        /\ pc' = [pc EXCEPT ![c] = place]
        /\ pc[c] \in {"connect", "run"} \/ at.rpc = "closed"
    BY <1>4 DEF Moves
  <2>2. at.rpc \in Removing => serving \in Proxies /\ pc[serving] \in {"rm_sys", "attach_data", "log"}
    BY <1>0, ProxyAssumption DEF ServedWaits, TypeOK
  <2>3. at.rpc \in Removing => serving # c
    BY <2>1, <2>2
  <2> QED
    BY <1>0, <2>1, <2>2, <2>3
<1>5. CASE Aside
  BY <1>5 DEF Aside, DataChanged, RtThreadDies, Signal, vars
<1>6. CASE Crashed
  BY <1>6 DEF Crashed, Past
<1> QED
  BY <1>0, <1>1, <1>2, <1>3, <1>4, <1>5, <1>6, Effects

(* The count stays below the holders.                                      *)
LEMMA CountBoundStep ==
  ASSUME TypeInv, ServedWaits, ThreadOrder, HoldersKnown, EmptyBefore, CountBound, [Next]_vars
  PROVE  CountBound'
<1>0. /\ TypeOK /\ LoopOrder
      /\ num_rtsys_attach \in Nat /\ Cardinality(holders) \in Nat
      /\ num_rtsys_attach <= Cardinality(holders)
      /\ (\E t \in Threads : at[t] \in Removing) => num_rtsys_attach <= 1
      /\ at.main \in Past /\ rt_system =>
           1 <= num_rtsys_attach /\ num_rtsys_attach < Cardinality(holders)
      /\ at.main \in Past => at.rpc # "at_start"
  BY Numbers DEF TypeInv, CountBound
<1>1. CASE Join \/ Started
  <2>2. Granted /\ at.rpc \in {"attach", "at_start"}
    BY <1>1 DEF Join, Started
  <2>3. at'.rpc = "idle" /\ at'.main = at.main /\ at'.dog = at.dog
    BY <2>2 DEF Granted, Answered, Went
  <2>4. /\ num_rtsys_attach' = num_rtsys_attach + 1
        /\ Cardinality(holders') = Cardinality(holders) + 1
    BY <2>2, GrantCounts
  <2>5. at.main \notin Past \cup Removing
    BY <1>0, <1>1, <2>2 DEF Join, Started, ThreadOrder, Past, Over
  <2>6. at.dog \in Removing => num_rtsys_attach = 0
    BY <1>1 DEF Join, Started, ThreadOrder, EmptyBefore
  <2>7. (\E t \in Threads : at'[t] \in Removing) => at.dog \in Removing
    BY <2>3, <2>5
  <2> QED
    BY <1>0, <2>3, <2>4, <2>5, <2>6, <2>7 DEF CountBound
<1>2. CASE Create
  <2>1. /\ at'.rpc = "at_start" /\ at'.main = at.main /\ at'.dog = at.dog
        /\ UNCHANGED <<num_rtsys_attach, holders>> /\ ~svc_thread_end /\ at.rpc = "attach"
    BY <1>2 DEF Create, Went
  <2>2. at.main \notin Past
    BY <2>1 DEF ThreadOrder, Past, Over
  <2>3. \A t \in Threads : at'[t] \in Removing => at[t] \in Removing
    BY <2>1
  <2> QED
    BY <1>0, <2>1, <2>2, <2>3 DEF CountBound
<1>3. CASE NotStarted
  <2>1. num_rtsys_attach' = 0 /\ ~rt_system' /\ holders' = holders /\ at'.rpc = "idle"
    BY <1>3 DEF NotStarted, Answered, Went
  <2> QED
    BY <1>0, <2>1 DEF CountBound
<1>4. ASSUME NEW t \in Threads, RemovalStep(t)
      PROVE  CountBound'
  <2>0. /\ at[t] \in {"rm_enter"} \cup Removing
        /\ \E place \in {Home(t)} \cup Removing : Went(t, place)
        /\ t # "rpc" => svc_thread_end
        /\ at.rpc # "at_start" \/ t = "dog"
    BY <1>0, <1>4, RemovalPlaces DEF ThreadOrder
  <2>1. at'.rpc = "at_start" => at.rpc = "at_start"
    BY <2>0 DEF Went, Home
  <2>2. at'.main \in Past => t = "main" \/ at.main \in Past
    BY <2>0 DEF Went
  <2>3. at.main \in Past \/ at'.main \in Past => at'.rpc # "at_start"
    BY <1>0, <2>0, <2>1, <2>2
  <2>4. CASE CountDown(t) \/ TurnBack(t) \/ Deleted(t)
    <3>0. Returned(t)
      BY <2>4 DEF CountDown, TurnBack, Deleted
    <3>1. Cardinality(holders') = IF t = "rpc" /\ Leaves THEN Cardinality(holders) - 1
                                  ELSE Cardinality(holders)
      BY <3>0, ReturnCounts
    <3>2. t = "rpc" /\ Leaves => Cardinality(holders') \in Nat
      <4>1. IsFiniteSet(holders)
        BY DEF HoldersKnown
      <4>2. t = "rpc" => holders' \subseteq holders
        BY <3>0 DEF Returned
      <4> QED
        BY <4>1, <4>2, FS_Subset, FS_CardinalityType
    <3>3. \A u \in Threads : at'[u] \in Removing => at[u] \in Removing
      BY <3>0 DEF Returned, Went, Home
    <3>4. CASE CountDown(t)
      <4>1. /\ num_rtsys_attach' = IF rt_system THEN num_rtsys_attach - 1 ELSE 0
            /\ rt_system => num_rtsys_attach > 1
            /\ rt_system' = rt_system
        BY <3>4 DEF CountDown
      <4> QED
        BY <1>0, <2>2, <2>3, <3>1, <3>2, <3>3, <4>1 DEF CountBound
    <3>5. CASE TurnBack(t)
      <4>1. num_rtsys_attach' = 0 /\ ~svc_thread_end
        BY <3>5 DEF TurnBack, MayTearDown
      <4>2. at'.main \notin Past
        BY <2>0, <2>2, <4>1 DEF ThreadOrder, Past, Over
      <4> QED
        BY <1>0, <3>1, <3>2, <4>1, <4>2 DEF CountBound
    <3>6. CASE Deleted(t)
      <4>1. num_rtsys_attach' = 0 /\ ~rt_system'
        BY <3>6 DEF Deleted
      <4> QED
        BY <1>0, <2>3, <3>1, <3>2, <4>1 DEF CountBound
    <3> QED
      BY <2>4, <3>4, <3>5, <3>6
  <2>5. CASE GoIn(t) \/ Looped(t) \/ LoopEnd(t) \/ GoOn(t) \/ ShutDown(t)
    <3>1. /\ UNCHANGED <<rt_system, num_rtsys_attach, holders>>
          /\ at[t] \in Removing \/ num_rtsys_attach <= 1
      BY <2>5 DEF GoIn, Looped, LoopEnd, GoOn, ShutDown
    <3>2. (\E u \in Threads : at'[u] \in Removing) => num_rtsys_attach <= 1
      BY <1>0, <2>0, <3>1 DEF Went
    <3>3. at'.main \in Past => at.main \in Past
      <4>1. \E place \in Removing : Went(t, place)
        BY <1>0, <2>5, LoopedWent DEF GoIn, LoopEnd, GoOn, ShutDown
      <4> QED
        BY <4>1 DEF Went, Past
    <3> QED
      BY <1>0, <2>3, <3>1, <3>2, <3>3 DEF CountBound
  <2> QED
    BY <1>4, <2>4, <2>5 DEF RemovalStep
<1>5. CASE /\ ~Join /\ ~Started /\ ~NotStarted /\ ~Create /\ \A t \in Threads : ~RemovalStep(t)
  <2>1. /\ UNCHANGED <<rt_system, num_rtsys_attach, holders>>
        /\ \A t \in Threads : at'[t] \in Removing => at[t] \in Removing
        /\ at'.rpc = "at_start" => at.rpc = "at_start"
        /\ at'.main \in Past => at.main \in Past \/ (~rt_system /\ at'.rpc = "closed")
    BY <1>5, CountsStay
  <2> QED
    BY <1>0, <2>1 DEF CountBound
<1> QED
  BY <1>1, <1>2, <1>3, <1>4, <1>5

(* The removal by the RPC thread, while the service is not ending.         *)
LEMMA CountLowerRemoval ==
  ASSUME TypeInv, HoldersKnown, EmptyBefore, CountLower, ~svc_thread_end, RemovalStep("rpc")
  PROVE  /\ Cardinality(holders') <= num_rtsys_attach' + stray'
         /\ at'.rpc \in Removing =>
              Cardinality(holders') <= (IF Leaves THEN stray' + 1 ELSE stray')
         /\ rt_system /\ ~rt_system' =>
              ~rt_active /\ data_services' = <<>> /\ Cardinality(holders') <= stray'
<1>0. /\ TypeOK /\ num_rtsys_attach \in Nat /\ stray \in Nat /\ Cardinality(holders) \in Nat
      /\ Cardinality(holders) <= num_rtsys_attach + stray
      /\ at.rpc \in Removing => Cardinality(holders) <= IF Leaves THEN stray + 1 ELSE stray
      /\ ~rt_system => num_rtsys_attach = 0
      /\ at.rpc = "rm_delete" => data_services = <<>> /\ ~rt_active
  BY Numbers DEF TypeInv, CountLower, EmptyBefore
<1>1. ASSUME Returned("rpc")
      PROVE  /\ Cardinality(holders') = IF Leaves THEN Cardinality(holders) - 1 ELSE Cardinality(holders)
             /\ at'.rpc = "idle"
  BY <1>1, ReturnCounts DEF Returned, Home, Went
<1>2. CASE CountDown("rpc")
  <2>1. /\ rt_system' = rt_system
        /\ rt_system => num_rtsys_attach > 1
        /\ num_rtsys_attach' = IF rt_system THEN num_rtsys_attach - 1 ELSE 0
        /\ stray' = IF ~Leaves /\ rt_system THEN stray + 1 ELSE stray
        /\ Returned("rpc")
    BY <1>2 DEF CountDown
  <2> QED
    BY <1>0, <1>1, <2>1
<1>3. CASE GoIn("rpc")
  <2>1. /\ UNCHANGED <<rt_system, num_rtsys_attach, holders>> /\ num_rtsys_attach <= 1
        /\ stray' = IF ~Leaves /\ num_rtsys_attach > 0 THEN stray + 1 ELSE stray
    BY <1>3 DEF GoIn
  <2> QED
    BY <1>0, <2>1
<1>4. CASE Looped("rpc") \/ LoopEnd("rpc") \/ GoOn("rpc") \/ ShutDown("rpc")
  <2>1. /\ UNCHANGED <<rt_system, num_rtsys_attach, holders, stray>> /\ at.rpc \in Removing
    BY <1>4 DEF Looped, LoopEnd, GoOn, ShutDown
  <2> QED
    BY <1>0, <2>1
<1>5. CASE TurnBack("rpc") \/ Deleted("rpc")
  <2>1. /\ num_rtsys_attach' = 0 /\ stray' = stray /\ Returned("rpc") /\ at.rpc \in Removing
    BY <1>5 DEF TurnBack, Deleted
  <2>2. rt_system /\ ~rt_system' => at.rpc = "rm_delete" /\ UNCHANGED data_services
    BY <1>5 DEF TurnBack, Deleted
  <2> QED
    BY <1>0, <1>1, <2>1, <2>2
<1> QED
  BY <1>2, <1>3, <1>4, <1>5 DEF RemovalStep

(* Neither does it fall behind by more than what went down for nobody.     *)
LEMMA CountLowerStep ==
  ASSUME TypeInv, ServedWaits, ThreadOrder, HoldersKnown, EmptyBefore, CountLower, [Next]_vars
  PROVE  CountLower'
<1> SUFFICES ASSUME ~svc_thread_end'
             PROVE  /\ Cardinality(holders') <= num_rtsys_attach' + stray'
                    /\ at'.rpc \in Removing =>
                         Cardinality(holders') <= (IF Leaves' THEN stray' + 1 ELSE stray')
  BY DEF CountLower
<1>0. TypeOK /\ LoopOrder /\ num_rtsys_attach \in Nat /\ stray \in Nat /\ Cardinality(holders) \in Nat
  BY Numbers DEF TypeInv
<1>1. CASE Join \/ Started \/ Create \/ NotStarted
  <2>0. UNCHANGED <<svc_thread_end, stray>>
    BY <1>1 DEF Join, Started, Create, NotStarted
  <2>1. Cardinality(holders) <= num_rtsys_attach + stray
    BY <2>0 DEF CountLower
  <2>2. at'.rpc \notin Removing
    BY <1>1 DEF Join, Started, Create, NotStarted, Granted, Answered, Went
  <2>3. CASE Join \/ Started
    <3>1. Granted /\ at.rpc \in {"attach", "at_start"}
      BY <2>3 DEF Join, Started
    <3> QED
      BY <1>0, <2>0, <2>1, <2>2, <3>1, GrantCounts
  <2>4. CASE Create
    <3>1. UNCHANGED <<num_rtsys_attach, holders>>
      BY <2>4 DEF Create
    <3> QED
      BY <2>0, <2>1, <2>2, <3>1
  <2>5. CASE NotStarted
    <3>1. num_rtsys_attach = 0 /\ num_rtsys_attach' = 0 /\ holders' = holders
      BY <2>5 DEF NotStarted, EmptyBefore
    <3> QED
      BY <2>0, <2>1, <2>2, <3>1
  <2> QED
    BY <1>1, <2>3, <2>4, <2>5
<1>2. ASSUME NEW t \in Threads, RemovalStep(t)
      PROVE  /\ Cardinality(holders') <= num_rtsys_attach' + stray'
             /\ at'.rpc \in Removing =>
                  Cardinality(holders') <= (IF Leaves' THEN stray' + 1 ELSE stray')
  <2>1. t = "rpc" /\ ~svc_thread_end
    BY <1>0, <1>2, RemovalPlaces DEF ThreadOrder
  <2>2. at'.rpc \in Removing => UNCHANGED <<serving, pc, holders>>
    <3>1. CASE CountDown(t) \/ TurnBack(t) \/ Deleted(t)
      BY <2>1, <3>1 DEF CountDown, TurnBack, Deleted, Returned, Home, Went
    <3>2. CASE GoIn(t) \/ Looped(t) \/ LoopEnd(t) \/ GoOn(t) \/ ShutDown(t)
      BY <3>2 DEF GoIn, Looped, LoopEnd, GoOn, ShutDown
    <3> QED
      BY <1>2, <3>1, <3>2 DEF RemovalStep
  <2>3. at'.rpc \in Removing => (Leaves' <=> Leaves)
    BY <2>2 DEF Leaves
  <2> QED
    BY <1>2, <2>1, <2>3, CountLowerRemoval
<1>3. CASE /\ ~Join /\ ~Started /\ ~NotStarted /\ ~Create /\ \A t \in Threads : ~RemovalStep(t)
  <2>1. /\ UNCHANGED <<rt_system, num_rtsys_attach, holders, stray>> /\ ~svc_thread_end
        /\ at'.rpc \in Removing => at.rpc \in Removing
        /\ at'.rpc \in Removing => UNCHANGED serving /\ pc'[serving] = pc[serving]
    BY <1>3, CountsStay
  <2>2. at'.rpc \in Removing => (Leaves' <=> Leaves)
    BY <2>1 DEF Leaves
  <2> QED
    BY <2>1, <2>2 DEF CountLower
<1> QED
  BY <1>1, <1>2, <1>3

-----------------------------------------------------------------------------
(* The theorems.                                                           *)

ServiceInv ==
  /\ TypeInv /\ ServedWaits /\ ThreadOrder /\ ServerClientOrder /\ HoldersKnown /\ EmptyBefore
  /\ CountBound /\ CountLower

(* ServiceInvariant: what the service, its threads and its clients know of *)
(* one another holds in every state, and so do the bounds of the count.    *)
THEOREM ServiceInvariant == Spec => []ServiceInv
<1>1. Init => ServiceInv
  <2> SUFFICES ASSUME Init PROVE ServiceInv
    OBVIOUS
  <2>1. TypeInv
    BY TypeInit
  <2>2. IsFiniteSet(holders) /\ Cardinality(holders) = 0
    BY FS_EmptySet DEF Init
  <2>3. ServedWaits /\ ThreadOrder
    BY DEF Init, ServedWaits, ThreadOrder, Over
  <2>4. ServerClientOrder /\ HoldersKnown
    BY <2>2 DEF Init, ServerClientOrder, HoldersKnown, Within
  <2>5. EmptyBefore
    BY DEF Init, EmptyBefore
  <2>6. CountBound /\ CountLower
    BY <2>2 DEF Init, CountBound, CountLower, Past
  <2> QED
    BY <2>1, <2>3, <2>4, <2>5, <2>6 DEF ServiceInv
<1>2. ServiceInv /\ [Next]_vars => ServiceInv'
  BY TypeStep, ServedWaitsStep, ThreadOrderStep, ServerClientOrderStep, HoldersKnownStep,
     EmptyBeforeStep, CountBoundStep, CountLowerStep DEF ServiceInv
<1> QED
  BY <1>1, <1>2, PTL DEF Spec

(* CountIsHolders: the count is never above the clients that have been let *)
(* in and have not left, and until the service is ending below them only   *)
(* by what was taken down for nobody.                                      *)
THEOREM CountsItsClients == Spec => []CountIsHolders
<1>1. ServiceInv => CountIsHolders
  BY DEF ServiceInv, CountBound, CountLower, CountIsHolders
<1> QED
  BY <1>1, ServiceInvariant, PTL

(* LeftAtExit: the process leaves its system only under two clients that   *)
(* are still attached, whatever has failed or been killed before.          *)
THEOREM LeavesToTwo == Spec => []LeftAtExit
<1>1. ServiceInv => LeftAtExit
  <2> SUFFICES ASSUME ServiceInv, at.main = "exited", rt_system
               PROVE  Cardinality(holders \ {Server}) >= 2
    BY DEF LeftAtExit
  <2>1. Server \notin holders /\ Server \in Proxies
    BY DEF ServiceInv, ServerClientOrder, HoldersKnown
  <2>2. holders \ {Server} = holders
    BY <2>1
  <2>3. 1 <= num_rtsys_attach /\ num_rtsys_attach < Cardinality(holders)
    BY DEF ServiceInv, CountBound, Past
  <2>4. num_rtsys_attach \in Nat /\ Cardinality(holders) \in Nat
    BY Numbers DEF ServiceInv
  <2> QED
    BY <2>2, <2>3, <2>4
<1> QED
  BY <1>1, ServiceInvariant, PTL

(* SystemKept: as long as the service is not ending the system goes with   *)
(* its last data service, its thread at rest, and under nobody who counts. *)
THEOREM KeepsItsSystem == Spec => SystemKept
<1>1. ServiceInv /\ [Next]_vars =>
        (rt_system /\ ~rt_system' =>
           \/ svc_thread_end
           \/ ~rt_active /\ data_services' = <<>> /\ Cardinality(holders') <= stray')
  <2> SUFFICES ASSUME ServiceInv, [Next]_vars, rt_system, ~rt_system', ~svc_thread_end
               PROVE  ~rt_active /\ data_services' = <<>> /\ Cardinality(holders') <= stray'
    OBVIOUS
  <2>0. /\ TypeInv /\ ServedWaits /\ ThreadOrder /\ HoldersKnown /\ EmptyBefore /\ CountLower
        /\ TypeOK /\ LoopOrder
    BY DEF ServiceInv, TypeInv
  <2>1. NotStarted \/ \E t \in Threads : RemovalStep(t)
    <3>1. ~Join /\ ~Started /\ ~Create
      BY DEF Join, Started, Create
    <3> QED
      BY <2>0, <3>1, CountsStay
  <2>2. CASE NotStarted
    <3>1. /\ at.rpc = "at_start" /\ UNCHANGED <<data_services, holders, stray>>
      BY <2>2 DEF NotStarted
    <3>2. num_rtsys_attach = 0 /\ data_services = <<>> /\ ~rt_active
      BY <2>0, <3>1 DEF EmptyBefore
    <3>3. Cardinality(holders) <= 0 + stray /\ stray \in Nat
      BY <2>0, <3>2, Numbers DEF CountLower
    <3> QED
      BY <3>1, <3>2, <3>3
  <2>3. ASSUME NEW t \in Threads, RemovalStep(t)
        PROVE  ~rt_active /\ data_services' = <<>> /\ Cardinality(holders') <= stray'
    <3>1. t = "rpc"
      BY <2>0, <2>3, RemovalPlaces DEF ThreadOrder
    <3> QED
      BY <2>0, <2>3, <3>1, CountLowerRemoval
  <2> QED
    BY <2>1, <2>2, <2>3
<1>2. ServiceInv /\ [Next]_vars =>
        [rt_system /\ ~rt_system' =>
           \/ svc_thread_end
           \/ ~rt_active /\ data_services' = <<>> /\ Cardinality(holders') <= stray']_vars
  BY <1>1
<1> QED
  BY <1>2, ServiceInvariant, PTL DEF Spec, SystemKept

=============================================================================
