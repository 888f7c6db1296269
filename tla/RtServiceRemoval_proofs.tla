---------------------- MODULE RtServiceRemoval_proofs ----------------------
(***************************************************************************)
(* The data services of RtService and the removal of its system, for any   *)
(* clients, ports and faults: whom a removal takes a service from, when    *)
(* two threads may be inside of the removal together, and that the service *)
(* implements ServiceLife.                                                 *)
(***************************************************************************)
EXTENDS RtService_proofs

USE DEF Proxies, Calls, Places, Removing, Threads, DogPlaces, MainPlaces, RpcPlaces, InService,
        flags, system, services, proxies

-----------------------------------------------------------------------------
(* The removal by one thread.                                              *)

\* Until the main thread begins to end and the watchdog has counted one down, and
\* as long as nothing goes down for nobody, the count is exact; whom the RPC thread
\* is inside of the removal for was the last one.
Quiet ==
  stray = 0 /\ at.main \in {"startup", "client", "loop"} /\ at.dog \notin {"exit", "ended"}
Alone ==
  Quiet =>
    /\ rt_system => Cardinality(holders) <= num_rtsys_attach
    /\ at.rpc \in Removing => holders \subseteq {serving}

(* No step makes the service quiet again.                                  *)
LEMMA QuietBefore ==
  ASSUME TypeInv, ThreadOrder, [Next]_vars, Quiet'
  PROVE  Quiet
<1>0. TypeOK /\ LoopOrder /\ stray \in Nat
  BY DEF TypeInv, TypeOK
<1>1. CASE CallStep
  <2>1. (\E place : Went("rpc", place)) /\ UNCHANGED stray
    BY <1>0, <1>1, CallPlaces
  <2> QED
    BY <2>1 DEF Went, Quiet
<1>2. ASSUME NEW t \in Threads, RemovalStep(t)
      PROVE  Quiet
  <2>1. /\ at[t] \in {"rm_enter"} \cup Removing
        /\ \E place \in {Home(t)} \cup Removing : Went(t, place)
    BY <1>0, <1>2, RemovalPlaces
  <2>2. stray' \in {stray, stray + 1}
    BY <1>2 DEF RemovalStep, CountDown, GoIn, Looped, LoopEnd, GoOn, TurnBack, ShutDown, Deleted
  <2>3. stray = 0
    BY <1>0, <2>2 DEF Quiet
  <2>4. t = "main" => at'.main \notin {"startup", "client", "loop"}
    BY <2>1 DEF Went, Home
  <2>5. t # "main" => at'.main = at.main
    BY <2>1 DEF Went
  <2>6. t # "dog" => at'.dog = at.dog
    BY <2>1 DEF Went
  <2> QED
    BY <2>1, <2>3, <2>4, <2>5, <2>6 DEF Quiet
<1>3. CASE DogStep
  BY <1>3 DEF DogStep, Went, Quiet
<1>4. CASE MainStep
  BY <1>4 DEF MainStep, Exited, Went, Quiet
<1>5. CASE Crashed
  BY <1>5 DEF Crashed, Quiet
<1>6. CASE \E c \in Proxies, place \in Places : Moves(c, place)
  BY <1>6 DEF Moves, Quiet
<1>7. CASE Aside
  BY <1>7 DEF Aside, DataChanged, RtThreadDies, Signal, vars, Quiet
<1> QED
  BY <1>0, <1>1, <1>2, <1>3, <1>4, <1>5, <1>6, <1>7, Effects

(* One holder at most, and it is this one.                                 *)
LEMMA OnlyHolder ==
  ASSUME IsFiniteSet(holders), Cardinality(holders) <= 1, NEW c \in holders
  PROVE  holders \subseteq {c}
<1>1. IsFiniteSet(holders \ {c}) /\ Cardinality(holders \ {c}) = Cardinality(holders) - 1
  BY FS_RemoveElement
<1>2. Cardinality(holders) \in Nat /\ Cardinality(holders \ {c}) \in Nat
  BY <1>1, FS_CardinalityType
<1>3. Cardinality(holders \ {c}) = 0
  BY <1>1, <1>2
<1>4. holders \ {c} = {}
  BY <1>1, <1>3, FS_EmptySet
<1> QED
  BY <1>4

(* The steps of the removal keep it so.                                    *)
LEMMA AloneRemoval ==
  ASSUME TypeInv, ServedWaits, ThreadOrder, HoldersKnown, EmptyBefore, CountBound, CountLower, Alone,
         Quiet, Quiet', NEW t \in Threads, RemovalStep(t)
  PROVE  /\ rt_system' => Cardinality(holders') <= num_rtsys_attach'
         /\ at'.rpc \in Removing => holders' \subseteq {serving'}
<1>0. /\ TypeOK /\ num_rtsys_attach \in Nat /\ Cardinality(holders) \in Nat /\ IsFiniteSet(holders)
      /\ rt_system => Cardinality(holders) <= num_rtsys_attach
      /\ at.rpc \in Removing => holders \subseteq {serving}
      /\ stray = 0 /\ stray' = 0
  BY Numbers DEF TypeInv, HoldersKnown, Alone, Quiet
<1>1. at[t] \in {"rm_enter"} \cup Removing /\ \E place \in {Home(t)} \cup Removing : Went(t, place)
  BY <1>0, RemovalPlaces
<1>2. t # "main"
  BY <1>1 DEF Quiet
<1>3. CASE t = "dog"
  <2>1. at'.dog # "exit" /\ at'.rpc = at.rpc
    BY <1>1, <1>3 DEF Went, Quiet
  <2>2. ~Returned(t)
    BY <1>3, <2>1 DEF Returned, Home, Went
  <2>3. UNCHANGED <<rt_system, num_rtsys_attach, holders, serving>>
    BY <2>2 DEF RemovalStep, CountDown, GoIn, Looped, LoopEnd, GoOn, TurnBack, ShutDown, Deleted
  <2> QED
    BY <1>0, <2>1, <2>3
<1>4. CASE t = "rpc"
  <2>1. ASSUME Returned(t)
        PROVE  /\ Cardinality(holders') = IF Leaves THEN Cardinality(holders) - 1 ELSE Cardinality(holders)
               /\ at'.rpc = "idle"
    BY <1>4, <2>1, ReturnCounts DEF Returned, Home, Went
  <2>2. CASE CountDown(t)
    <3>1. /\ rt_system' = rt_system
          /\ num_rtsys_attach' = IF rt_system THEN num_rtsys_attach - 1 ELSE 0
          /\ stray' = IF ~Leaves /\ rt_system THEN stray + 1 ELSE stray
          /\ Returned(t)
      BY <1>4, <2>2 DEF CountDown
    <3> QED
      BY <1>0, <2>1, <3>1
  <2>3. CASE GoIn(t)
    <3>1. /\ UNCHANGED <<rt_system, num_rtsys_attach, holders, serving>>
          /\ rt_system /\ num_rtsys_attach <= 1
          /\ stray' = IF ~Leaves /\ num_rtsys_attach > 0 THEN stray + 1 ELSE stray
      BY <1>4, <2>3 DEF GoIn
    <3>2. CASE Leaves
      <4>1. serving \in holders /\ Cardinality(holders) <= 1
        BY <1>0, <3>1, <3>2 DEF Leaves
      <4> QED
        BY <1>0, <3>1, <4>1, OnlyHolder
    <3>3. CASE ~Leaves
      <4>1. Cardinality(holders) = 0
        BY <1>0, <3>1, <3>3
      <4>2. holders = {}
        BY <1>0, <4>1, FS_EmptySet
      <4> QED
        BY <1>0, <3>1, <4>2
    <3> QED
      BY <3>2, <3>3
  <2>4. CASE Looped(t) \/ LoopEnd(t) \/ GoOn(t) \/ ShutDown(t)
    <3>1. UNCHANGED <<rt_system, num_rtsys_attach, holders, serving>> /\ at.rpc \in Removing
      BY <1>4, <2>4 DEF Looped, LoopEnd, GoOn, ShutDown
    <3> QED
      BY <1>0, <3>1
  <2>5. CASE TurnBack(t)
    <3>1. ~svc_thread_end /\ Returned(t) /\ stray' = 0
      BY <1>0, <2>5 DEF TurnBack, MayTearDown
    <3>2. Cardinality(holders') <= num_rtsys_attach' + stray'
      BY <1>4, <3>1, CountLowerRemoval
    <3>3. num_rtsys_attach' = 0
      BY <2>5 DEF TurnBack
    <3>4. Cardinality(holders') <= num_rtsys_attach'
      BY <3>1, <3>2, <3>3
    <3> QED
      BY <2>1, <3>1, <3>4
  <2>6. CASE Deleted(t)
    <3>1. ~rt_system' /\ Returned(t)
      BY <2>6 DEF Deleted
    <3> QED
      BY <2>1, <3>1
  <2> QED
    BY <2>2, <2>3, <2>4, <2>5, <2>6 DEF RemovalStep
<1> QED
  BY <1>2, <1>3, <1>4

(* And so does every other step.                                           *)
LEMMA AloneStep ==
  ASSUME ServiceInv, Alone, [Next]_vars
  PROVE  Alone'
<1> SUFFICES ASSUME Quiet'
             PROVE  /\ rt_system' => Cardinality(holders') <= num_rtsys_attach'
                    /\ at'.rpc \in Removing => holders' \subseteq {serving'}
  BY DEF Alone
<1>0. /\ TypeInv /\ ServedWaits /\ ThreadOrder /\ HoldersKnown /\ EmptyBefore /\ CountBound
      /\ CountLower
  BY DEF ServiceInv
<1>1. /\ Quiet
      /\ num_rtsys_attach \in Nat /\ Cardinality(holders) \in Nat
      /\ rt_system => Cardinality(holders) <= num_rtsys_attach
      /\ at.rpc \in Removing => holders \subseteq {serving}
  BY <1>0, QuietBefore, Numbers DEF Alone
<1>2. CASE Join \/ Started
  <2>1. Granted /\ at.rpc \in {"attach", "at_start"} /\ rt_system
    BY <1>2 DEF Join, Started
  <2>2. /\ num_rtsys_attach' = num_rtsys_attach + 1
        /\ Cardinality(holders') = Cardinality(holders) + 1
    BY <1>0, <2>1, GrantCounts
  <2>3. at'.rpc = "idle"
    BY <2>1 DEF Granted, Answered, Went
  <2> QED
    BY <1>1, <2>1, <2>2, <2>3
<1>3. CASE Create
  <2>1. /\ ~svc_thread_end /\ UNCHANGED <<num_rtsys_attach, holders>> /\ at'.rpc = "at_start"
    BY <1>3 DEF Create, Went
  <2>2. Cardinality(holders) <= num_rtsys_attach + 0
    BY <1>0, <1>1, <2>1 DEF CountLower, Quiet
  <2> QED
    BY <1>1, <2>1, <2>2
<1>4. CASE NotStarted
  BY <1>4 DEF NotStarted, Answered, Went
<1>5. ASSUME NEW t \in Threads, RemovalStep(t)
      PROVE  /\ rt_system' => Cardinality(holders') <= num_rtsys_attach'
             /\ at'.rpc \in Removing => holders' \subseteq {serving'}
  BY <1>0, <1>1, <1>5, AloneRemoval
<1>6. CASE /\ ~Join /\ ~Started /\ ~NotStarted /\ ~Create /\ \A t \in Threads : ~RemovalStep(t)
  <2>1. /\ UNCHANGED <<rt_system, num_rtsys_attach, holders>>
        /\ \A t \in Threads : at'[t] \in Removing => at[t] \in Removing
        /\ at'.rpc \in Removing => UNCHANGED serving
    BY <1>0, <1>6, CountsStay
  <2> QED
    BY <1>1, <2>1
<1> QED
  BY <1>2, <1>3, <1>4, <1>5, <1>6

(* OneRemoval: two threads are inside of the removal of one system only    *)
(* when the main thread's wait for the watchdog was over too early, or the *)
(* count has gone down for somebody who did not leave.                     *)
THEOREM RemovesOnce == Spec => []OneRemoval
<1>1. Init => Alone
  BY DEF Init, Alone
<1>2. ServiceInv /\ Alone /\ [Next]_vars => Alone'
  BY AloneStep
<1>3. Spec => []Alone
  BY <1>1, <1>2, ServiceInvariant, PTL DEF Spec
<1>4. ServiceInv /\ Alone => OneRemoval
  <2> SUFFICES ASSUME ServiceInv, Alone, at.main # "client", stray = 0, ~GaveUp
               PROVE  Cardinality({t \in Threads : at[t] \in Removing}) <= 1
    BY DEF OneRemoval
  <2> DEFINE inside == {t \in Threads : at[t] \in Removing}
  <2>0. TypeOK /\ ThreadOrder
    BY DEF ServiceInv, TypeInv
  <2>1. CASE at.main = "startup"
    <3>1. inside = {}
      BY <2>0, <2>1 DEF ThreadOrder
    <3> QED
      BY <3>1, FS_EmptySet
  <2>2. CASE at.main # "startup"
    <3>1. PICK t \in Threads : inside \subseteq {t}
      <4>1. CASE at.main = "loop"
        <5>1. Server \in holders
          BY <4>1 DEF ServiceInv, ServerClientOrder, HoldersKnown, Within
        <5>2. ~(at.dog \in Removing /\ at.rpc \in Removing)
          <6> SUFFICES ASSUME at.dog \in Removing, at.rpc \in Removing
                       PROVE  FALSE
            OBVIOUS
          <6>1. serving = Server
            BY <4>1, <5>1 DEF Alone, Quiet
          <6>2. pc[serving] # "run" /\ pc[Server] = "run"
            BY <2>0, <4>1, <6>1, ProxyAssumption DEF ServiceInv, ServedWaits, ServerClientOrder, TypeOK
          <6> QED
            BY <6>1, <6>2
        <5> QED
          BY <4>1, <5>2
      <4>2. CASE at.main = "sd_wait"
        BY <2>0, <4>2 DEF ThreadOrder
      <4>3. CASE ~svc_thread_active
        <5>1. at.dog \notin Removing
          BY <2>0, <4>3 DEF ThreadOrder
        <5>2. at.main \in Removing => at.rpc \notin Removing
          BY <2>0 DEF ThreadOrder
        <5> QED
          BY <5>1, <5>2
      <4> QED
        BY <2>2, <4>1, <4>2, <4>3 DEF GaveUp
    <3>2. IsFiniteSet({t}) /\ Cardinality({t}) = 1
      BY FS_Singleton
    <3> QED
      BY <3>1, <3>2, FS_Subset
  <2> QED
    BY <2>1, <2>2
<1> QED
  BY <1>3, <1>4, ServiceInvariant, PTL

-----------------------------------------------------------------------------
(* The data services.                                                      *)

\* The ports that the proxies ask for: each its own once it has been given one.
PortNumbers ==
  /\ next_port >= FirstPort
  /\ \A c \in Proxies :
       /\ data_port[c] = FirstPort \/ (FirstPort < data_port[c] /\ data_port[c] < next_port)
       /\ pc[c] \in {"connect", "undo_data"} => data_port[c] < next_port
  /\ \A c, d \in Proxies : data_port[c] = data_port[d] => c = d \/ data_port[c] = FirstPort

\* Only the service that is being started has no port yet.
Starting ==
  at.main \notin Over =>
    /\ \A i \in 1..Len(data_services) : data_services[i].port = 0 =>
         i = Len(data_services) /\ at.rpc = "data_start"
    /\ at.rpc = "data_start" =>
         /\ data_services # <<>>
         /\ data_services[Len(data_services)].port = 0
         /\ data_services[Len(data_services)].owner = serving

\* The others have the ports of their owners, who cannot ask for another one.
OwnedServices ==
  /\ \A i \in 1..Len(data_services) : data_services[i].port # 0 =>
       /\ data_services[i].port = data_port[data_services[i].owner]
       /\ data_services[i].port < next_port
       /\ pc[data_services[i].owner] \notin {"attach", "attach_data"}
       /\ \A c \in Proxies : pc[c] \in {"connect", "undo_data"} /\ data_port[c] = data_services[i].port =>
            c = data_services[i].owner
  /\ \A i, j \in 1..Len(data_services) :
       data_services[i].port # 0 /\ data_services[i].port = data_services[j].port => i = j

(* But for the one that is given a port, nobody's port changes, and nobody *)
(* comes to where its service counts.                                      *)
LEMMA PortsStay ==
  ASSUME TypeInv, ServedWaits, [Next]_vars
  PROVE  /\ \A c \in Proxies : pc'[c] \in {"attach", "attach_data"} => pc[c] \in {"attach", "attach_data"}
         /\ \/ PortGiven
            \/ /\ UNCHANGED <<next_port, data_port>>
               /\ \A c \in Proxies : pc'[c] \in {"connect", "undo_data"} => pc[c] \in {"connect", "undo_data"}
<1>0. TypeOK /\ LoopOrder /\ pc \in [Proxies -> Places]
  BY DEF TypeInv, TypeOK
<1> DEFINE Stay == /\ UNCHANGED <<next_port, data_port>>
                   /\ \A c \in Proxies : pc'[c] \in {"connect", "undo_data"} => pc[c] \in {"connect", "undo_data"}
           Old == \A c \in Proxies : pc'[c] \in {"attach", "attach_data"} => pc[c] \in {"attach", "attach_data"}
<1>a. ASSUME UNCHANGED pc PROVE Old /\ (UNCHANGED <<next_port, data_port>> => Stay)
  BY <1>a
<1>b. ASSUME NEW c \in Proxies, NEW place, pc' = [pc EXCEPT ![c] = place],
             place \in {"attach", "attach_data"} => pc[c] \in {"attach", "attach_data"}
      PROVE  Old /\ (UNCHANGED <<next_port, data_port>> /\
                     (place \in {"connect", "undo_data"} => pc[c] \in {"connect", "undo_data"}) => Stay)
  BY <1>0, <1>b
<1> HIDE DEF Stay, Old
<1>1. CASE CallStep
  <2>1. CASE Create \/ Pushed \/ NoPort \/ NotLogged \/ \E c \in Proxies : Taken(c)
    BY <1>a, <2>1 DEF Create, Pushed, NoPort, NotLogged, Taken
  <2>2. CASE Refuse \/ NotStarted \/ NoData \/ DataRemoved \/ Logged
    <3>1. /\ serving \in Proxies /\ UNCHANGED <<next_port, data_port>>
          /\ \E place \in {"rm_data", "rm_sys", "run"} : pc' = [pc EXCEPT ![serving] = place]
      BY <2>2, NextPlaces DEF Refuse, NotStarted, NoData, DataRemoved, Logged, Answered
    <3> QED
      BY <1>b, <3>1
  <2>3. CASE Join \/ Started
    <3>1. /\ serving \in Proxies /\ UNCHANGED <<next_port, data_port>>
          /\ \E place \in {"attach_data", "run"} : pc' = [pc EXCEPT ![serving] = place]
          /\ at.rpc \in {"attach", "at_start"}
      BY <2>3 DEF Join, Started, Granted, Answered
    <3>2. pc[serving] = "attach"
      BY <3>1, ProxyAssumption DEF ServedWaits
    <3> QED
      BY <1>b, <3>1, <3>2
  <2>4. CASE PortGiven
    <3>1. serving \in Proxies /\ pc' = [pc EXCEPT ![serving] = "connect"]
      BY <2>4 DEF PortGiven, Answered
    <3> QED
      BY <1>b, <2>4, <3>1 DEF Stay, Old
  <2>5. ASSUME NEW c \in Clients, LogTaken(c)
        PROVE  Old /\ Stay
    <3>1. /\ c \in Proxies /\ UNCHANGED <<next_port, data_port>>
          /\ \E place \in {"log"} : pc' = [pc EXCEPT ![c] = place]
      BY <2>5 DEF LogTaken
    <3> QED
      BY <1>b, <3>1
  <2> QED
    BY <1>1, <2>1, <2>2, <2>3, <2>4, <2>5 DEF CallStep, Stay, Old
<1>2. ASSUME NEW t \in Threads, RemovalStep(t)
      PROVE  Old /\ Stay
  <2>1. UNCHANGED <<next_port, data_port>>
    BY <1>0, <1>2, RemovalPlaces
  <2>2. \/ UNCHANGED pc
        \/ serving \in Proxies /\ pc' = [pc EXCEPT ![serving] = AfterRemoval]
    BY <1>2 DEF RemovalStep, CountDown, GoIn, Looped, LoopEnd, GoOn, TurnBack, ShutDown, Deleted,
                Returned, Answered
  <2>3. AfterRemoval \in {"run", "rm_sys", "rm_data", "done"}
    BY NextPlaces
  <2> QED
    BY <1>a, <1>b, <2>1, <2>2, <2>3
<1>3. ASSUME MainStep PROVE Old /\ Stay
  <2>1. UNCHANGED <<next_port, data_port>>
    BY <1>3 DEF MainStep
  <2>2. \/ UNCHANGED pc
        \/ \E place \in {"rm_sys", "rm_data"} : pc' = [pc EXCEPT ![Server] = place]
    BY <1>3, NextPlaces DEF MainStep
  <2>3. Server \in Proxies
    OBVIOUS
  <2> QED
    BY <1>a, <1>b, <2>1, <2>2, <2>3
<1>4. ASSUME NEW c \in Proxies, NEW place \in Places, Moves(c, place)
      PROVE  Old /\ Stay
  <2>1. /\ UNCHANGED <<next_port, data_port>> /\ pc' = [pc EXCEPT ![c] = place]
        /\ pc[c] = "connect" \/ place \in {"rm_sys", "rm_data", "done"}
        /\ place \in {"run", "undo_data", "rm_sys", "rm_data", "done"}
    BY <1>4, NextPlaces DEF Moves
  <2> QED
    BY <1>b, <2>1
<1>5. CASE DogStep \/ Aside \/ Crashed
  <2>1. UNCHANGED <<pc, next_port, data_port>>
    BY <1>5 DEF DogStep, Aside, DataChanged, RtThreadDies, Signal, vars, Crashed
  <2> QED
    BY <1>a, <2>1
<1> QED
  BY <1>0, <1>1, <1>2, <1>3, <1>4, <1>5, Effects DEF Stay, Old

(* A port is given once.                                                   *)
LEMMA PortNumbersStep ==
  ASSUME TypeInv, ServedWaits, PortNumbers, [Next]_vars
  PROVE  PortNumbers'
<1>0. /\ pc \in [Proxies -> Places] /\ data_port \in [Proxies -> Nat] /\ next_port \in Nat
      /\ FirstPort \in Nat
  BY ProxyAssumption DEF TypeInv, TypeOK
<1>1. CASE PortGiven
  <2>1. /\ next_port' = next_port + 1 /\ serving \in Proxies
        /\ data_port' = [data_port EXCEPT ![serving] = next_port]
        /\ pc' = [pc EXCEPT ![serving] = "connect"]
    BY <1>1 DEF PortGiven, Answered
  <2>2. next_port' >= FirstPort
    BY <1>0, <2>1 DEF PortNumbers
  <2>3. ASSUME NEW c \in Proxies
        PROVE  /\ data_port'[c] = FirstPort \/ (FirstPort < data_port'[c] /\ data_port'[c] < next_port')
               /\ pc'[c] \in {"connect", "undo_data"} => data_port'[c] < next_port'
    BY <1>0, <2>1 DEF PortNumbers
  <2>4. ASSUME NEW c \in Proxies, NEW d \in Proxies, data_port'[c] = data_port'[d], c # d
        PROVE  data_port'[c] = FirstPort
    BY <1>0, <2>1, <2>4 DEF PortNumbers
  <2> QED
    BY <2>2, <2>3, <2>4 DEF PortNumbers
<1>2. CASE ~PortGiven
  BY <1>2, PortsStay DEF PortNumbers
<1> QED
  BY <1>1, <1>2

(* How the list changes, and whether a service is being started.           *)
LEMMA ListEffect ==
  ASSUME TypeInv, ThreadOrder, [Next]_vars
  PROVE  \/ Pushed \/ PortGiven \/ NoPort
         \/ /\ UNCHANGED data_services \/ DataRemoved \/ DataChanged \/ \E t \in Threads : Looped(t)
            /\ at'.main \notin Over =>
                 /\ at.main \notin Over
                 /\ at'.rpc = "data_start" <=> at.rpc = "data_start"
                 /\ at.rpc = "data_start" => serving' = serving
<1>0. TypeOK /\ LoopOrder
  BY DEF TypeInv
<1> DEFINE Goal == /\ UNCHANGED data_services \/ DataRemoved \/ DataChanged \/ \E t \in Threads : Looped(t)
                   /\ at'.main \notin Over =>
                        /\ at.main \notin Over
                        /\ at'.rpc = "data_start" <=> at.rpc = "data_start"
                        /\ at.rpc = "data_start" => serving' = serving
<1>1. ASSUME CallStep PROVE Pushed \/ PortGiven \/ NoPort \/ Goal
  <2>1. at'.main = at.main
    <3>1. \E place : Went("rpc", place)
      BY <1>0, <1>1, CallPlaces
    <3> QED
      BY <3>1 DEF Went
  <2>2. CASE Refuse \/ Join \/ Started \/ NotStarted \/ NoData \/ Logged \/ DataRemoved
    <3>1. at.rpc # "data_start" /\ at'.rpc = "idle" /\ (UNCHANGED data_services \/ DataRemoved)
      BY <2>2 DEF Refuse, Join, Started, NotStarted, NoData, Logged, DataRemoved, Granted, Answered, Went
    <3> QED
      BY <2>1, <3>1
  <2>3. CASE Create \/ NotLogged \/ \E c \in Clients : LogTaken(c)
    <3>1. at.rpc # "data_start" /\ at'.rpc # "data_start" /\ UNCHANGED data_services
      BY <2>3 DEF Create, NotLogged, LogTaken, Went
    <3> QED
      BY <2>1, <3>1
  <2>4. ASSUME NEW c \in Proxies, Taken(c) PROVE Goal
    <3>1. at.rpc # "data_start" /\ at'.rpc # "data_start" /\ UNCHANGED data_services
      BY <2>4 DEF Taken, Went
    <3> QED
      BY <2>1, <3>1
  <2> QED
    BY <1>1, <2>2, <2>3, <2>4 DEF CallStep
<1>2. ASSUME NEW t \in Threads, RemovalStep(t) PROVE Goal
  <2>1. /\ at[t] \in {"rm_enter"} \cup Removing
        /\ \E place \in {Home(t)} \cup Removing : Went(t, place)
        /\ t # "rpc" => UNCHANGED serving
    BY <1>0, <1>2, RemovalPlaces
  <2>2. at.main \notin Over
    BY <2>1 DEF ThreadOrder, Over
  <2>3. /\ at'.rpc = "data_start" <=> at.rpc = "data_start"
        /\ at.rpc = "data_start" => serving' = serving
    BY <2>1 DEF Went, Home
  <2>4. UNCHANGED data_services \/ Looped(t)
    BY <1>2 DEF RemovalStep, CountDown, GoIn, LoopEnd, GoOn, TurnBack, ShutDown, Deleted
  <2> QED
    BY <2>2, <2>3, <2>4
<1>3. ASSUME DogStep PROVE Goal
  BY <1>3 DEF DogStep, Went
<1>4. ASSUME MainStep PROVE Goal
  <2>1. UNCHANGED <<data_services, serving>>
    BY <1>4 DEF MainStep
  <2>2. at'.main \notin Over => at.main \notin Over /\ (at'.rpc = "data_start" <=> at.rpc = "data_start")
    <3>1. CASE at.main = "startup"
      BY <1>4, <3>1 DEF MainStep, Exited, Went, ThreadOrder, Over
    <3>2. CASE at.main # "startup"
      BY <1>4, <3>2 DEF MainStep, Exited, Went, Over
    <3> QED
      BY <3>1, <3>2
  <2> QED
    BY <2>1, <2>2
<1>5. ASSUME Crashed PROVE Goal
  BY <1>5 DEF Crashed, Over
<1>6. ASSUME NEW c \in Proxies, NEW place \in Places, Moves(c, place) PROVE Goal
  BY <1>6 DEF Moves
<1>7. ASSUME Aside PROVE Goal
  <2>1. (UNCHANGED data_services \/ DataChanged) /\ UNCHANGED <<at, serving>>
    BY <1>7 DEF Aside, DataChanged, RtThreadDies, Signal, vars
  <2> QED
    BY <2>1
<1> HIDE DEF Goal
<1> QED
  BY <1>0, <1>1, <1>2, <1>3, <1>4, <1>5, <1>6, <1>7, Effects DEF Goal

(* A service is without a port only while it is being started.             *)
LEMMA StartingStep ==
  ASSUME TypeInv, ThreadOrder, PortNumbers, Starting, [Next]_vars
  PROVE  Starting'
<1> SUFFICES ASSUME at'.main \notin Over
             PROVE  /\ \A i \in 1..Len(data_services') : data_services'[i].port = 0 =>
                         i = Len(data_services') /\ at'.rpc = "data_start"
                    /\ at'.rpc = "data_start" =>
                         /\ data_services' # <<>>
                         /\ data_services'[Len(data_services')].port = 0
                         /\ data_services'[Len(data_services')].owner = serving'
  BY DEF Starting
<1>0. /\ data_services \in Seq(Services) /\ Len(data_services) \in Nat
      /\ \A i \in 1..Len(data_services) : data_services[i] \in Services
      /\ next_port \in Nat /\ next_port # 0
  BY ServiceElements, ProxyAssumption DEF TypeInv, TypeOK, PortNumbers
<1>a. ASSUME at.main \notin Over
      PROVE  /\ \A i \in 1..Len(data_services) : data_services[i].port = 0 =>
                  i = Len(data_services) /\ at.rpc = "data_start"
             /\ at.rpc = "data_start" =>
                  /\ data_services # <<>>
                  /\ data_services[Len(data_services)].port = 0
                  /\ data_services[Len(data_services)].owner = serving
  BY <1>a DEF Starting
<1>b. at.rpc # "closed" => at.main \notin Over
  BY DEF ThreadOrder
<1>1. CASE Pushed
  <2> DEFINE new == [port |-> 0, owner |-> serving, error |-> FALSE, blocked |-> FALSE]
  <2>1. /\ at.rpc = "attach_data" /\ at'.rpc = "data_start" /\ serving' = serving
        /\ data_services' = Append(data_services, new) /\ new \in Services
    BY <1>1 DEF Pushed, Went, Services
  <2>2. new.port = 0 /\ new.owner = serving
    OBVIOUS
  <2> HIDE DEF new
  <2>3. /\ Len(data_services') = Len(data_services) + 1
        /\ data_services'[Len(data_services) + 1] = new
        /\ \A i \in 1..Len(data_services) : data_services'[i] = data_services[i]
    BY <1>0, <2>1, AppendProperties
  <2>4. \A i \in 1..Len(data_services) : data_services[i].port # 0
    BY <1>a, <1>b, <2>1
  <2>5. data_services' # <<>>
    BY <1>0, <2>3
  <2> QED
    BY <1>0, <2>1, <2>2, <2>3, <2>4, <2>5
<1>2. CASE PortGiven
  <2> DEFINE n == Len(data_services)
  <2>1. /\ at.rpc = "data_start" /\ at'.rpc = "idle"
        /\ data_services' = [data_services EXCEPT ![n].port = next_port]
    BY <1>2 DEF PortGiven, Answered, Went
  <2>2. n \in 1..Len(data_services)
    BY <1>0, <1>a, <1>b, <2>1, EmptySeq
  <2>3. data_services' = [data_services EXCEPT ![n] = [data_services[n] EXCEPT !.port = next_port]]
    BY <1>0, <2>1, <2>2
  <2>4. /\ [data_services[n] EXCEPT !.port = next_port] \in Services
        /\ [data_services[n] EXCEPT !.port = next_port].port = next_port
    BY <1>0, <2>2 DEF Services
  <2> HIDE DEF n
  <2>5. /\ Len(data_services') = Len(data_services)
        /\ \A j \in 1..Len(data_services) :
             data_services'[j] = IF j = n THEN [data_services[n] EXCEPT !.port = next_port] ELSE data_services[j]
    BY <1>0, <2>2, <2>3, <2>4, ExceptElements
  <2>6. \A j \in 1..Len(data_services) : j # n => data_services[j].port # 0
    BY <1>a, <1>b, <2>1 DEF n
  <2> QED
    BY <1>0, <2>1, <2>4, <2>5, <2>6
<1>3. CASE NoPort
  <2>1. at.rpc = "data_start" /\ at'.rpc = "rm_enter" /\ data_services' = Front(data_services)
    BY <1>3 DEF NoPort, Went
  <2>2. data_services # <<>> /\ \A i \in 1..Len(data_services) : i # Len(data_services) => data_services[i].port # 0
    BY <1>a, <1>b, <2>1
  <2>3. /\ Len(data_services') = Len(data_services) - 1
        /\ \A j \in 1..(Len(data_services) - 1) : data_services'[j] = data_services[j]
    BY <1>0, <2>1, <2>2, FrontElements
  <2> QED
    BY <1>0, <2>1, <2>2, <2>3
<1>4. CASE ~Pushed /\ ~PortGiven /\ ~NoPort
  <2>0. /\ UNCHANGED data_services \/ DataRemoved \/ DataChanged \/ \E t \in Threads : Looped(t)
        /\ at.main \notin Over
        /\ at'.rpc = "data_start" <=> at.rpc = "data_start"
        /\ at.rpc = "data_start" => serving' = serving
    BY <1>4, ListEffect
  <2>1. CASE UNCHANGED data_services
    BY <1>a, <2>0, <2>1
  <2>2. CASE DataRemoved
    <3>1. at.rpc # "data_start" /\ data_services' = OtherPort(data_services, data_port[serving])
      BY <2>2 DEF DataRemoved
    <3>2. \A i \in 1..Len(data_services) : data_services[i].port # 0
      BY <1>a, <2>0, <3>1
    <3>3. \A i \in 1..Len(data_services') : \E j \in 1..Len(data_services) : data_services'[i] = data_services[j]
      <4>0. \/ data_services' = data_services
            \/ \E k \in 1..Len(data_services) :
                 /\ Len(data_services') = Len(data_services) - 1
                 /\ \A j \in 1..(Len(data_services) - 1) :
                      data_services'[j] = IF j < k THEN data_services[j] ELSE data_services[j + 1]
        <5> DEFINE s == data_services
                   left == OtherPort(s, data_port[serving])
        <5>1. s \in Seq(Services)
          BY <1>0
        <5> HIDE DEF s
        <5>2. \/ left = s
              \/ \E k \in 1..Len(s) :
                   /\ Len(left) = Len(s) - 1
                   /\ \A j \in 1..(Len(s) - 1) : left[j] = IF j < k THEN s[j] ELSE s[j + 1]
          BY <5>1, OtherPortElements
        <5> QED
          BY <3>1, <5>2 DEF s
      <4>1. CASE data_services' = data_services
        BY <4>1
      <4>2. ASSUME NEW k \in 1..Len(data_services), Len(data_services') = Len(data_services) - 1,
                   \A j \in 1..(Len(data_services) - 1) :
                     data_services'[j] = IF j < k THEN data_services[j] ELSE data_services[j + 1],
                   NEW i \in 1..Len(data_services')
            PROVE  \E j \in 1..Len(data_services) : data_services'[i] = data_services[j]
        <5>1. i \in 1..Len(data_services) /\ i + 1 \in 1..Len(data_services) /\ i \in 1..(Len(data_services) - 1)
          BY <1>0, <4>2
        <5> QED
          BY <4>2, <5>1
      <4> QED
        BY <4>0, <4>1, <4>2
    <3> QED
      BY <2>0, <3>1, <3>2, <3>3
  <2>3. CASE DataChanged
    <3>1. /\ Len(data_services') = Len(data_services) /\ data_services # <<>>
          /\ data_services' \in Seq(Services)
          /\ \A i \in 1..Len(data_services) :
               /\ data_services'[i].port = data_services[i].port
               /\ data_services'[i].owner = data_services[i].owner
      BY <2>3 DEF DataChanged
    <3>2. Len(data_services) \in 1..Len(data_services) /\ data_services' # <<>>
      BY <1>0, <3>1, EmptySeq
    <3> QED
      BY <1>a, <2>0, <3>1, <3>2
  <2>4. ASSUME NEW k \in 1..Len(data_services), data_services[k].port # 0,
               data_services' = RemoveAt(data_services, k)
        PROVE  /\ \A i \in 1..Len(data_services') : data_services'[i].port = 0 =>
                    i = Len(data_services') /\ at'.rpc = "data_start"
               /\ at'.rpc = "data_start" =>
                    /\ data_services' # <<>>
                    /\ data_services'[Len(data_services')].port = 0
                    /\ data_services'[Len(data_services')].owner = serving'
    <3> DEFINE n == Len(data_services)
    <3>1. /\ Len(data_services') = n - 1 /\ n \in Nat \ {0}
          /\ \A j \in 1..(n - 1) :
               data_services'[j] = IF j < k THEN data_services[j] ELSE data_services[j + 1]
      <4>1. n \in Nat \ {0} /\ data_services \in Seq(Services)
        BY <1>0
      <4>2. k \in 1..Len(data_services) /\ data_services' = RemoveAt(data_services, k)
        BY <2>4
      <4> QED
        BY <4>1, <4>2, RemoveAtElements
    <3>2. ASSUME NEW i \in 1..Len(data_services'), data_services'[i].port = 0
          PROVE  i = Len(data_services') /\ at'.rpc = "data_start"
      <4>1. i \in 1..(n - 1) /\ i \in 1..n /\ i + 1 \in 1..n
        BY <3>1
      <4>2. CASE i < k
        <5>1. data_services[i].port = 0
          BY <3>1, <3>2, <4>1, <4>2
        <5>2. i = n
          BY <1>a, <2>0, <4>1, <5>1
        <5> QED
          BY <4>1, <5>2
      <4>3. CASE ~(i < k)
        <5>1. data_services[i + 1].port = 0
          BY <3>1, <3>2, <4>1, <4>3
        <5>2. i + 1 = n /\ at.rpc = "data_start"
          BY <1>a, <2>0, <4>1, <5>1
        <5> QED
          BY <2>0, <3>1, <5>2
      <4> QED
        BY <4>2, <4>3
    <3>3. ASSUME at'.rpc = "data_start"
          PROVE  /\ data_services' # <<>>
                 /\ data_services'[Len(data_services')].port = 0
                 /\ data_services'[Len(data_services')].owner = serving'
      <4>1. data_services[n].port = 0 /\ data_services[n].owner = serving /\ serving' = serving
        BY <1>a, <2>0, <3>3
      <4>2. k # n
        BY <2>4, <4>1
      <4>3. n - 1 \in 1..(n - 1) /\ ~(n - 1 < k) /\ n - 1 + 1 = n
        BY <2>4, <3>1, <4>2
      <4>4. data_services'[n - 1] = data_services[n]
        BY <3>1, <4>3
      <4>5. data_services' # <<>>
        BY <3>1, <4>3
      <4> QED
        BY <3>1, <4>1, <4>4, <4>5
    <3> QED
      BY <3>2, <3>3
  <2> QED
    BY <2>0, <2>1, <2>2, <2>3, <2>4 DEF Looped
<1> QED
  BY <1>1, <1>2, <1>3, <1>4

(* The services that have a port afterwards are some of those before.      *)
Mapped(f) ==
  /\ \A i \in 1..Len(data_services') : data_services'[i].port # 0 =>
       /\ f[i] \in 1..Len(data_services)
       /\ data_services'[i].port = data_services[f[i]].port
       /\ data_services'[i].owner = data_services[f[i]].owner
  /\ \A i, j \in 1..Len(data_services') : f[i] = f[j] => i = j

(* One of them has been taken out.                                         *)
LEMMA OneLess ==
  ASSUME NEW n \in Nat, Len(data_services) = n, NEW k \in 1..n, Len(data_services') = n - 1,
         \A j \in 1..(n - 1) : data_services'[j] = IF j < k THEN data_services[j] ELSE data_services[j + 1]
  PROVE  \E f : Mapped(f)
<1> DEFINE f == [j \in 1..(n - 1) |-> IF j < k THEN j ELSE j + 1]
<1>1. \A j \in 1..(n - 1) : f[j] = IF j < k THEN j ELSE j + 1
  OBVIOUS
<1> HIDE DEF f
<1>2. \A j \in 1..(n - 1) : f[j] \in 1..n /\ data_services'[j] = data_services[f[j]]
  BY <1>1
<1>3. \A i, j \in 1..(n - 1) : f[i] = f[j] => i = j
  BY <1>1
<1>4. Mapped(f)
  BY <1>2, <1>3 DEF Mapped
<1> QED
  BY <1>4

(* Unless one is given its port, no other one gets one.                    *)
LEMMA ListShrinks ==
  ASSUME TypeInv, ThreadOrder, Starting, [Next]_vars, ~PortGiven
  PROVE  \E f : Mapped(f)
<1>0. data_services \in Seq(Services) /\ Len(data_services) \in Nat
  BY ServiceElements DEF TypeInv
<1> DEFINE n == Len(data_services)
           id == [i \in 1..(n + 1) |-> i]
<1>a. \A i \in 1..(n + 1) : id[i] = i
  OBVIOUS
<1>b. 1..n \subseteq 1..(n + 1)
  BY <1>0
<1> HIDE DEF id
<1>1. CASE Pushed
  <2> DEFINE new == [port |-> 0, owner |-> serving, error |-> FALSE, blocked |-> FALSE]
  <2>1. data_services' = Append(data_services, new) /\ new \in Services /\ new.port = 0
    BY <1>1 DEF Pushed, Services
  <2> HIDE DEF new
  <2>2. /\ Len(data_services') = n + 1
        /\ data_services'[n + 1] = new
        /\ \A i \in 1..n : data_services'[i] = data_services[i]
    BY <1>0, <2>1, AppendProperties
  <2>3. Mapped(id)
    BY <1>0, <1>a, <2>1, <2>2 DEF Mapped
  <2> QED
    BY <2>3
<1>2. CASE NoPort
  <2>1. data_services # <<>>
    BY <1>2 DEF NoPort, Starting, ThreadOrder
  <2>2. /\ Len(data_services') = n - 1
        /\ \A j \in 1..(n - 1) : data_services'[j] = data_services[j]
    BY <1>0, <1>2, <2>1, FrontElements DEF NoPort
  <2>3. Mapped(id)
    BY <1>0, <1>a, <2>2 DEF Mapped
  <2> QED
    BY <2>3
<1>3. CASE ~Pushed /\ ~NoPort
  <2>0. UNCHANGED data_services \/ DataRemoved \/ DataChanged \/ \E t \in Threads : Looped(t)
    BY <1>3, ListEffect
  <2>1. CASE UNCHANGED data_services
    <3>1. Mapped(id)
      BY <1>0, <1>a, <1>b, <2>1 DEF Mapped
    <3> QED
      BY <3>1
  <2>2. CASE DataChanged
    <3>1. /\ Len(data_services') = n
          /\ \A i \in 1..n :
               /\ data_services'[i].port = data_services[i].port
               /\ data_services'[i].owner = data_services[i].owner
      BY <2>2 DEF DataChanged
    <3>2. Mapped(id)
      BY <1>0, <1>a, <1>b, <3>1 DEF Mapped
    <3> QED
      BY <3>2
  <2>3. CASE DataRemoved
    <3> DEFINE s == data_services
               left == OtherPort(s, data_port[serving])
    <3>1. s \in Seq(Services) /\ data_services' = left
      BY <1>0, <2>3 DEF DataRemoved
    <3>2. CASE left = s
      <4>1. UNCHANGED data_services
        BY <3>1, <3>2
      <4> QED
        BY <2>1, <4>1
    <3>3. ASSUME NEW k \in 1..Len(s), Len(left) = Len(s) - 1,
                 \A j \in 1..(Len(s) - 1) : left[j] = IF j < k THEN s[j] ELSE s[j + 1]
          PROVE  \E f : Mapped(f)
      BY <1>0, <3>1, <3>3, OneLess
    <3> HIDE DEF s
    <3>4. \/ left = s
          \/ \E k \in 1..Len(s) :
               /\ Len(left) = Len(s) - 1
               /\ \A j \in 1..(Len(s) - 1) : left[j] = IF j < k THEN s[j] ELSE s[j + 1]
      BY <3>1, OtherPortElements
    <3> QED
      BY <3>2, <3>3, <3>4
  <2>4. ASSUME NEW t \in Threads, Looped(t)
        PROVE  \E f : Mapped(f)
    <3>1. CASE UNCHANGED data_services
      BY <2>1, <3>1
    <3>2. ASSUME NEW k \in 1..n, data_services' = RemoveAt(data_services, k)
          PROVE  \E f : Mapped(f)
      <4>1. /\ Len(data_services') = n - 1
            /\ \A j \in 1..(n - 1) :
                 data_services'[j] = IF j < k THEN data_services[j] ELSE data_services[j + 1]
        BY <1>0, <3>2, RemoveAtElements
      <4> QED
        BY <1>0, <4>1, OneLess
    <3> QED
      BY <2>4, <3>1, <3>2 DEF Looped
  <2> QED
    BY <2>0, <2>1, <2>2, <2>3, <2>4
<1> QED
  BY <1>1, <1>2, <1>3

(* Every service that has a port stays with its owner.                     *)
LEMMA OwnedServicesStep ==
  ASSUME TypeInv, ServedWaits, ThreadOrder, PortNumbers, Starting, OwnedServices, [Next]_vars
  PROVE  OwnedServices'
<1>0. /\ data_services \in Seq(Services) /\ Len(data_services) \in Nat
      /\ \A i \in 1..Len(data_services) : data_services[i] \in Services
      /\ pc \in [Proxies -> Places] /\ data_port \in [Proxies -> Nat] /\ next_port \in Nat
  BY ServiceElements DEF TypeInv, TypeOK
<1>a. \A c \in Proxies : pc'[c] \in {"attach", "attach_data"} => pc[c] \in {"attach", "attach_data"}
  BY PortsStay
<1>1. CASE PortGiven
  <2> DEFINE n == Len(data_services)
             new == [data_services[n] EXCEPT !.port = next_port]
  <2>1. /\ at.rpc = "data_start" /\ serving \in Proxies
        /\ data_services' = [data_services EXCEPT ![n].port = next_port]
        /\ next_port' = next_port + 1
        /\ data_port' = [data_port EXCEPT ![serving] = next_port]
        /\ pc' = [pc EXCEPT ![serving] = "connect"]
    BY <1>1 DEF PortGiven, Answered
  <2>2. /\ data_services # <<>> /\ data_services[n].owner = serving
        /\ \A i \in 1..n : i # n => data_services[i].port # 0
    BY <2>1 DEF Starting, ThreadOrder
  <2>3. n \in 1..Len(data_services) /\ data_services' = [data_services EXCEPT ![n] = new]
    BY <1>0, <2>1, <2>2, EmptySeq
  <2>4. new \in Services /\ new.port = next_port /\ new.owner = serving
    BY <1>0, <2>2, <2>3 DEF Services
  <2>5. pc[serving] = "attach_data"
    BY <2>1, ProxyAssumption DEF ServedWaits
  <2> HIDE DEF new
  <2>6. /\ Len(data_services') = n
        /\ \A j \in 1..n : data_services'[j] = IF j = n THEN new ELSE data_services[j]
    BY <1>0, <2>3, <2>4, ExceptElements
  <2>7. ASSUME NEW i \in 1..n, i # n
        PROVE  LET d == data_services[i] IN
               /\ d.port # 0 /\ d.port < next_port /\ d.owner \in Proxies /\ d.owner # serving
               /\ d.port = data_port[d.owner] /\ pc[d.owner] \notin {"attach", "attach_data"}
               /\ \A c \in Proxies : pc[c] \in {"connect", "undo_data"} /\ data_port[c] = d.port => c = d.owner
    <3>1. data_services[i].port # 0 /\ data_services[i].owner \in Proxies
      BY <1>0, <2>2, <2>7 DEF Services
    <3> QED
      BY <2>5, <3>1 DEF OwnedServices
  <2>8. ASSUME NEW i \in 1..n
        PROVE  LET d == data_services'[i] IN
               /\ d.port = data_port'[d.owner] /\ d.port < next_port'
               /\ pc'[d.owner] \notin {"attach", "attach_data"}
               /\ \A c \in Proxies : pc'[c] \in {"connect", "undo_data"} /\ data_port'[c] = d.port => c = d.owner
    <3>1. CASE i = n
      <4>1. data_services'[i] = new
        BY <2>6, <3>1
      <4>2. ASSUME NEW c \in Proxies, pc'[c] \in {"connect", "undo_data"}, data_port'[c] = next_port
            PROVE  c = serving
        BY <1>0, <2>1, <4>2 DEF PortNumbers
      <4>3. new.port = data_port'[new.owner] /\ pc'[new.owner] = "connect"
        BY <1>0, <2>1, <2>4
      <4>4. new.port < next_port'
        BY <1>0, <2>1, <2>4
      <4>5. \A c \in Proxies : pc'[c] \in {"connect", "undo_data"} /\ data_port'[c] = new.port => c = new.owner
        BY <2>4, <4>2
      <4> QED
        BY <4>1, <4>3, <4>4, <4>5
    <3>2. CASE i # n
      <4> DEFINE d == data_services[i]
      <4>1. data_services'[i] = d /\ d.port \in Nat
        BY <1>0, <2>6, <3>2 DEF Services
      <4>2. /\ d.port < next_port /\ d.owner \in Proxies /\ d.owner # serving
            /\ d.port = data_port[d.owner] /\ pc[d.owner] \notin {"attach", "attach_data"}
            /\ \A c \in Proxies : pc[c] \in {"connect", "undo_data"} /\ data_port[c] = d.port => c = d.owner
        BY <2>7, <3>2
      <4> HIDE DEF d
      <4>3. ASSUME NEW c \in Proxies, pc'[c] \in {"connect", "undo_data"}, data_port'[c] = d.port
            PROVE  c = d.owner
        <5>1. c # serving
          BY <1>0, <2>1, <4>1, <4>2, <4>3
        <5> QED
          BY <1>0, <2>1, <4>2, <4>3, <5>1
      <4>4. d.port = data_port'[d.owner] /\ pc'[d.owner] \notin {"attach", "attach_data"}
        BY <1>0, <2>1, <4>2
      <4>5. d.port < next_port'
        BY <1>0, <2>1, <4>1, <4>2
      <4> QED
        BY <4>1, <4>3, <4>4, <4>5
    <3> QED
      BY <3>1, <3>2
  <2>9. ASSUME NEW i \in 1..n, NEW j \in 1..n, data_services'[i].port = data_services'[j].port, i # j
        PROVE  FALSE
    <3>1. CASE i = n \/ j = n
      BY <1>0, <2>4, <2>6, <2>7, <2>9, <3>1
    <3>2. CASE i # n /\ j # n
      BY <2>6, <2>7, <2>9, <3>2 DEF OwnedServices
    <3> QED
      BY <3>1, <3>2
  <2> QED
    BY <2>6, <2>8, <2>9 DEF OwnedServices
<1>2. CASE ~PortGiven
  <2>1. /\ UNCHANGED <<next_port, data_port>>
        /\ \A c \in Proxies : pc'[c] \in {"connect", "undo_data"} => pc[c] \in {"connect", "undo_data"}
    BY <1>2, PortsStay
  <2>2. PICK f : Mapped(f)
    BY <1>2, ListShrinks
  <2>3. ASSUME NEW i \in 1..Len(data_services'), data_services'[i].port # 0
        PROVE  LET d == data_services'[i] IN
               /\ d.port = data_port'[d.owner] /\ d.port < next_port'
               /\ pc'[d.owner] \notin {"attach", "attach_data"}
               /\ \A c \in Proxies : pc'[c] \in {"connect", "undo_data"} /\ data_port'[c] = d.port => c = d.owner
    <3> DEFINE d == data_services[f[i]]
    <3>1. /\ f[i] \in 1..Len(data_services)
          /\ data_services'[i].port = d.port /\ data_services'[i].owner = d.owner
      BY <2>2, <2>3 DEF Mapped
    <3>2. d.owner \in Proxies /\ d.port # 0
      BY <1>0, <2>3, <3>1 DEF Services
    <3>3. /\ d.port = data_port[d.owner] /\ d.port < next_port
          /\ pc[d.owner] \notin {"attach", "attach_data"}
          /\ \A c \in Proxies : pc[c] \in {"connect", "undo_data"} /\ data_port[c] = d.port => c = d.owner
      BY <3>1, <3>2 DEF OwnedServices
    <3> HIDE DEF d
    <3> QED
      BY <1>a, <2>1, <3>1, <3>2, <3>3
  <2>4. ASSUME NEW i \in 1..Len(data_services'), NEW j \in 1..Len(data_services'),
               data_services'[i].port # 0, data_services'[i].port = data_services'[j].port
        PROVE  i = j
    <3>1. /\ f[i] \in 1..Len(data_services) /\ f[j] \in 1..Len(data_services)
          /\ data_services[f[i]].port # 0 /\ data_services[f[i]].port = data_services[f[j]].port
      BY <2>2, <2>4 DEF Mapped
    <3>2. f[i] = f[j]
      BY <3>1 DEF OwnedServices
    <3> QED
      BY <2>2, <3>2 DEF Mapped
  <2> QED
    BY <2>3, <2>4 DEF OwnedServices
<1> QED
  BY <1>1, <1>2

(* A service that goes while its owner runs and the service is not ending  *)
(* has been given back by one that had none, or by the removal.            *)
LEMMA KeptStep ==
  ASSUME ServiceInv, PortNumbers, Starting, OwnedServices, [Next]_vars, ~svc_thread_end,
         NEW c \in Clients, pc[c] = "run", HasService(c), ~HasService(c)'
  PROVE  \/ at.rpc = "rm_data" /\ data_port[serving] = FirstPort /\ ~HasService(serving)
         \/ Cardinality(holders) <= stray + 1
<1>0. /\ TypeInv /\ ServedWaits /\ ThreadOrder /\ HoldersKnown /\ CountLower
      /\ TypeOK /\ data_services \in Seq(Services) /\ Len(data_services) \in Nat
      /\ \A i \in 1..Len(data_services) : data_services[i] \in Services
      /\ stray \in Nat /\ Cardinality(holders) \in Nat /\ FirstPort \in Nat \ {0}
  BY ServiceElements, Numbers, ProxyAssumption DEF ServiceInv, TypeInv
<1>1. PICK i \in 1..Len(data_services) : data_services[i].owner = c
  BY DEF HasService
<1>2. \A j \in 1..Len(data_services') : data_services'[j].owner # c
  BY DEF HasService
<1>3. c \in Proxies
  OBVIOUS
(* The services that stay are not those of c.                              *)
<1>a. ~UNCHANGED data_services
  BY <1>1, <1>2
<1>4. CASE Pushed
  <2> DEFINE new == [port |-> 0, owner |-> serving, error |-> FALSE, blocked |-> FALSE]
  <2>1. data_services' = Append(data_services, new) /\ new \in Services
    BY <1>4 DEF Pushed, Services
  <2> HIDE DEF new
  <2>2. /\ Len(data_services') = Len(data_services) + 1
        /\ \A j \in 1..Len(data_services) : data_services'[j] = data_services[j]
    BY <1>0, <2>1, AppendProperties
  <2> QED
    BY <1>0, <1>1, <1>2, <2>2
<1>5. CASE PortGiven \/ NoPort
  <2>1. at.rpc = "data_start" /\ at.main \notin Over /\ serving \in Proxies
    BY <1>0, <1>5 DEF PortGiven, NoPort, ThreadOrder, Answered
  <2>2. /\ data_services # <<>> /\ data_services[Len(data_services)].owner = serving
        /\ pc[serving] = "attach_data"
    BY <1>0, <2>1, ProxyAssumption DEF Starting, ServedWaits
  <2>3. i # Len(data_services)
    BY <1>1, <2>2
  <2>4. CASE NoPort
    <3>1. /\ Len(data_services') = Len(data_services) - 1
          /\ \A j \in 1..(Len(data_services) - 1) : data_services'[j] = data_services[j]
      BY <1>0, <2>2, <2>4, FrontElements DEF NoPort
    <3> QED
      BY <1>0, <1>1, <1>2, <2>3, <3>1
  <2>5. CASE PortGiven
    <3>1. data_services' = [data_services EXCEPT ![Len(data_services)].port = next_port]
      BY <2>5 DEF PortGiven
    <3>2. Len(data_services) \in 1..Len(data_services) /\ DOMAIN data_services = 1..Len(data_services)
      BY <1>0, <2>2, EmptySeq
    <3>3. DOMAIN data_services' = DOMAIN data_services /\ data_services'[i] = data_services[i]
      BY <1>1, <2>3, <3>1, <3>2
    <3>4. Len(data_services') = Len(data_services)
      <4> DEFINE n == Len(data_services)
                 new == [data_services[n] EXCEPT !.port = next_port]
      <4>1. new \in Services /\ data_services' = [data_services EXCEPT ![n] = new]
        BY <1>0, <3>1, <3>2 DEF Services, TypeOK
      <4> HIDE DEF new
      <4> QED
        BY <1>0, <3>2, <4>1, ExceptElements
    <3> QED
      BY <1>1, <1>2, <3>3, <3>4
  <2> QED
    BY <1>5, <2>4, <2>5
<1>6. CASE DataChanged
  BY <1>1, <1>2, <1>6 DEF DataChanged
<1>7. ASSUME NEW t \in Threads, Looped(t)
      PROVE  Cardinality(holders) <= stray + 1
  <2>1. t = "rpc" /\ at.rpc = "rm_services"
    BY <1>0, <1>7 DEF Looped, ThreadOrder
  <2>2. Cardinality(holders) <= IF Leaves THEN stray + 1 ELSE stray
    BY <1>0, <2>1 DEF CountLower
  <2> QED
    BY <1>0, <2>2
<1>8. CASE DataRemoved
  <2> DEFINE port == data_port[serving]
  <2>1. /\ at.rpc \in {"rm_data", "undo_data"} /\ serving \in Proxies
        /\ data_services' = OtherPort(data_services, port)
    BY <1>8 DEF DataRemoved, Answered
  <2>2. pc[serving] = at.rpc /\ at.main \notin Over
    BY <1>0, <2>1, ProxyAssumption DEF ServedWaits, ThreadOrder
  <2>3. \A j \in 1..Len(data_services) : data_services[j].port # 0
    BY <2>1, <2>2 DEF Starting
  (* The service of c is the one that has gone.                            *)
  <2>4. data_services[i].port = port
    <3> DEFINE s == data_services
    <3>1. s \in Seq(Services) /\ i \in 1..Len(s)
      BY <1>0, <1>1
    <3> HIDE DEF s
    <3>2. \/ OtherPort(s, port) = s
          \/ \E k \in 1..Len(s) :
               /\ s[k].port = port
               /\ Len(OtherPort(s, port)) = Len(s) - 1
               /\ \A j \in 1..(Len(s) - 1) :
                    OtherPort(s, port)[j] = IF j < k THEN s[j] ELSE s[j + 1]
      BY <3>1, OtherPortElements
    <3>3. ASSUME NEW k \in 1..Len(s), s[k].port = port,
                 Len(OtherPort(s, port)) = Len(s) - 1,
                 \A j \in 1..(Len(s) - 1) :
                   OtherPort(s, port)[j] = IF j < k THEN s[j] ELSE s[j + 1],
                 i # k
          PROVE  FALSE
      <4>1. Len(s) \in Nat /\ Len(data_services') = Len(s) - 1
        BY <1>0, <2>1, <3>3 DEF s
      <4>2. CASE i < k
        <5>1. i \in 1..(Len(s) - 1) /\ data_services'[i] = s[i]
          BY <2>1, <3>1, <3>3, <4>1, <4>2 DEF s
        <5> QED
          BY <1>1, <1>2, <4>1, <5>1 DEF s
      <4>3. CASE i > k
        <5>1. i - 1 \in 1..(Len(s) - 1) /\ ~(i - 1 < k) /\ i - 1 + 1 = i
          BY <3>1, <4>1, <4>3
        <5>2. data_services'[i - 1] = s[i]
          BY <2>1, <3>3, <5>1 DEF s
        <5> QED
          BY <1>1, <1>2, <4>1, <5>1, <5>2 DEF s
      <4> QED
        BY <3>1, <3>3, <4>2, <4>3
    <3>4. OtherPort(s, port) # s
      BY <1>a, <2>1 DEF s
    <3>5. s[i].port = port
      BY <3>2, <3>3, <3>4
    <3> QED
      BY <3>5 DEF s
  <2>5. data_port[c] = port /\ port # 0
    BY <1>1, <2>3, <2>4 DEF OwnedServices
  <2>6. CASE serving = c
    BY <2>1, <2>2, <2>6
  <2>7. CASE serving # c
    <3>1. port = FirstPort
      BY <1>3, <2>1, <2>5, <2>7 DEF PortNumbers
    <3>2. at.rpc # "undo_data"
      <4> SUFFICES ASSUME at.rpc = "undo_data" PROVE FALSE
        OBVIOUS
      <4>1. serving = data_services[i].owner
        BY <1>1, <2>1, <2>2, <2>3, <2>4 DEF OwnedServices
      <4> QED
        BY <1>1, <2>7, <4>1
    <3>3. ~HasService(serving)
      <4> SUFFICES ASSUME NEW j \in 1..Len(data_services), data_services[j].owner = serving
                   PROVE  FALSE
        BY DEF HasService
      <4>1. data_services[j].port = port
        BY <2>3 DEF OwnedServices
      <4>2. i = j
        BY <2>3, <2>4, <4>1 DEF OwnedServices
      <4> QED
        BY <1>1, <2>7, <4>2
    <3> QED
      BY <2>1, <3>1, <3>2, <3>3
  <2> QED
    BY <2>6, <2>7
<1> QED
  BY <1>0, <1>a, <1>4, <1>5, <1>6, <1>7, <1>8, ListEffect

(* ServiceKept: as long as the service is not ending, a client that runs   *)
(* loses its data service only to a proxy that has none and gives back the *)
(* default port, or to the removal for the last one that the count knows.  *)
THEOREM KeepsServices == Spec => ServiceKept
<1>1. Init => PortNumbers /\ Starting /\ OwnedServices
  BY ProxyAssumption DEF Init, PortNumbers, Starting, OwnedServices
<1>2. ServiceInv /\ PortNumbers /\ Starting /\ OwnedServices /\ [Next]_vars =>
        (PortNumbers /\ Starting /\ OwnedServices)'
  BY PortNumbersStep, StartingStep, OwnedServicesStep DEF ServiceInv
<1>3. Spec => [](PortNumbers /\ Starting /\ OwnedServices)
  BY <1>1, <1>2, ServiceInvariant, PTL DEF Spec
<1> DEFINE Kept == \A c \in Clients : pc[c] = "run" /\ HasService(c) /\ ~HasService(c)' =>
                     \/ svc_thread_end
                     \/ at.rpc = "rm_data" /\ data_port[serving] = FirstPort /\ ~HasService(serving)
                     \/ Cardinality(holders) <= stray + 1
<1>4. ServiceInv /\ PortNumbers /\ Starting /\ OwnedServices /\ [Next]_vars => Kept
  BY KeptStep
<1>5. ServiceInv /\ PortNumbers /\ Starting /\ OwnedServices /\ [Next]_vars => [Kept]_vars
  BY <1>4
<1> QED
  BY <1>3, <1>5, ServiceInvariant, PTL DEF Spec, ServiceKept

-----------------------------------------------------------------------------
(* The refinement.                                                         *)

(* A crash does not come between the creation of a system and its start,   *)
(* unless the system has been deleted in the meantime.                     *)
LEMMA CrashLate ==
  ASSUME ServiceInv, Undefined \/ \E t \in Threads : UseDeleted(t), at.rpc = "at_start"
  PROVE  ~rt_system
<1>1. CASE \E t \in Threads : UseDeleted(t)
  BY <1>1 DEF UseDeleted
<1>2. CASE Undefined
  <2>1. CASE orphan
    BY <2>1 DEF ServiceInv, EmptyBefore
  <2>2. CASE Cardinality(InList) > 1
    <3>1. InList \subseteq {"dog"}
      <4>1. at["main"] # "rm_services"
        BY DEF ServiceInv, ThreadOrder
      <4>2. \A t \in Threads : t = "dog" \/ t = "main" \/ t = "rpc"
        OBVIOUS
      <4>3. at["main"] \in MainPlaces
        BY DEF ServiceInv, TypeInv, TypeOK
      <4>4. "main" \notin InList /\ "rpc" \notin InList
        BY <4>1, <4>3 DEF InList
      <4> QED
        BY <4>2, <4>4 DEF InList
    <3>2. IsFiniteSet({"dog"}) /\ Cardinality({"dog"}) = 1
      BY FS_Singleton
    <3>3. Cardinality(InList) <= 1 /\ Cardinality(InList) \in Nat
      BY <3>1, <3>2, FS_Subset, FS_CardinalityType
    <3> QED
      BY <2>2, <3>3
  <2> QED
    BY <1>2, <2>1, <2>2 DEF Undefined
<1> QED
  BY <1>1, <1>2

(* Each step is one of ServiceLife's, or a stutter.                        *)
LEMMA LifeStep ==
  ASSUME ServiceInv, [Next]_vars
  PROVE  [Life!Next]_(Life!vars)
<1> USE DEF Life!vars, Life!Next, Life!Create, Life!Run, Life!Fail, Life!Rest, Life!Delete,
            Life!GiveUp, Life!End
<1>0. /\ TypeOK /\ LoopOrder /\ ThreadOrder /\ EmptyBefore
      /\ {svc_thread_end, rt_system, rt_active} \subseteq BOOLEAN
  BY DEF ServiceInv, TypeInv, TypeOK
<1>1. CASE CallStep
  <2>1. CASE Create
    BY <2>1 DEF Create, Went
  <2>2. CASE Started
    BY <2>2 DEF Started, Granted, Answered, Went
  <2>3. CASE NotStarted
    BY <2>3 DEF NotStarted, Answered, Went
  <2>4. CASE Refuse \/ Join \/ NoData \/ PortGiven \/ Logged \/ DataRemoved
    <3>1. UNCHANGED <<svc_thread_end, rt_system, rt_active>> /\ at.rpc # "at_start" /\ at'.rpc = "idle"
      BY <2>4 DEF Refuse, Join, NoData, PortGiven, Logged, DataRemoved, Granted, Answered, Went
    <3> QED
      BY <3>1
  <2>5. CASE Pushed \/ NoPort \/ NotLogged \/ \E c \in Clients : LogTaken(c)
    <3>1. UNCHANGED <<svc_thread_end, rt_system, rt_active>> /\ at.rpc # "at_start" /\ at'.rpc # "at_start"
      BY <2>5 DEF Pushed, NoPort, NotLogged, LogTaken, Went
    <3> QED
      BY <3>1
  <2>6. ASSUME NEW c \in Proxies, Taken(c)
        PROVE  [Life!Next]_(Life!vars)
    <3>1. UNCHANGED <<svc_thread_end, rt_system, rt_active>> /\ at.rpc # "at_start" /\ at'.rpc # "at_start"
      BY <2>6 DEF Taken, Went
    <3> QED
      BY <3>1
  <2> QED
    BY <1>1, <2>1, <2>2, <2>3, <2>4, <2>5, <2>6 DEF CallStep
<1>2. ASSUME NEW t \in Threads, RemovalStep(t)
      PROVE  [Life!Next]_(Life!vars)
  <2>1. /\ at[t] \in {"rm_enter"} \cup Removing
        /\ \E place \in {Home(t)} \cup Removing : Went(t, place)
        /\ UNCHANGED svc_thread_end
    BY <1>0, <1>2, RemovalPlaces
  <2>2. at'.rpc = "at_start" <=> at.rpc = "at_start"
    BY <2>1 DEF Went, Home
  <2>3. CASE ShutDown(t)
    <3>1. UNCHANGED rt_system /\ (rt_active' = FALSE \/ rt_active' = rt_active)
      BY <2>3 DEF ShutDown
    <3>2. at.rpc = "at_start" => ~rt_active
      BY <1>0 DEF EmptyBefore
    <3> QED
      BY <2>1, <2>2, <3>1, <3>2
  <2>4. CASE Deleted(t)
    <3>1. rt_system' = FALSE /\ at[t] = "rm_delete"
      BY <2>4 DEF Deleted
    <3>2. rt_active => svc_thread_end
      BY <1>0, <3>1 DEF EmptyBefore, ThreadOrder
    <3> QED
      BY <2>1, <2>2, <3>1, <3>2
  <2>5. CASE CountDown(t) \/ GoIn(t) \/ Looped(t) \/ LoopEnd(t) \/ GoOn(t) \/ TurnBack(t)
    <3>1. UNCHANGED <<rt_system, rt_active>>
      BY <2>5 DEF CountDown, GoIn, Looped, LoopEnd, GoOn, TurnBack
    <3> QED
      BY <2>1, <2>2, <3>1
  <2> QED
    BY <1>2, <2>3, <2>4, <2>5 DEF RemovalStep
<1>3. CASE DogStep \/ MainStep
  <2>1. UNCHANGED <<rt_system, rt_active>>
    BY <1>3 DEF DogStep, MainStep
  <2>2. at'.rpc = "at_start" <=> at.rpc = "at_start"
    <3>1. CASE DogStep
      BY <3>1 DEF DogStep, Went
    <3>2. CASE MainStep /\ at.main = "startup"
      BY <1>0, <3>2 DEF MainStep, Exited, Went, ThreadOrder
    <3>3. CASE MainStep /\ at.main # "startup"
      BY <1>0, <3>3 DEF MainStep, Exited, Went
    <3> QED
      BY <1>3, <3>1, <3>2, <3>3
  <2>3. svc_thread_end' = svc_thread_end \/ (svc_thread_end' = TRUE /\ svc_thread_end = FALSE)
    <3>1. \/ svc_thread_end' = svc_thread_end
          \/ svc_thread_end' = TRUE
          \/ svc_thread_end' = FALSE /\ at.dog = "boot"
      BY <1>3 DEF DogStep, MainStep
    <3>2. at.dog = "boot" => ~svc_thread_end
      BY <1>0 DEF ThreadOrder
    <3>3. svc_thread_end = TRUE \/ svc_thread_end = FALSE
      BY <1>0
    <3>4. CASE svc_thread_end' = TRUE
      BY <3>3, <3>4
    <3>5. CASE svc_thread_end' = FALSE /\ at.dog = "boot"
      <4>1. svc_thread_end = FALSE
        BY <3>2, <3>3, <3>5
      <4> QED
        BY <3>5, <4>1
    <3> QED
      BY <3>1, <3>4, <3>5
  <2> QED
    BY <2>1, <2>2, <2>3
<1>4. CASE Crashed /\ (Undefined \/ \E t \in Threads : UseDeleted(t))
  <2>1. at'.rpc = "closed" /\ UNCHANGED <<svc_thread_end, rt_system, rt_active>>
    BY <1>4 DEF Crashed
  <2>2. at.rpc = "at_start" => ~rt_system
    BY <1>4, CrashLate
  <2> QED
    BY <2>1, <2>2
<1>5. CASE \E c \in Proxies, place \in Places : Moves(c, place)
  BY <1>5 DEF Moves
<1>6. CASE Aside
  <2>1. CASE DataChanged
    BY <2>1 DEF DataChanged
  <2>2. CASE RtThreadDies
    <3>1. rt_active /\ ~rt_active' /\ UNCHANGED <<svc_thread_end, rt_system, at>>
      BY <2>2 DEF RtThreadDies
    <3>2. rt_system /\ at.rpc # "at_start"
      BY <1>0, <3>1 DEF EmptyBefore
    <3> QED
      BY <3>1, <3>2
  <2>3. CASE Signal \/ UNCHANGED vars
    BY <2>3 DEF Signal, vars
  <2> QED
    BY <1>6, <2>1, <2>2, <2>3 DEF Aside
<1> QED
  BY <1>0, <1>1, <1>2, <1>3, <1>4, <1>5, <1>6, Effects

(* OwnsOneSystem: the service implements ServiceLife.                      *)
THEOREM LivesAsPromised == Spec => OwnsOneSystem
<1>1. Init => Life!Init
  BY DEF Init, Life!Init
<1>2. ServiceInv /\ [Next]_vars => [Life!Next]_(Life!vars)
  BY LifeStep
<1> QED
  BY <1>1, <1>2, ServiceInvariant, PTL DEF Spec, OwnsOneSystem, Life!Spec

=============================================================================
