------------------------- MODULE ProxyClient_proofs -------------------------
(***************************************************************************)
(* Theorems about the data link and the reading of logs, for any           *)
(* components, logs, page sizes and numbers of steps and sessions.         *)
(***************************************************************************)
EXTENDS ProxyClient, SequenceTheorems, WellFoundedInduction, TLAPS

(***************************************************************************)
(* The inductive invariants of the data link.                              *)
(***************************************************************************)
\* What the client waits for is serialized by the service.
Subscriptions ==
  /\ due \subseteq subscribed \cap status_names
  /\ subscribed \ early \subseteq status_names

\* Before start() there is neither a command nor an answer.
BeforeStart ==
  cpc = "new" => /\ k = 0 /\ got = 0 /\ due = {} /\ sent = {}
                 /\ up = <<>> /\ down = <<>> /\ spc = "none"

\* Between two steps nothing is on its way, unless a step has raised.
Quiet == cpc = "loop" /\ ~raised => up = <<>> /\ down = <<>> /\ spc \in {"read", "dead"}

\* A command is on its way to the service.
Requested ==
  /\ cpc = "length" /\ spc \in {"read", "dead"}
  /\ up = <<[n |-> k, of |-> sent]>> /\ down = <<>>

\* The service has read the command.
Read ==
  /\ cpc = "length" /\ spc = "parse"
  /\ up = <<>> /\ down = <<>> /\ cur = [n |-> k, of |-> sent]

\* Of the first w pieces of the answer the last are in the socket, in their order,
\* and the client has received those before.
Answering(w) ==
  /\ cpc \in {"length", "body"} /\ spc \in {"read", "write", "dead"} /\ up = <<>>
  /\ Len(down) <= w /\ (cpc = "length" <=> Len(down) = w)
  /\ \A i \in 1..Len(down) : /\ down[i].n = k /\ due \subseteq down[i].names
                             /\ down[i].part = w - Len(down) + i - 1
  /\ spc = "write" => part = w /\ cur.n = k /\ due \subseteq cur.of
  /\ w > 0 \/ spc = "write" => \A c \in sent : cmd[c] = k

\* While a step waits there is one command, or its answer.
OneInFlight ==
  cpc \in {"length", "body", "lost"} /\ ~raised =>
    Requested \/ Read \/ \E w \in 0..3 : Answering(w)

LinkInv == LinkTypeOK /\ Subscriptions /\ BeforeStart /\ Quiet /\ OneInFlight /\ LockStep

(***************************************************************************)
(* The inductive invariants of the reading of logs.                        *)
(***************************************************************************)
\* The pages of a log follow one another, so that there are not more of them than
\* indices.
Ascending(s) == \A j \in 1..Len(s) : s[j].start_idx <= s[j].end_idx /\ j <= s[j].end_idx + 1
PagesAscend ==
  /\ \A l \in Logs : Ascending(dir[l])
  /\ Ascending(log_info)
  /\ logging_to \in [log : Logs, idx : PageSizes] \cup {Nothing}

\* What the client knows of the page it has loaded is true of the log whose files
\* it knows, as long as it knows of any; and that is the log it has the name of,
\* unless the server has not answered since it took the name.
PageKnown ==
  /\ PathIsList => log_info = <<>>
  /\ log_info # <<>> =>
       /\ log_file_idx < Len(log_info)
       /\ log_start_idx = log_info[log_file_idx + 1].start_idx
       /\ log_end_idx = log_info[log_file_idx + 1].end_idx
       /\ \A i \in 1..Len(log_page) : log_page[i] = [log |-> info_log, idx |-> log_start_idx + i - 1]
       /\ info_log \in Logs
       /\ info_log = logname \/ unanswered

\* How far a call has come.
CallKnown ==
  /\ rpc # "idle" => asked \in Entries
  /\ rpc \in {"first", "page"} => log_info # <<>> /\ ~PathIsList
  /\ rpc = "first" => log_file_idx = 0
  /\ rpc \in {"first", "sample", "page", "entry"} => logname = asked.log
  /\ rpc \in {"page", "entry"} => asked.idx \in log_start_idx..log_end_idx

ReaderInv == ReaderTypeOK /\ PagesAscend /\ PageKnown /\ CallKnown /\ SampleOfLog

(***************************************************************************)
(* The data link.                                                          *)
(***************************************************************************)
\* LinkTypeOK, variable by variable.
LinkTypes ==
  /\ cpc \in {"new", "loop", "length", "body", "lost", "closed"}
  /\ k \in Steps /\ got \in Steps
  /\ subscribed \subseteq Comps /\ published \subseteq Comps /\ due \subseteq Comps
  /\ sent \subseteq Comps /\ early \subseteq Comps /\ status_names \subseteq Comps
  /\ status \in [Comps -> Steps] /\ cmd \in [Comps -> Steps]
  /\ chunk \in BOOLEAN /\ raised \in BOOLEAN
  /\ up \in Seq(Commands) /\ down \in Seq(Pieces)
  /\ spc \in {"none", "read", "parse", "write", "dead"}
  /\ cur \in Commands /\ part \in 0..2

(* The two say the same.                                                   *)
LEMMA LinkTypeParts == LinkTypeOK <=> LinkTypes
  BY DEF LinkTypeOK, LinkTypes

(* What Head and Tail are of a sequence that is not empty.                 *)
LEMMA HeadAndTail ==
  ASSUME NEW S, NEW s \in Seq(S), s # <<>>
  PROVE  /\ Len(s) \in Nat /\ Len(s) # 0 /\ Head(s) = s[1] /\ s[1] \in S
         /\ Tail(s) \in Seq(S) /\ Len(Tail(s)) = Len(s) - 1
         /\ \A i \in 1..(Len(s) - 1) : Tail(s)[i] = s[i + 1]
  BY HeadTailProperties, EmptySeq, LenProperties

(* The client's steps keep the types.                                      *)
LEMMA ClientTypes ==
  ASSUME LinkTypes,
         \/ \E c \in Comps : subscribe_status(c) \/ publish(c)
         \/ start_data_service \/ stop_data_service \/ step
  PROVE  LinkTypes'
<1>0. MaxSteps \in Nat
  BY LinkAssumption
<1> USE DEF LinkTypes, Steps, linkServer
<1>1. ASSUME NEW c \in Comps, subscribe_status(c)  PROVE LinkTypes'
  BY <1>1 DEF subscribe_status
<1>2. ASSUME NEW c \in Comps, publish(c)  PROVE LinkTypes'
  BY <1>2 DEF publish
<1>3. CASE start_data_service
  BY <1>3 DEF start_data_service
<1>4. CASE stop_data_service
  BY <1>4 DEF stop_data_service
<1>5. CASE send_command
  <2>1. k' \in Steps
    BY <1>0, <1>5 DEF send_command
  <2>2. [n |-> k', of |-> published] \in Commands
    BY <2>1 DEF Commands
  <2>3. up' \in Seq(Commands)
    BY <2>2, <1>5 DEF send_command
  <2> QED
    BY <2>1, <2>3, <1>5 DEF send_command
<1>6. CASE recv_length
  BY <1>6, HeadAndTail DEF recv_length, Received
<1>7. CASE recv_body
  <2>1. down' \in Seq(Pieces) /\ Head(down) \in Pieces
    BY <1>7, HeadAndTail DEF recv_body, Received
  <2>2. Head(down).n \in Steps
    BY <2>1 DEF Pieces
  <2>3. CASE cpc = "body" /\ Head(down).part = 2
    <3>1. got' \in Steps /\ status' \in [Comps -> Steps]
      BY <2>2, <2>3, <1>7 DEF recv_body
    <3> QED
      BY <3>1, <2>1, <2>3, <1>7 DEF recv_body, Received
  <2>4. CASE ~(cpc = "body" /\ Head(down).part = 2)
    BY <2>1, <2>4, <1>7 DEF recv_body, Received
  <2> QED
    BY <2>3, <2>4
<1>8. CASE ChunkTimeout \/ TotalTimeout
  BY <1>8 DEF ChunkTimeout, TotalTimeout, Raise
<1> QED
  BY <1>1, <1>2, <1>3, <1>4, <1>5, <1>6, <1>7, <1>8 DEF step, Receive

(* The steps of the data service's thread keep the types.                  *)
LEMMA ServerTypes ==
  ASSUME LinkTypes, DataThread  PROVE LinkTypes'
<1> USE DEF LinkTypes, linkClient
<1>1. CASE ReadStringFromPort
  BY <1>1, HeadAndTail DEF ReadStringFromPort
<1>2. CASE ParseAndSerialize
  <2>1. cur.n \in Steps /\ cur' \in Commands
    BY <1>2 DEF ParseAndSerialize, Commands
  <2>2. cmd' \in [Comps -> Steps]
    BY <2>1, <1>2 DEF ParseAndSerialize
  <2> QED
    BY <2>1, <2>2, <1>2 DEF ParseAndSerialize
<1>3. CASE WriteStringToPort
  <2>1. [n |-> cur.n, names |-> cur.of, part |-> part] \in Pieces
    BY DEF Pieces, Commands
  <2>2. down' \in Seq(Pieces)
    BY <2>1, <1>3 DEF WriteStringToPort
  <2>3. part' \in 0..2
    BY <1>3 DEF WriteStringToPort
  <2> QED
    BY <2>2, <2>3, <1>3 DEF WriteStringToPort
<1>4. CASE NotWritable \/ DataThreadDies
  BY <1>4 DEF NotWritable, DataThreadDies
<1> QED
  BY <1>1, <1>2, <1>3, <1>4 DEF DataThread

(* A step that subscribes, publishes, starts or stops leaves what is on    *)
(* its way alone.                                                          *)
LEMMA ScriptSteps ==
  ASSUME LinkInv,
         \/ \E c \in Comps : subscribe_status(c) \/ publish(c)
         \/ start_data_service \/ stop_data_service
  PROVE  Subscriptions' /\ BeforeStart' /\ Quiet' /\ OneInFlight' /\ LockStep'
<1> USE DEF LinkInv, Subscriptions, BeforeStart, Quiet, LockStep
<1>0. cpc \in {"new", "loop"} /\ cpc' \in {"new", "loop", "closed"}
  BY DEF subscribe_status, publish, start_data_service, stop_data_service
<1>1. OneInFlight'
  BY <1>0 DEF OneInFlight
<1>2. ASSUME NEW c \in Comps, subscribe_status(c)
      PROVE  Subscriptions' /\ BeforeStart' /\ Quiet' /\ LockStep'
  BY <1>2 DEF subscribe_status
<1>3. ASSUME NEW c \in Comps, publish(c)
      PROVE  Subscriptions' /\ BeforeStart' /\ Quiet' /\ LockStep'
  BY <1>3 DEF publish, linkServer
<1>4. CASE start_data_service
  <2>1. /\ cpc = "new" /\ cpc' = "loop" /\ spc' = "read"
        /\ UNCHANGED <<k, got, subscribed, due, sent, early, status, up, down, status_names, cmd>>
    BY <1>4 DEF start_data_service
  <2>2. k = 0 /\ got = 0 /\ due = {} /\ sent = {} /\ up = <<>> /\ down = <<>>
    BY <2>1
  <2> QED
    BY <2>1, <2>2, <1>1
<1>5. CASE stop_data_service
  <2>1. cpc' = "closed" /\ UNCHANGED <<subscribed, due, early, status_names>>
    BY <1>5 DEF stop_data_service
  <2> QED
    BY <2>1, <1>1
<1> QED
  BY <1>1, <1>2, <1>3, <1>4, <1>5

(* The command of a step is the only one that is on its way.               *)
LEMMA SendStep ==
  ASSUME LinkInv, send_command
  PROVE  Subscriptions' /\ BeforeStart' /\ Quiet' /\ OneInFlight' /\ LockStep'
<1>1. /\ cpc = "loop" /\ cpc' = "length" /\ k' = k + 1 /\ due' = subscribed \ early
      /\ sent' = published /\ up' = Append(up, [n |-> k', of |-> published])
      /\ UNCHANGED <<subscribed, early, raised, down, status_names, spc>>
  BY DEF send_command, linkServer
<1>2. Subscriptions' /\ BeforeStart' /\ Quiet' /\ LockStep'
  BY <1>1 DEF LinkInv, Subscriptions, BeforeStart, Quiet, LockStep
<1>3. ASSUME ~raised'  PROVE Requested'
  <2>1. up = <<>> /\ down = <<>> /\ spc \in {"read", "dead"}
    BY <1>1, <1>3 DEF LinkInv, Quiet
  <2> QED
    BY <1>1, <2>1 DEF Requested
<1> QED
  BY <1>2, <1>3 DEF OneInFlight

(* The pieces of the answer are received in their order, and the last one  *)
(* ends the step.                                                          *)
LEMMA ReceiveStep ==
  ASSUME LinkInv, recv_length \/ recv_body
  PROVE  Subscriptions' /\ BeforeStart' /\ Quiet' /\ OneInFlight' /\ LockStep'
<1>0. LinkTypes /\ Steps \subseteq Nat
  BY LinkTypeParts, LinkAssumption DEF LinkInv, Steps
<1>1. /\ cpc \in {"length", "body", "lost"} /\ down # <<>> /\ down' = Tail(down)
      /\ UNCHANGED <<k, subscribed, published, due, sent, early, raised, up, linkServer>>
      /\ cpc' \in {"body", "lost", "loop"}
  BY DEF recv_length, recv_body, Received
<1>2. Subscriptions' /\ BeforeStart'
  BY <1>1 DEF LinkInv, Subscriptions, BeforeStart, linkServer
<1>3. CASE raised
  BY <1>1, <1>2, <1>3 DEF Quiet, OneInFlight, LockStep
<1>4. CASE ~raised
  <2>1. PICK w \in 0..3 : Answering(w)
    BY <1>1, <1>4 DEF LinkInv, OneInFlight, Requested, Read
  <2>2. /\ Len(down) \in 1..3 /\ Head(down) = down[1] /\ Len(Tail(down)) = Len(down) - 1
        /\ \A i \in 1..(Len(down) - 1) : Tail(down)[i] = down[i + 1]
        /\ Tail(down) \in Seq(Pieces)
    <3>1. down \in Seq(Pieces) /\ down # <<>> /\ Len(down) <= w
      BY <1>0, <1>1, <2>1 DEF LinkTypes, Answering
    <3>2. /\ Len(down) \in Nat /\ Len(down) # 0 /\ Head(down) = down[1]
          /\ Tail(down) \in Seq(Pieces) /\ Len(Tail(down)) = Len(down) - 1
          /\ \A i \in 1..(Len(down) - 1) : Tail(down)[i] = down[i + 1]
      BY <3>1, HeadAndTail
    <3> QED
      BY <3>1, <3>2
  <2>3. /\ Head(down).n = k /\ due \subseteq Head(down).names
        /\ Head(down).part = w - Len(down)
    <3>0. \A i \in 1..Len(down) : /\ down[i].n = k /\ due \subseteq down[i].names
                                  /\ down[i].part = w - Len(down) + i - 1
      BY <2>1 DEF Answering
    <3>1. /\ down[1].n = k /\ due \subseteq down[1].names
          /\ down[1].part = w - Len(down) + 1 - 1
      <4>1. Len(down) \in 1..3
        BY <2>2
      <4> QED
        BY <3>0, <4>1
    <3> QED
      BY <3>1, <2>2
  <2>4. ASSUME cpc' = "body"  PROVE Answering(w)'
    <3>0. Len(down) <= w
      BY <2>1 DEF Answering
    <3>1. Len(down') = Len(down) - 1 /\ Len(down') # w /\ Len(down') <= w
      <4>1. Len(down) \in 1..3 /\ Len(Tail(down)) = Len(down) - 1 /\ down' = Tail(down)
        BY <1>1, <2>2
      <4> QED
        BY <4>1, <3>0
    <3>2. ASSUME NEW i \in 1..Len(down')
          PROVE  /\ down'[i].n = k /\ due \subseteq down'[i].names
                 /\ down'[i].part = w - Len(down') + i - 1
      <4>0. Len(down) \in 1..3 /\ Len(down') = Len(down) - 1 /\ down' = Tail(down)
        BY <1>1, <2>2, <3>1
      <4>1. i \in 1..(Len(down) - 1) /\ i + 1 \in 1..Len(down)
        BY <4>0
      <4>a. down'[i] = down[i + 1]
        BY <4>0, <4>1, <2>2
      <4>2. /\ down[i + 1].n = k /\ due \subseteq down[i + 1].names
            /\ down[i + 1].part = w - Len(down) + (i + 1) - 1
        BY <4>1, <2>1 DEF Answering
      <4> QED
        BY <4>0, <4>1, <4>a, <4>2
    <3>3. UNCHANGED <<k, due, sent, up, spc, cur, part, cmd>>
      BY <1>1 DEF linkServer
    <3> QED
      BY <2>1, <2>4, <3>1, <3>2, <3>3 DEF Answering
  <2>5. CASE recv_length
    <3>1. cpc' = "body"
      BY <2>1, <2>3, <2>5 DEF recv_length, Received, Answering
    <3> QED
      BY <3>1, <2>4, <1>2 DEF Quiet, OneInFlight, LockStep
  <2>6. CASE recv_body /\ Head(down).part # 2
    <3>1. cpc' = "body"
      BY <2>1, <2>6 DEF recv_body, Received, Answering
    <3> QED
      BY <3>1, <2>4, <1>2 DEF Quiet, OneInFlight, LockStep
  <2>7. CASE recv_body /\ Head(down).part = 2
    <3>1. /\ cpc' = "loop" /\ got' = Head(down).n
          /\ status' = [c \in Comps |-> IF c \in subscribed \cap Head(down).names
                                          THEN got' ELSE status[c]]
      BY <2>1, <2>7 DEF recv_body, Received, Answering
    <3>2. w = 3 /\ Len(down) = 1
      BY <2>1, <2>2, <2>3, <2>7
    <3>3. down' = <<>> /\ up' = <<>> /\ spc' \in {"read", "dead"}
      <4>1. Tail(down) = <<>>
        <5>1. Tail(down) \in Seq(Pieces) /\ Len(Tail(down)) = 0
          BY <2>2, <3>2
        <5> QED
          BY <5>1, EmptySeq
      <4>2. spc # "write"
        BY <3>2, <2>1, <1>0 DEF Answering, LinkTypes
      <4> QED
        BY <4>1, <4>2, <2>1, <1>1 DEF Answering, linkServer
    <3>4. \A c \in due' : status'[c] = k'
      BY <3>1, <2>3, <1>0, <1>1 DEF LinkInv, Subscriptions, LinkTypes
    <3>5. \A c \in sent' : cmd'[c] = k'
      BY <3>2, <2>1, <1>1 DEF Answering, linkServer
    <3> QED
      BY <3>1, <3>3, <3>4, <3>5, <2>3, <1>1, <1>2 DEF Quiet, OneInFlight, LockStep
  <2> QED
    BY <2>5, <2>6, <2>7
<1> QED
  BY <1>3, <1>4

(* A receive that raises ends what is known.                               *)
LEMMA RaiseStep ==
  ASSUME LinkInv, ChunkTimeout \/ TotalTimeout
  PROVE  Subscriptions' /\ BeforeStart' /\ Quiet' /\ OneInFlight' /\ LockStep'
  BY DEF LinkInv, ChunkTimeout, TotalTimeout, Raise, Subscriptions, BeforeStart, Quiet,
         OneInFlight, LockStep, linkServer

(* Adding at the end of a sequence.                                        *)
LEMMA Added ==
  ASSUME NEW S, NEW s \in Seq(S), NEW x \in S
  PROVE  /\ Append(s, x) \in Seq(S) /\ Len(s) \in Nat /\ Len(Append(s, x)) = Len(s) + 1
         /\ \A i \in 1..Len(s) : Append(s, x)[i] = s[i]
         /\ Append(s, x)[Len(s) + 1] = x
  BY AppendProperties, LenProperties

(* The thread of the data service answers the one command there is, and    *)
(* only that, or leaves it without an answer.                              *)
LEMMA ServeStep ==
  ASSUME LinkInv, DataThread
  PROVE  Subscriptions' /\ BeforeStart' /\ Quiet' /\ OneInFlight' /\ LockStep'
<1>0. LinkTypes
  BY LinkTypeParts DEF LinkInv
<1>1. UNCHANGED <<linkClient, status_names>> /\ spc \in {"read", "parse", "write"}
      /\ spc' \in {"read", "parse", "write", "dead"}
  BY DEF DataThread, ReadStringFromPort, ParseAndSerialize, WriteStringToPort, NotWritable,
         DataThreadDies
<1>2. Subscriptions' /\ BeforeStart'
  BY <1>1 DEF LinkInv, Subscriptions, BeforeStart, linkClient
<1>3. CASE raised \/ cpc \notin {"loop", "length", "body", "lost"}
  BY <1>1, <1>2, <1>3 DEF linkClient, Quiet, OneInFlight, LockStep
<1>4. CASE ~raised /\ cpc = "loop"
  <2>1. up = <<>> /\ down = <<>> /\ spc = "read"
    BY <1>1, <1>4 DEF LinkInv, Quiet
  <2>2. DataThreadDies
    BY <2>1 DEF DataThread, ReadStringFromPort, ParseAndSerialize, WriteStringToPort, NotWritable
  <2>3. spc' = "dead" /\ UNCHANGED <<linkClient, up, down, cmd>>
    BY <2>2 DEF DataThreadDies
  <2> QED
    BY <1>2, <1>4, <2>1, <2>3 DEF LinkInv, Quiet, OneInFlight, LockStep, linkClient
<1>5. CASE ~raised /\ cpc \in {"length", "body", "lost"}
  <2>1. Quiet' /\ LockStep'
    BY <1>1, <1>5 DEF Quiet, LockStep, linkClient
  <2>2. UNCHANGED <<cpc, k, due, sent>>
    BY <1>1 DEF linkClient
  <2>3. CASE Requested
    <3>1. CASE ReadStringFromPort
      <4>1. up' = <<>> /\ cur' = [n |-> k, of |-> sent] /\ down' = <<>> /\ spc' \in {"dead", "parse"}
        BY <2>3, <3>1 DEF Requested, ReadStringFromPort
      <4>2. CASE spc' = "parse"
        BY <4>1, <4>2, <2>1, <2>2, <2>3, <1>2 DEF Requested, Read, OneInFlight
      <4>3. CASE spc' = "dead"
        <5>1. Answering(0)'
          BY <4>1, <4>3, <2>2, <2>3 DEF Requested, Answering
        <5> QED
          BY <5>1, <2>1, <1>2 DEF OneInFlight
      <4> QED
        BY <4>1, <4>2, <4>3
    <3>2. CASE DataThreadDies
      BY <3>2, <2>1, <2>2, <2>3, <1>2 DEF Requested, DataThreadDies, OneInFlight
    <3> QED
      BY <3>1, <3>2, <2>3 DEF Requested, DataThread, ParseAndSerialize, WriteStringToPort, NotWritable
  <2>4. CASE Read
    <3>1. ParseAndSerialize
      BY <2>4 DEF Read, DataThread, ReadStringFromPort, WriteStringToPort, NotWritable, DataThreadDies
    <3>2. /\ up' = <<>> /\ down' = <<>> /\ spc' = "write" /\ part' = 0
          /\ cur'.n = k /\ cur'.of = status_names
      BY <2>4, <3>1, <1>0 DEF Read, ParseAndSerialize
    <3>3. \A c \in sent : cmd'[c] = k
      BY <2>4, <3>1, <1>0 DEF Read, ParseAndSerialize, LinkTypes
    <3>4. Answering(0)'
      BY <3>2, <3>3, <2>2, <2>4 DEF Answering, Read, LinkInv, Subscriptions
    <3> QED
      BY <3>4, <2>1, <1>2 DEF OneInFlight
  <2>5. ASSUME NEW w \in 0..3, Answering(w)
        PROVE  OneInFlight'
    <3>0. up = <<>> /\ spc \in {"read", "write"}
      BY <1>1, <2>5 DEF Answering
    <3>1. CASE WriteStringToPort
      <4> DEFINE x == [n |-> cur.n, names |-> cur.of, part |-> part]
      <4>1. /\ spc = "write" /\ down' = Append(down, x) /\ part' = (part + 1) % 3
            /\ spc' = IF part = 2 THEN "read" ELSE "write"
            /\ UNCHANGED <<up, cur, cmd>>
        BY <3>1 DEF WriteStringToPort
      <4>2. x \in Pieces /\ x.n = k /\ x.names = cur.of /\ x.part = w /\ due \subseteq cur.of /\ w = part
            /\ w \in 0..2
        BY <4>1, <2>5, <1>0 DEF Answering, LinkTypes, Pieces, Commands
      <4> HIDE DEF x
      <4>3. /\ Len(down) \in Nat /\ Len(down') = Len(down) + 1 /\ down'[Len(down) + 1] = x
            /\ \A i \in 1..Len(down) : down'[i] = down[i]
        BY <4>1, <4>2, <1>0, Added DEF LinkTypes
      <4>4. Len(down) <= w /\ (cpc = "length" <=> Len(down) = w) /\ cpc \in {"length", "body"}
            /\ \A c \in sent : cmd[c] = k
        BY <4>1, <2>5 DEF Answering
      <4>5. ASSUME NEW i \in 1..Len(down')
            PROVE  /\ down'[i].n = k /\ due \subseteq down'[i].names
                   /\ down'[i].part = w + 1 - Len(down') + i - 1
        <5>1. CASE i \in 1..Len(down)
          <6>1. /\ down[i].n = k /\ due \subseteq down[i].names
                /\ down[i].part = w - Len(down) + i - 1
            BY <5>1, <2>5 DEF Answering
          <6> QED
            BY <6>1, <5>1, <4>3, <4>2
        <5>2. CASE i = Len(down) + 1
          BY <5>2, <4>2, <4>3
        <5> QED
          BY <5>1, <5>2, <4>3
      <4>6. spc' = "write" => part' = w + 1
        BY <4>1, <4>2
      <4>7. Answering(w + 1)'
        <5>1. cpc' \in {"length", "body"} /\ spc' \in {"read", "write", "dead"} /\ up' = <<>>
          BY <4>1, <4>4, <3>0, <2>2
        <5>2. Len(down') <= w + 1 /\ (cpc' = "length" <=> Len(down') = w + 1)
          BY <4>3, <4>4, <2>2
        <5>3. \A i \in 1..Len(down') : /\ down'[i].n = k' /\ due' \subseteq down'[i].names
                                       /\ down'[i].part = w + 1 - Len(down') + i - 1
          BY <4>5, <2>2
        <5>4. spc' = "write" => part' = w + 1 /\ cur'.n = k' /\ due' \subseteq cur'.of
          BY <4>1, <4>2, <4>6, <2>2, <2>5 DEF Answering
        <5>5. \A c \in sent' : cmd'[c] = k'
          BY <4>1, <4>4, <2>2
        <5> QED
          BY <5>1, <5>2, <5>3, <5>4, <5>5 DEF Answering
      <4>8. w + 1 \in 0..3
        BY <4>2
      <4> QED
        BY <4>7, <4>8 DEF OneInFlight
    <3>2. CASE NotWritable \/ DataThreadDies
      <4>1. spc' \in {"read", "dead"} /\ UNCHANGED <<up, down, cmd>>
        BY <3>2 DEF NotWritable, DataThreadDies
      <4>2. Answering(w)'
        BY <4>1, <2>2, <2>5 DEF Answering
      <4> QED
        BY <4>2 DEF OneInFlight
    <3> QED
      BY <3>0, <3>1, <3>2 DEF DataThread, ReadStringFromPort, ParseAndSerialize
  <2> QED
    BY <1>2, <1>5, <2>1, <2>3, <2>4, <2>5 DEF LinkInv, OneInFlight
<1> QED
  BY <1>3, <1>4, <1>5

(* Every step of the link keeps what is known of it.                       *)
LEMMA LinkStep == LinkInv /\ LinkNext => LinkInv'
<1> SUFFICES ASSUME LinkInv, LinkNext  PROVE LinkInv'
  OBVIOUS
<1>1. LinkTypeOK'
  BY LinkTypeParts, ClientTypes, ServerTypes DEF LinkInv, LinkNext, LinkTypes, LinkTypeOK
<1>2. Subscriptions' /\ BeforeStart' /\ Quiet' /\ OneInFlight' /\ LockStep'
  BY ScriptSteps, SendStep, ReceiveStep, RaiseStep, ServeStep DEF LinkNext, step, Receive
<1> QED
  BY <1>1, <1>2 DEF LinkInv

(***************************************************************************)
(* Reading logs.                                                           *)
(***************************************************************************)
(* A set of naturals that is not empty has a least element.                *)
LEMMA LeastOf ==
  ASSUME NEW T \in SUBSET Nat, T # {}  PROVE \E x \in T : \A y \in T : x <= y
<1> DEFINE R == {ss \in Nat \X Nat : ss[1] < ss[2]}
<1>1. IsWellFoundedOn(R, Nat)
  BY NatLessThanWellFounded DEF OpToRel
<1>2. PICK x \in T : \A y \in T : <<y, x>> \notin R
  <2> HIDE DEF R
  <2> QED
    BY <1>1, WFMin
<1>3. \A y \in T : ~(y < x)
  BY <1>2
<1> QED
  BY <1>3

\* ReaderTypeOK, variable by variable.
ReaderTypes ==
  /\ dir \in [Logs -> Seq(PagesOf)]
  /\ logging_to \in [log : Logs \cup {NoLog}, idx : PageSizes \cup {0}]
  /\ sessions \in 0..MaxSessions
  /\ logname \in Logs \cup {NoLog} /\ info_log \in Logs \cup {NoLog}
  /\ unanswered \in BOOLEAN /\ log_info \in Seq(PagesOf)
  /\ log_file_idx \in Idx /\ log_start_idx \in Idx /\ log_end_idx \in Idx
  /\ log_page \in Seq(Entries)
  /\ rpc \in {"idle", "info", "first", "sample", "page", "entry"}
  /\ asked \in Entries \cup {Nothing}
  /\ result \in Entries \cup {Nothing}

(* The two say the same.                                                   *)
LEMMA ReaderTypeParts == ReaderTypeOK <=> ReaderTypes
  BY DEF ReaderTypeOK, ReaderTypes

(* There are not more pages than indices.                                  *)
LEMMA PagesFit ==
  ASSUME NEW s \in Seq(PagesOf), Ascending(s)
  PROVE  /\ Len(s) \in 0..(MaxIdx + 1)
         /\ \A j \in 1..Len(s) : s[j] \in PagesOf /\ s[j].start_idx \in Idx /\ s[j].end_idx \in Idx
<1>1. MaxIdx \in Nat /\ Len(s) \in Nat
  BY ReaderAssumption, LenProperties
<1>2. ASSUME NEW j \in 1..Len(s)  PROVE s[j] \in PagesOf /\ s[j].start_idx \in Idx /\ s[j].end_idx \in Idx
  <2>1. s[j] \in PagesOf
    BY ElementOfSeq
  <2> QED
    BY <2>1 DEF PagesOf
<1>3. Len(s) <= MaxIdx + 1
  <2>1. CASE Len(s) = 0
    BY <2>1, <1>1
  <2>2. CASE Len(s) # 0
    <3>1. Len(s) \in 1..Len(s)
      BY <2>2, <1>1
    <3>2. Len(s) <= s[Len(s)].end_idx + 1 /\ s[Len(s)].end_idx \in Idx
      BY <3>1, <1>2 DEF Ascending
    <3> QED
      BY <3>2, <1>1 DEF Idx
  <2> QED
    BY <2>1, <2>2
<1> QED
  BY <1>1, <1>2, <1>3

(* A page that is added follows those that are there.                      *)
LEMMA PageAdded ==
  ASSUME NEW s \in Seq(PagesOf), Ascending(s), NEW page \in PagesOf,
         page.start_idx <= page.end_idx, Len(s) <= page.end_idx
  PROVE  Append(s, page) \in Seq(PagesOf) /\ Ascending(Append(s, page))
<1>1. /\ Append(s, page) \in Seq(PagesOf) /\ Len(s) \in Nat /\ Len(Append(s, page)) = Len(s) + 1
      /\ \A i \in 1..Len(s) : Append(s, page)[i] = s[i]
      /\ Append(s, page)[Len(s) + 1] = page
  BY Added
<1>2. page.end_idx \in Nat /\ page.start_idx \in Nat
  BY ReaderAssumption DEF PagesOf, Idx
<1>3. ASSUME NEW j \in 1..(Len(s) + 1)
      PROVE  /\ Append(s, page)[j].start_idx <= Append(s, page)[j].end_idx
             /\ j <= Append(s, page)[j].end_idx + 1
  <2>1. CASE j \in 1..Len(s)
    BY <2>1, <1>1 DEF Ascending
  <2>2. CASE j = Len(s) + 1
    BY <2>2, <1>1, <1>2
  <2> QED
    BY <2>1, <2>2, <1>1
<1> QED
  BY <1>1, <1>3 DEF Ascending

(* The server: logs are emptied and grow, and nothing else changes.        *)
LEMMA LogServerStep ==
  ASSUME ReaderInv, LogServer  PROVE ReaderInv'
<1>0. ReaderTypes /\ MaxIdx \in Nat /\ MaxSessions \in Nat /\ PageSizes \subseteq Nat \ {0}
  BY ReaderTypeParts, ReaderAssumption DEF ReaderInv
<1>1. UNCHANGED <<loaded, rpc, asked, result>>
  BY DEF LogServer, start_log_service, LogPage, stop_log_service
<1>2. PageKnown' /\ CallKnown' /\ SampleOfLog'
  BY <1>1 DEF loaded, ReaderInv, PageKnown, CallKnown, SampleOfLog
<1>3. ASSUME dir' \in [Logs -> Seq(PagesOf)], \A l \in Logs : Ascending(dir'[l]),
             logging_to' \in [log : Logs, idx : PageSizes] \cup {Nothing},
             sessions' \in 0..MaxSessions
      PROVE  ReaderInv'
  <2>1. logging_to' \in [log : Logs \cup {NoLog}, idx : PageSizes \cup {0}]
    BY <1>3 DEF Nothing
  <2>2. ReaderTypes'
    BY <1>0, <1>1, <1>3, <2>1 DEF loaded, ReaderTypes
  <2>3. PagesAscend'
    BY <1>1, <1>3 DEF loaded, ReaderInv, PagesAscend, Ascending
  <2> QED
    BY <2>2, <2>3, <1>2, ReaderTypeParts DEF ReaderInv, ReaderTypes, ReaderTypeOK
<1>4. \A l \in Logs : Ascending(dir[l]) /\ dir[l] \in Seq(PagesOf)
  BY <1>0 DEF ReaderInv, PagesAscend, ReaderTypes
<1>5. ASSUME NEW l \in Logs, NEW components \in SUBSET LogComps, NEW size \in PageSizes,
             start_log_service(l, components, size)
      PROVE  ReaderInv'
  <2>1. /\ dir' = [dir EXCEPT ![l] = <<>>] /\ sessions' = sessions + 1 /\ sessions < MaxSessions
        /\ logging_to' \in {Nothing, [log |-> l, idx |-> size]}
    BY <1>5 DEF start_log_service
  <2>2. dir' \in [Logs -> Seq(PagesOf)] /\ \A m \in Logs : Ascending(dir'[m])
    <3>1. Ascending(<<>>) /\ <<>> \in Seq(PagesOf)
      BY EmptySeq DEF Ascending
    <3> QED
      BY <3>1, <2>1, <1>0, <1>4 DEF ReaderTypes
  <2>3. logging_to' \in [log : Logs, idx : PageSizes] \cup {Nothing}
    BY <2>1
  <2>4. sessions' \in 0..MaxSessions
    BY <2>1, <1>0 DEF ReaderTypes
  <2> QED
    BY <2>2, <2>3, <2>4, <1>3
<1>6. CASE LogPage
  <2> DEFINE l == logging_to.log
             size == logging_to.idx
             next == IF dir[l] = <<>> THEN 0 ELSE dir[l][Len(dir[l])].end_idx + 1
  <2>1. l \in Logs /\ size \in PageSizes /\ size \in Nat \ {0}
    BY <1>0, <1>6 DEF LogPage, ReaderInv, PagesAscend
  <2>2. PICK first \in {next, next + size} :
          /\ first + size - 1 <= MaxIdx
          /\ dir' = [dir EXCEPT ![l] = Append(@, [start_idx |-> first, end_idx |-> first + size - 1])]
    BY <1>6 DEF LogPage
  <2>3. UNCHANGED <<logging_to, sessions>>
    BY <1>6 DEF LogPage
  <2>4. next \in Nat /\ Len(dir[l]) <= next
    <3>1. CASE dir[l] = <<>>
      BY <3>1, EmptySeq
    <3>2. CASE dir[l] # <<>>
      <4>1. Len(dir[l]) \in Nat \ {0} /\ Len(dir[l]) \in 1..Len(dir[l])
        BY <3>2, <2>1, <1>4, EmptySeq
      <4>2. /\ dir[l][Len(dir[l])].end_idx \in Idx
            /\ Len(dir[l]) <= dir[l][Len(dir[l])].end_idx + 1
        BY <4>1, <2>1, <1>4, PagesFit DEF Ascending
      <4> QED
        BY <4>1, <4>2, <3>2, <1>0 DEF Idx
    <3> QED
      BY <3>1, <3>2
  <2> DEFINE page == [start_idx |-> first, end_idx |-> first + size - 1]
  <2>5. first \in Nat /\ Len(dir[l]) <= first /\ Len(dir[l]) \in Nat
    <3> HIDE DEF next
    <3>1. Len(dir[l]) \in Nat
      BY <2>1, <1>4, LenProperties
    <3> QED
      BY <3>1, <2>1, <2>2, <2>4
  <2>6. /\ page \in PagesOf /\ page.start_idx <= page.end_idx /\ Len(dir[l]) <= page.end_idx
    BY <2>1, <2>2, <2>5, <1>0 DEF PagesOf, Idx
  <2>7. Append(dir[l], page) \in Seq(PagesOf) /\ Ascending(Append(dir[l], page))
    <3> HIDE DEF page
    <3> QED
      BY <2>1, <2>6, <1>4, PageAdded
  <2>8. dir' \in [Logs -> Seq(PagesOf)] /\ \A m \in Logs : Ascending(dir'[m])
    <3>1. dir' = [dir EXCEPT ![l] = Append(dir[l], page)]
      BY <2>2
    <3> HIDE DEF page, l
    <3> QED
      BY <3>1, <2>7, <2>1, <1>0, <1>4 DEF ReaderTypes
  <2> QED
    BY <2>3, <2>8, <1>0, <1>3 DEF ReaderTypes, ReaderInv, PagesAscend
<1>7. CASE stop_log_service
  BY <1>0, <1>3, <1>4, <1>7 DEF stop_log_service, ReaderTypes
<1> QED
  BY <1>5, <1>6, <1>7 DEF LogServer

(* What get_log_file loads: the entries of the page, or none.              *)
LEMMA FileLoaded ==
  ASSUME ReaderInv, info_log \in Logs, NEW i \in Nat, i < Len(log_info), NEW next, get_log_file(i, next)
  PROVE  /\ UNCHANGED <<serverLog, asked>>
         /\ log_page' \in Seq(Entries)
         /\ \A j \in 1..Len(log_page') :
              log_page'[j] = [log |-> info_log, idx |-> log_info[i + 1].start_idx + j - 1]
         /\ \/ rpc' = next /\ result' = result
            \/ rpc' = "idle" /\ result' = Nothing
<1>0. log_info \in Seq(PagesOf) /\ MaxIdx \in Nat
  BY ReaderTypeParts, ReaderAssumption DEF ReaderInv, ReaderTypes
<1> DEFINE page == log_info[i + 1]
           m == page.end_idx - page.start_idx + 1
           loads == [n \in 1..m |-> [log |-> info_log, idx |-> page.start_idx + n - 1]]
<1>1. /\ i + 1 \in 1..Len(log_info) /\ page.start_idx \in Idx /\ page.end_idx \in Idx
      /\ page.start_idx <= page.end_idx
  <2>1. Len(log_info) \in Nat
    BY <1>0, LenProperties
  <2>2. i + 1 \in 1..Len(log_info)
    BY <2>1
  <2> QED
    BY <2>2, <1>0, PagesFit DEF ReaderInv, PagesAscend, Ascending
<1>2. m \in Nat /\ \A n \in 1..m : page.start_idx + n - 1 \in Idx
  BY <1>0, <1>1 DEF Idx
<1>3. loads \in Seq(Entries) /\ Len(loads) = m
  <2> HIDE DEF page, m
  <2>1. \A n \in 1..m : [log |-> info_log, idx |-> page.start_idx + n - 1] \in Entries
    BY <1>2 DEF Entries
  <2> QED
    BY <2>1, <1>2
<1>4. CASE log_page' = loads /\ Do(next) /\ UNCHANGED result
  <2>1. log_page' = loads /\ rpc' = next /\ result' = result /\ UNCHANGED <<serverLog, asked>>
    BY <1>4 DEF Do
  <2>2. \A j \in 1..Len(log_page') : log_page'[j] = [log |-> info_log, idx |-> page.start_idx + j - 1]
    <3> HIDE DEF page, m
    <3> QED
      BY <2>1, <1>3
  <2> QED
    BY <2>1, <2>2, <1>3
<1>5. CASE Return(Nothing) /\ log_page' = <<>>
  <2>1. log_page' = <<>> /\ rpc' = "idle" /\ result' = Nothing /\ UNCHANGED <<serverLog, asked>>
    BY <1>5 DEF Do, Return
  <2> QED
    BY <2>1, EmptySeq
<1> QED
  BY <1>4, <1>5 DEF get_log_file

(* load_log_sample, up to the entry it returns.                            *)
LEMMA ReaderStep ==
  ASSUME ReaderInv, Reader  PROVE ReaderInv'
<1>0. ReaderTypes /\ MaxIdx \in Nat /\ NoLog \notin Logs
  BY ReaderTypeParts, ReaderAssumption DEF ReaderInv
<1>1. UNCHANGED serverLog
  BY DEF Reader, load_log_sample, InfoRaises, get_log_info, FirstPage, InPage, SearchPage, LoadPage, LoadEntry,
         get_log_file, Do, Return
<1>2. ASSUME Ascending(log_info'), ReaderTypes', PageKnown', CallKnown', SampleOfLog'
      PROVE  ReaderInv'
  BY <1>1, <1>2, ReaderTypeParts DEF ReaderInv, PagesAscend, serverLog, ReaderTypes, ReaderTypeOK
<1>3. PageKnown /\ CallKnown /\ SampleOfLog /\ Ascending(log_info) /\ \A l \in Logs : Ascending(dir[l])
  BY DEF ReaderInv, PagesAscend
<1>a. \A x : x \in Entries => x \in [log : Logs, idx : Idx] /\ x.log \in Logs /\ x.idx \in Idx
  BY DEF Entries
<1>4. ASSUME NEW l \in Logs, NEW idx \in Idx, load_log_sample(l, idx)
      PROVE  ReaderInv'
  <2>1. /\ asked' = [log |-> l, idx |-> idx] /\ result' = Nothing
        /\ rpc' = IF logname # l THEN "info" ELSE "sample"
        /\ UNCHANGED loaded
    BY <1>4 DEF load_log_sample
  <2>2. asked' \in Entries
    BY <2>1 DEF Entries
  <2>3. ReaderTypes'
    BY <2>1, <2>2, <1>0, <1>1 DEF ReaderTypes, loaded, serverLog
  <2>4. PageKnown' /\ CallKnown' /\ SampleOfLog' /\ Ascending(log_info')
    BY <2>1, <2>2, <1>3 DEF PageKnown, CallKnown, SampleOfLog, loaded
  <2> QED
    BY <2>3, <2>4, <1>2
<1>12. CASE InfoRaises
  <2>1. /\ rpc = "info" /\ logname' = asked.log /\ unanswered' = TRUE
        /\ rpc' = "idle" /\ result' = Nothing
        /\ UNCHANGED <<asked, log_info, info_log, log_file_idx, log_start_idx, log_end_idx, log_page>>
    BY <1>12 DEF InfoRaises, Do, Return
  <2>2. asked \in Entries /\ asked.log \in Logs
    BY <2>1, <1>3, <1>a DEF CallKnown
  <2>3. ReaderTypes'
    BY <2>1, <2>2, <1>0, <1>1 DEF ReaderTypes, serverLog
  <2>4. PageKnown' /\ CallKnown' /\ SampleOfLog' /\ Ascending(log_info')
    BY <2>1, <1>3 DEF PageKnown, CallKnown, SampleOfLog
  <2> QED
    BY <2>3, <2>4, <1>2
<1>5. CASE get_log_info
  <2>1. /\ rpc = "info" /\ ~PathIsList /\ logname' = asked.log /\ info_log' = asked.log
        /\ unanswered' = FALSE /\ UNCHANGED asked /\ log_info' = dir[asked.log]
    BY <1>5 DEF get_log_info, Do, Return
  <2>2. asked \in Entries /\ asked.log \in Logs
    BY <2>1, <1>3, <1>a DEF CallKnown
  <2>3. log_info' \in Seq(PagesOf) /\ Ascending(log_info')
    BY <2>1, <2>2, <1>0, <1>3 DEF ReaderTypes
  <2>4. CASE log_info' = <<>>
    <3>1. /\ rpc' = "idle" /\ result' = Nothing
          /\ UNCHANGED <<log_file_idx, log_start_idx, log_end_idx, log_page>>
      BY <2>4, <1>5 DEF get_log_info, Do, Return
    <3>3. ReaderTypes'
      BY <3>1, <2>1, <2>2, <2>3, <1>0, <1>1 DEF ReaderTypes, serverLog
    <3>4. PageKnown' /\ CallKnown' /\ SampleOfLog'
      BY <3>1, <2>1, <2>4 DEF PageKnown, CallKnown, SampleOfLog
    <3> QED
      BY <3>3, <3>4, <2>3, <1>2
  <2>5. CASE log_info' # <<>>
    <3>1. /\ log_file_idx' = 0 /\ log_page' = <<>> /\ rpc' = "first" /\ UNCHANGED result
          /\ log_start_idx' = log_info'[1].start_idx /\ log_end_idx' = log_info'[1].end_idx
      BY <2>5, <1>5 DEF get_log_info, Do
    <3>2. Len(log_info') \in Nat \ {0} /\ 1 \in 1..Len(log_info')
      BY <2>3, <2>5, EmptySeq
    <3>3. log_start_idx' \in Idx /\ log_end_idx' \in Idx /\ log_file_idx' \in Idx
      BY <3>1, <3>2, <2>3, <1>0, PagesFit DEF Idx
    <3>4. ReaderTypes'
      <4>1. log_page' \in Seq(Entries)
        BY <3>1, EmptySeq
      <4> QED
        BY <3>1, <3>3, <4>1, <2>1, <2>2, <2>3, <1>0, <1>1 DEF ReaderTypes, serverLog
    <3>5. PageKnown'
      BY <3>1, <3>2, <2>1, <2>2, <2>5, EmptySeq DEF PageKnown
    <3>6. CallKnown' /\ SampleOfLog'
      BY <3>1, <2>1, <2>2, <2>5 DEF CallKnown, SampleOfLog
    <3> QED
      BY <3>4, <3>5, <3>6, <2>3, <1>2
  <2> QED
    BY <2>4, <2>5
<1>6. ASSUME NEW next \in {"sample", "entry"}, rpc \in {"first", "page"},
             rpc = "page" <=> next = "entry",
             get_log_file(log_file_idx, next),
             UNCHANGED <<logname, log_info, info_log, unanswered, log_file_idx, log_start_idx, log_end_idx>>
      PROVE  ReaderInv'
  <2>1. /\ asked \in Entries /\ logname = asked.log /\ info_log \in Logs /\ log_info # <<>>
        /\ rpc = "page" => asked.idx \in log_start_idx..log_end_idx
    BY <1>3, <1>6, <1>a DEF CallKnown, PageKnown
  <2>2. log_file_idx \in Nat /\ log_file_idx < Len(log_info)
        /\ log_start_idx = log_info[log_file_idx + 1].start_idx
    BY <2>1, <1>0, <1>3 DEF PageKnown, ReaderTypes, Idx
  <2>3. /\ UNCHANGED asked /\ log_page' \in Seq(Entries)
        /\ \A j \in 1..Len(log_page') : log_page'[j] = [log |-> info_log, idx |-> log_start_idx + j - 1]
        /\ \/ rpc' = next /\ result' = result
           \/ rpc' = "idle" /\ result' = Nothing
    BY <2>1, <2>2, <1>6, FileLoaded
  <2>4. ReaderTypes'
    BY <2>3, <1>0, <1>1, <1>6 DEF ReaderTypes, serverLog
  <2>5. PageKnown'
    BY <2>3, <1>3, <1>6 DEF PageKnown
  <2>6. CallKnown' /\ SampleOfLog'
    BY <2>1, <2>3, <1>6 DEF CallKnown, SampleOfLog
  <2> QED
    BY <2>4, <2>5, <2>6, <1>2, <1>3, <1>6
<1>7. CASE FirstPage
  <2>1. log_file_idx = 0
    BY <1>3, <1>7 DEF FirstPage, CallKnown
  <2> QED
    BY <2>1, <1>6, <1>7 DEF FirstPage
<1>8. CASE LoadPage
  BY <1>6, <1>8 DEF LoadPage
<1>9. CASE InPage
  <2>1. /\ rpc = "sample" /\ rpc' = "entry" /\ asked.idx \in log_start_idx..log_end_idx
        /\ UNCHANGED <<asked, loaded, result>>
    BY <1>9 DEF InPage, Do
  <2>2. ReaderTypes'
    BY <2>1, <1>0, <1>1 DEF ReaderTypes, loaded, serverLog
  <2>3. PageKnown' /\ CallKnown' /\ SampleOfLog' /\ Ascending(log_info')
    BY <2>1, <1>3 DEF PageKnown, CallKnown, SampleOfLog, loaded
  <2> QED
    BY <2>2, <2>3, <1>2
<1>10. CASE LoadEntry
  <2> DEFINE here == log_file_idx < Len(log_info)
             entry_idx == asked.idx - log_info[log_file_idx + 1].start_idx
  <2>1. /\ rpc = "entry" /\ rpc' = "idle" /\ UNCHANGED <<asked, loaded>>
        /\ result' = IF here /\ entry_idx < Len(log_page) THEN log_page[entry_idx + 1] ELSE Nothing
    BY <1>10 DEF LoadEntry, Do, Return
  <2>2. asked \in Entries /\ logname = asked.log /\ asked.idx \in log_start_idx..log_end_idx
    BY <2>1, <1>3 DEF CallKnown
  <2>3. ASSUME here, entry_idx < Len(log_page)
        PROVE  result' \in Entries /\ result'.idx = asked.idx /\ (result'.log = asked.log \/ unanswered)
    <3>0. /\ log_file_idx \in Nat /\ log_start_idx \in Nat /\ asked.idx \in Nat
          /\ Len(log_page) \in Nat /\ Len(log_info) \in Nat
      <4>1. asked.idx \in Idx /\ log_file_idx \in Idx /\ log_start_idx \in Idx
        BY <2>2, <1>a, <1>0 DEF ReaderTypes
      <4>2. Idx \subseteq Nat
        BY <1>0 DEF Idx
      <4>3. Len(log_page) \in Nat /\ Len(log_info) \in Nat
        BY <1>0, LenProperties DEF ReaderTypes
      <4> QED
        BY <4>1, <4>2, <4>3
    <3>1. log_info # <<>>
      <4>1. log_file_idx < Len(log_info)
        BY <2>3
      <4>2. Len(log_info) # 0
        BY <4>1, <3>0
      <4> QED
        BY <4>2
    <3>2. entry_idx = asked.idx - log_start_idx
      BY <3>1, <1>3 DEF PageKnown
    <3>3. entry_idx + 1 \in 1..Len(log_page)
      <4>1. log_start_idx <= asked.idx
        BY <2>2, <3>0
      <4> HIDE DEF here
      <4> DEFINE e == asked.idx - log_start_idx
      <4>2. e < Len(log_page)
        BY <2>3, <3>2
      <4>3. e + 1 \in 1..Len(log_page)
        BY <4>1, <4>2, <3>0
      <4> QED
        BY <4>3, <3>2
    <3>4. result' = [log |-> info_log, idx |-> log_start_idx + (entry_idx + 1) - 1]
      <4> HIDE DEF here, entry_idx
      <4> QED
        BY <3>1, <3>3, <2>1, <2>3, <1>3 DEF PageKnown
    <3>5. result' = [log |-> info_log, idx |-> asked.idx]
      <4> HIDE DEF here, entry_idx
      <4>1. log_start_idx + (entry_idx + 1) - 1 = asked.idx
        BY <3>0, <3>2
      <4> QED
        BY <3>4, <4>1
    <3>6. info_log \in Logs /\ (info_log = asked.log \/ unanswered)
      BY <3>1, <1>3, <2>2 DEF PageKnown
    <3>7. asked.idx \in Idx
      BY <2>2, <1>a
    <3> QED
      BY <3>5, <3>6, <3>7 DEF Entries
  <2>4. /\ result' \in Entries \cup {Nothing}
        /\ result' # Nothing => result'.idx = asked.idx /\ (result'.log = asked.log \/ unanswered)
    <3>1. CASE here /\ entry_idx < Len(log_page)
      BY <2>3, <3>1
    <3>2. CASE ~(here /\ entry_idx < Len(log_page))
      BY <2>1, <3>2
    <3> QED
      BY <3>1, <3>2
  <2>5. ReaderTypes'
    BY <2>1, <2>4, <1>0, <1>1 DEF ReaderTypes, loaded, serverLog
  <2>6. PageKnown' /\ CallKnown' /\ SampleOfLog' /\ Ascending(log_info')
    BY <2>1, <2>4, <1>3 DEF PageKnown, CallKnown, SampleOfLog, loaded
  <2> QED
    BY <2>5, <2>6, <1>2
<1>11. CASE SearchPage
  <2> DEFINE num == Len(log_info)
             found == {d \in 1..num : Holds((log_file_idx + d) % num)}
             nearest == CHOOSE d \in found : \A e \in found : d <= e
  <2>1. rpc = "sample" /\ logname = asked.log /\ asked \in Entries
    BY <1>11, <1>3 DEF SearchPage, CallKnown
  <2>2. CASE found = {}
    <3>1. rpc' = "idle" /\ result' = Nothing /\ UNCHANGED <<asked, loaded>>
      BY <2>2, <1>11 DEF SearchPage, Return, Do
    <3>2. ReaderTypes'
      BY <3>1, <1>0, <1>1 DEF ReaderTypes, loaded, serverLog
    <3>3. PageKnown' /\ CallKnown' /\ SampleOfLog' /\ Ascending(log_info')
      BY <3>1, <1>3 DEF PageKnown, CallKnown, SampleOfLog, loaded
    <3> QED
      BY <3>2, <3>3, <1>2
  <2>3. CASE found # {}
    <3> DEFINE file == (log_file_idx + nearest) % num
    <3>1. /\ log_file_idx' = file
          /\ log_start_idx' = log_info[log_file_idx' + 1].start_idx
          /\ log_end_idx' = log_info[log_file_idx' + 1].end_idx
          /\ log_page' = <<>> /\ rpc' = "page"
          /\ UNCHANGED <<logname, log_info, info_log, unanswered, result, asked>>
      BY <2>3, <1>11 DEF SearchPage, Do
    <3>2. num \in Nat /\ log_file_idx \in Nat
      BY <1>0, LenProperties DEF ReaderTypes, Idx
    <3>3. nearest \in 1..num /\ Holds(file)
      <4>1. found \subseteq Nat
        BY <3>2
      <4>2. \E d \in found : \A e \in found : d <= e
        <5> HIDE DEF found
        <5> QED
          BY <2>3, <4>1, LeastOf
      <4>3. nearest \in found
        <5> HIDE DEF found
        <5> QED
          BY <4>2
      <4> QED
        BY <4>3
    <3>4. file \in Nat /\ file + 1 \in 1..num
      <4> HIDE DEF num, nearest
      <4>1. num \in Nat \ {0} /\ log_file_idx + nearest \in Nat
        BY <3>2, <3>3
      <4>2. file \in 0..(num - 1)
        BY <4>1
      <4> HIDE DEF file
      <4> QED
        BY <4>1, <4>2
    <3>5. /\ log_info[file + 1].start_idx \in Idx /\ log_info[file + 1].end_idx \in Idx
          /\ file <= log_info[file + 1].end_idx
      <4> HIDE DEF file
      <4>1. /\ log_info[file + 1].start_idx \in Idx /\ log_info[file + 1].end_idx \in Idx
        BY <3>4, <1>0, <1>3, PagesFit DEF ReaderTypes
      <4>2. file + 1 <= log_info[file + 1].end_idx + 1
        BY <3>4, <1>3 DEF Ascending
      <4>3. log_info[file + 1].end_idx \in Nat
        BY <4>1, <1>0 DEF Idx
      <4> QED
        BY <4>1, <4>2, <4>3, <3>4
    <3> HIDE DEF file
    <3>6. file \in Idx
      BY <3>4, <3>5, <1>0 DEF Idx
    <3>7. asked.idx \in log_start_idx'..log_end_idx'
      BY <3>1, <3>3 DEF Holds
    <3>8. log_info # <<>> /\ file < Len(log_info)
      BY <3>4, <3>2, EmptySeq
    <3>9. ReaderTypes'
      <4>1. log_page' \in Seq(Entries)
        BY <3>1, EmptySeq
      <4> QED
        BY <4>1, <3>1, <3>5, <3>6, <1>0, <1>1 DEF ReaderTypes, serverLog
    <3>10. PageKnown'
      BY <3>1, <3>8, <1>3, EmptySeq DEF PageKnown
    <3>11. CallKnown' /\ SampleOfLog'
      BY <3>1, <3>7, <3>8, <2>1, <1>3 DEF CallKnown, SampleOfLog, PageKnown
    <3> QED
      BY <3>1, <3>9, <3>10, <3>11, <1>2, <1>3
  <2> QED
    BY <2>2, <2>3
<1> QED
  BY <1>4, <1>5, <1>7, <1>8, <1>9, <1>10, <1>11, <1>12 DEF Reader

(***************************************************************************)
(* The two scripts together.                                               *)
(***************************************************************************)
ClientInv == LinkInv /\ ReaderInv /\ script \in {"control", "read"}

(* A step of one script leaves what the other knows alone.                 *)
LEMMA LinkUnchanged == LinkInv /\ UNCHANGED linkVars => LinkInv'
  BY DEF LinkInv, LinkTypeOK, Subscriptions, BeforeStart, Quiet, OneInFlight, Requested, Read,
         Answering, LockStep, linkVars, linkClient, linkServer

(* The same of the reader.                                                 *)
LEMMA ReaderUnchanged == ReaderInv /\ UNCHANGED logVars => ReaderInv'
  BY DEF ReaderInv, ReaderTypeOK, PagesAscend, Ascending, PageKnown, CallKnown, SampleOfLog,
         logVars, serverLog, loaded

(* A proxy starts with the invariants.                                     *)
LEMMA ClientStart == Init => ClientInv
<1> SUFFICES ASSUME Init  PROVE ClientInv
  OBVIOUS
<1>0. MaxSteps \in Nat /\ MaxIdx \in Nat /\ MaxSessions \in Nat
  BY LinkAssumption, ReaderAssumption
<1>1. LinkInit /\ ReaderInit /\ script \in {"control", "read"}
  BY DEF Init
<1>2. LinkTypes
  <2>1. 0 \in Steps /\ [n |-> 0, of |-> {}] \in Commands
    BY <1>0 DEF Steps, Commands
  <2>2. status \in [Comps -> Steps] /\ cmd \in [Comps -> Steps]
    BY <1>1, <2>1 DEF LinkInit
  <2>3. up \in Seq(Commands) /\ down \in Seq(Pieces)
    BY <1>1, EmptySeq DEF LinkInit
  <2>4. cur \in Commands /\ part \in 0..2 /\ k \in Steps /\ got \in Steps
    BY <1>1, <2>1 DEF LinkInit
  <2>5. /\ subscribed \subseteq Comps /\ published \subseteq Comps /\ due \subseteq Comps
        /\ sent \subseteq Comps /\ early \subseteq Comps /\ status_names \subseteq Comps
        /\ chunk \in BOOLEAN /\ raised \in BOOLEAN /\ cpc = "new" /\ spc = "none"
    BY <1>1 DEF LinkInit
  <2> QED
    BY <2>2, <2>3, <2>4, <2>5 DEF LinkTypes
<1>3. Subscriptions /\ BeforeStart /\ Quiet /\ OneInFlight /\ LockStep
  BY <1>1 DEF LinkInit, Subscriptions, BeforeStart, Quiet, OneInFlight, LockStep
<1>4. ReaderTypes
  <2>1. logname \in Logs \cup {NoLog} /\ info_log \in Logs \cup {NoLog} /\ unanswered \in BOOLEAN
    BY <1>1 DEF ReaderInit
  <2>2. log_info \in Seq(PagesOf) /\ log_page \in Seq(Entries) /\ dir \in [Logs -> Seq(PagesOf)]
    BY <1>1, EmptySeq DEF ReaderInit
  <2> QED
    BY <2>1, <2>2, <1>0, <1>1 DEF ReaderTypes, ReaderInit, Idx, Nothing
<1>6. Len(log_info) = 0 /\ \A l \in Logs : Len(dir[l]) = 0
  BY <1>1, EmptySeq DEF ReaderInit
<1>5. PagesAscend /\ PageKnown /\ CallKnown /\ SampleOfLog
  BY <1>1, <1>6 DEF ReaderInit, PagesAscend, Ascending, PageKnown, CallKnown, SampleOfLog
<1> QED
  BY <1>1, <1>2, <1>3, <1>4, <1>5, LinkTypeParts, ReaderTypeParts
  DEF ClientInv, LinkInv, ReaderInv, ReaderTypes, ReaderTypeOK

(* Every step keeps them.                                                  *)
LEMMA ClientStep == ClientInv /\ [Next]_vars => ClientInv'
<1> SUFFICES ASSUME ClientInv, [Next]_vars  PROVE ClientInv'
  OBVIOUS
<1>1. CASE script = "control" /\ LinkNext /\ UNCHANGED <<script, logVars>>
  BY <1>1, LinkStep, ReaderUnchanged DEF ClientInv
<1>2. CASE script = "read" /\ (Reader \/ LogServer) /\ UNCHANGED <<script, linkVars>>
  BY <1>2, ReaderStep, LogServerStep, LinkUnchanged DEF ClientInv
<1>3. CASE UNCHANGED vars
  BY <1>3, LinkUnchanged, ReaderUnchanged DEF ClientInv, vars
<1> QED
  BY <1>1, <1>2, <1>3 DEF Next

(* Whatever the data service and the other clients do, the invariants hold *)
(* of every proxy, for any number of components, steps, logs and sessions. *)
THEOREM ProxyClientInvariant == Spec => []ClientInv
<1>1. Init => ClientInv
  BY ClientStart
<1>2. ClientInv /\ [Next]_vars => ClientInv'
  BY ClientStep
<1> QED
  BY <1>1, <1>2, PTL DEF Spec

(* Every variable has its type; the pages of a log never pass its bound.   *)
THEOREM ProxyClientTypeCorrect == Spec => []TypeOK
<1>1. ClientInv => TypeOK
  BY DEF ClientInv, LinkInv, ReaderInv, TypeOK
<1> QED
  BY <1>1, ProxyClientInvariant, PTL

(* M3RtProxy.step: as long as none has raised, a step that returns has the *)
(* status that answers its own command, for every component subscribed to  *)
(* on the running service, and the components it publishes have the        *)
(* command.                                                                *)
THEOREM StaysInStep == Spec => []LockStep
<1>1. ClientInv => LockStep
  BY DEF ClientInv, LinkInv
<1> QED
  BY <1>1, ProxyClientInvariant, PTL

(* load_log_sample: what it loads has the index it was asked for and is of *)
(* the log it was asked for, whichever pages could not be got before and   *)
(* whoever writes the log anew meanwhile. Only from a get_log_info that    *)
(* raised to the next that answers may it be of another log.               *)
THEOREM LoadsWhatWasAsked == Spec => []SampleOfLog
<1>1. ClientInv => SampleOfLog
  BY DEF ClientInv, ReaderInv
<1> QED
  BY <1>1, ProxyClientInvariant, PTL
=============================================================================
