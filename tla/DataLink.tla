------------------------------ MODULE DataLink ------------------------------
(***************************************************************************)
(* The data link of one client: M3RtProxy.step sends a command over the    *)
(* socket and waits for the status that answers it (rt_proxy.py), and the  *)
(* data service's thread reads, applies and answers (rt_data_service.cpp,  *)
(* simple_server.cpp). Nothing in a status says which command it answers.  *)
(*                                                                         *)
(* A command and its status carry here the number of the step. A status    *)
(* travels as three pieces: its length and the two parts of its body.      *)
(***************************************************************************)
EXTENDS Naturals, Sequences, FiniteSets

CONSTANTS Comps,     \* the components of the system
          MaxSteps,  \* bound: commands sent
          MaxFit,    \* published components whose command fits into MAX_STRING_SIZE
          MayDie     \* the data service's thread may end

ASSUME LinkAssumption == {MaxSteps, MaxFit} \subseteq Nat /\ MayDie \in BOOLEAN

VARIABLES
  \* the client
  cpc,         \* what it does
  k, got,      \* commands sent; the step whose status it has parsed last
  subscribed, published,
  due, sent,   \* subscribed to on a running data service, and published, when the
               \* last command was sent
  early,       \* subscribed to before there was a data service
  status,      \* the step whose status each component has
  chunk,       \* __do_receive has received something
  raised,      \* history: a receive has ended with an exception
  \* the socket
  up, down,
  \* the data service
  spc, cur, part,
  status_names,
  cmd          \* the step whose command each component has

linkClient == <<cpc, k, got, subscribed, published, due, sent, early, status, chunk, raised>>
linkServer == <<spc, cur, part, status_names, cmd>>
linkVars == <<linkClient, up, down, linkServer>>

Steps == 0..MaxSteps
Commands == [n : Steps, of : SUBSET Comps]
Pieces == [n : Steps, names : SUBSET Comps, part : 0..2]

LinkTypeOK ==
  /\ cpc \in {"new", "loop", "length", "body", "lost", "closed"}
  /\ {k, got} \subseteq Steps
  /\ {subscribed, published, due, sent, early, status_names} \subseteq SUBSET Comps
  /\ {status, cmd} \subseteq [Comps -> Steps]
  /\ {chunk, raised} \subseteq BOOLEAN
  /\ up \in Seq(Commands) /\ down \in Seq(Pieces)
  /\ spc \in {"none", "read", "parse", "write", "dead"}
  /\ cur \in Commands /\ part \in 0..2

LinkInit ==
  /\ cpc = "new" /\ k = 0 /\ got = 0 /\ chunk = FALSE /\ raised = FALSE
  /\ subscribed = {} /\ published = {} /\ due = {} /\ sent = {} /\ early = {}
  /\ status = [c \in Comps |-> 0]
  /\ up = <<>> /\ down = <<>>
  /\ spc = "none" /\ cur = [n |-> 0, of |-> {}] /\ part = 0
  /\ status_names = {} /\ cmd = status

(***************************************************************************)
(* The client, between two steps. A subscription made before start() goes  *)
(* to a port without a data service of this client's, and nobody looks at  *)
(* the answer.                                                             *)
(***************************************************************************)
subscribe_status(c) ==
  /\ cpc \in {"new", "loop"} /\ c \notin subscribed
  /\ subscribed' = subscribed \cup {c}
  /\ early' = IF cpc = "new" THEN early \cup {c} ELSE early
  /\ status_names' = IF cpc = "new" THEN status_names ELSE status_names \cup {c}
  /\ UNCHANGED <<cpc, k, got, published, due, sent, status, chunk, raised, up, down, spc, cur, part, cmd>>

publish(c) ==
  /\ cpc \in {"new", "loop"} /\ c \notin published
  /\ published' = published \cup {c}
  /\ UNCHANGED <<cpc, k, got, subscribed, due, sent, early, status, chunk, raised, up, down, linkServer>>

start_data_service ==
  /\ cpc = "new" /\ cpc' = "loop" /\ spc' = "read"
  /\ UNCHANGED <<k, got, subscribed, published, due, sent, early, status, chunk, raised, up, down,
                 cur, part, status_names, cmd>>

stop_data_service ==
  /\ cpc = "loop" /\ cpc' = "closed" /\ spc' = "none"
  /\ up' = <<>> /\ down' = <<>>
  /\ UNCHANGED <<k, got, subscribed, published, due, sent, early, status, chunk, raised,
                 cur, part, status_names, cmd>>

(***************************************************************************)
(* step(): __send_command and __recv_status.                               *)
(***************************************************************************)
send_command ==
  /\ cpc = "loop" /\ k < MaxSteps
  /\ k' = k + 1
  /\ due' = subscribed \ early /\ sent' = published
  /\ up' = Append(up, [n |-> k', of |-> published])
  /\ cpc' = "length" /\ chunk' = FALSE
  /\ UNCHANGED <<got, subscribed, published, early, status, raised, down, linkServer>>

Received(to) ==
  /\ cpc' = to /\ down' = Tail(down)
  /\ UNCHANGED <<k, subscribed, published, due, sent, early, raised, up, linkServer>>

\* Four bytes are taken for a length, whatever they are: out of step they are
\* bytes of a body, and a length that more has to be waited for than will come.
recv_length ==
  /\ cpc = "length" /\ down # <<>>
  /\ Received(IF Head(down).part = 0 THEN "body" ELSE "lost")
  /\ chunk' = FALSE
  /\ UNCHANGED <<got, status>>

recv_body ==
  /\ cpc \in {"body", "lost"} /\ down # <<>>
  /\ chunk' = TRUE
  /\ IF cpc = "body" /\ Head(down).part = 2
       THEN /\ Received("loop")
            /\ got' = Head(down).n
            /\ status' = [c \in Comps |-> IF c \in subscribed \cap Head(down).names
                                            THEN got' ELSE status[c]]
       ELSE Received(cpc) /\ UNCHANGED <<got, status>>

\* "Proxy socket connection broken": nothing within two seconds. Once a chunk
\* has been received its variable stays as it is, and the receive goes on for
\* four seconds in all; what it then returns is no message.
Raise ==
  /\ cpc \in {"length", "body", "lost"}
  /\ cpc' = "loop" /\ raised' = TRUE
  /\ UNCHANGED <<k, got, subscribed, published, due, sent, early, status, chunk, up, down, linkServer>>
ChunkTimeoutSilent ==
  /\ down = <<>> /\ ~chunk /\ cpc \in {"length", "body", "lost"} /\ cpc' = "loop"
  /\ UNCHANGED <<k, got, subscribed, published, due, sent, early, status, chunk, raised, up, down, linkServer>>
ChunkTimeout == down = <<>> /\ ~chunk /\ Raise
TotalTimeout == chunk /\ Raise

ReceiveForever == recv_length \/ recv_body
Receive == recv_length \/ recv_body \/ ChunkTimeout \/ TotalTimeout
step == send_command \/ Receive

(***************************************************************************)
(* The data service's thread.                                              *)
(***************************************************************************)
\* A command of more than MAX_STRING_SIZE bytes ends the thread; the socket
\* stays open.
ReadStringFromPort ==
  /\ spc = "read" /\ up # <<>>
  /\ up' = Tail(up)
  /\ cur' = Head(up)
  /\ spc' = IF Cardinality(cur'.of) > MaxFit THEN "dead" ELSE "parse"
  /\ UNCHANGED <<linkClient, down, part, status_names, cmd>>

\* Under ext_sem: the command is given to its components, and the status of
\* the subscribed ones is serialized.
ParseAndSerialize ==
  /\ spc = "parse" /\ spc' = "write" /\ part' = 0
  /\ cmd' = [c \in Comps |-> IF c \in cur.of THEN cur.n ELSE cmd[c]]
  /\ cur' = [cur EXCEPT !.of = status_names]
  /\ UNCHANGED <<linkClient, up, down, status_names>>

WriteStringToPortPast ==
  /\ spc = "write"
  /\ down' = Append(down, [n |-> cur.n, names |-> cur.of, part |-> part])
  /\ part' = part + 1
  /\ spc' = IF part = 2 THEN "read" ELSE "write"
  /\ UNCHANGED <<linkClient, up, cur, status_names, cmd>>
WriteStringToPort ==
  /\ spc = "write"
  /\ down' = Append(down, [n |-> cur.n, names |-> cur.of, part |-> part])
  /\ part' = (part + 1) % 3
  /\ spc' = IF part = 2 THEN "read" ELSE "write"
  /\ UNCHANGED <<linkClient, up, cur, status_names, cmd>>

\* The socket takes nothing within a second: 0 is no error, and the request
\* stays without an answer.
NotWritable ==
  /\ spc = "write" /\ part = 0 /\ spc' = "read"
  /\ UNCHANGED <<linkClient, up, down, cur, part, status_names, cmd>>

DataThreadDies ==
  /\ MayDie /\ spc \in {"read", "write"} /\ spc' = "dead"
  /\ UNCHANGED <<linkClient, up, down, cur, part, status_names, cmd>>

DataThread ==
  \/ ReadStringFromPort \/ ParseAndSerialize \/ WriteStringToPort \/ NotWritable
  \/ DataThreadDies

LinkNext ==
  \/ \E c \in Comps : subscribe_status(c) \/ publish(c)
  \/ start_data_service \/ stop_data_service \/ step \/ DataThread

(***************************************************************************)
(* Properties.                                                             *)
(***************************************************************************)
\* A step that returns has the status that answers its own command, for every
\* component subscribed to on the running service, and the components it
\* publishes have that command: as long as no step has raised. After one that
\* has, the answer it gave up on may still come and be taken for the next.
LockStep ==
  (cpc = "loop" /\ ~raised) =>
    /\ got = k
    /\ \A c \in due : status[c] = k
    /\ \A c \in sent : cmd[c] = k

\* Every step ends, with a status or an exception, whatever happens to the
\* data service.
StepEnds == (cpc = "length") ~> (cpc = "loop")
=============================================================================
