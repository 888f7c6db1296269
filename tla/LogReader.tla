----------------------------- MODULE LogReader -----------------------------
(***************************************************************************)
(* Reading logs through the proxy (rt_proxy.py): load_log_sample searches  *)
(* the pages of a log for a sample and loads it into the registered        *)
(* components. What it knows of the pages comes from one call to the       *)
(* server and the pages from others, and any client may start the same log *)
(* anew meanwhile (start_log_service of m3rt_server.py).                   *)
(*                                                                         *)
(* A page is a record of the first and last index in its file name; an     *)
(* entry its log and index, for its data is what was recorded there.       *)
(***************************************************************************)
EXTENDS Naturals, Sequences, FiniteSets

CONSTANTS Logs,          \* names of logs
          LogComps,      \* components that can be registered
          PageSizes,     \* samples_per_file of the sessions
          MaxIdx,        \* bound: indices of the samples of a log
          MaxSessions,   \* bound: sessions started
          PathIsList,    \* get_m3_log_path of the server's toolbox returns a list, as this
                         \* toolbox does; the server is another machine and may have an older one
          CallsMayFail,  \* a call to the server may raise at any time: the server or the way to it fails
          NoLog

ASSUME ReaderAssumption ==
  /\ NoLog \notin Logs /\ PageSizes \subseteq Nat \ {0} /\ {MaxIdx, MaxSessions} \subseteq Nat
  /\ {PathIsList, CallsMayFail} \subseteq BOOLEAN

VARIABLES
  \* the log directories on the server
  dir,            \* the pages of each log, in the order of their names
  logging_to,     \* [log, page_size] of the session that is going on
  sessions,
  \* the client
  logname, log_info, log_file_idx, log_start_idx, log_end_idx, log_page,
  info_log,       \* the log whose files log_info names
  unanswered,     \* get_log_info has raised when it was called last
  rpc,            \* the call in progress: what it does next
  asked,          \* its log and its index
  result          \* what it has returned

serverLog == <<dir, logging_to, sessions>>
loaded == <<logname, log_info, log_file_idx, log_start_idx, log_end_idx, log_page,
            info_log, unanswered>>
logVars == <<serverLog, loaded, rpc, asked, result>>

Idx == 0..MaxIdx
PagesOf == [start_idx : Idx, end_idx : Idx]
Entries == [log : Logs, idx : Idx]
Nothing == [log |-> NoLog, idx |-> 0]   \* no page size, index or entry

ReaderTypeOK ==
  /\ dir \in [Logs -> Seq(PagesOf)]
  /\ logging_to \in [log : Logs \cup {NoLog}, idx : PageSizes \cup {0}]
  /\ sessions \in 0..MaxSessions
  /\ {logname, info_log} \subseteq Logs \cup {NoLog} /\ unanswered \in BOOLEAN
  /\ log_info \in Seq(PagesOf)
  /\ {log_file_idx, log_start_idx, log_end_idx} \subseteq Idx
  /\ log_page \in Seq(Entries)
  /\ rpc \in {"idle", "info", "first", "sample", "page", "entry"}
  /\ asked \in Entries \cup {Nothing}
  /\ result \in Entries \cup {Nothing}

ReaderInit ==
  /\ dir = [l \in Logs |-> <<>>] /\ logging_to = Nothing /\ sessions = 0
  /\ logname = NoLog /\ info_log = NoLog /\ unanswered = FALSE /\ log_info = <<>> /\ log_page = <<>>
  /\ log_file_idx = 0 /\ log_start_idx = 0 /\ log_end_idx = 0
  /\ rpc = "idle" /\ asked = Nothing /\ result = Nothing

(***************************************************************************)
(* The server.                                                             *)
(***************************************************************************)
\* make_log_dir empties the directory before anybody asks whether there is
\* something to log: without components there is no session, and no old log.
start_log_service(l, components, page_size) ==
  /\ logging_to = Nothing /\ sessions < MaxSessions
  /\ dir' = [dir EXCEPT ![l] = <<>>]
  /\ sessions' = sessions + 1
  /\ logging_to' = IF components = {} THEN Nothing ELSE [log |-> l, idx |-> page_size]
  /\ UNCHANGED <<loaded, rpc, asked, result>>

\* The log thread completes a page; it may have lost the one before.
LogPage ==
  LET l == logging_to.log
      next == IF dir[l] = <<>> THEN 0 ELSE dir[l][Len(dir[l])].end_idx + 1
  IN
  /\ logging_to # Nothing
  /\ \E first \in {next, next + logging_to.idx} :
       /\ first + logging_to.idx - 1 <= MaxIdx
       /\ dir' = [dir EXCEPT ![l] = Append(@, [start_idx |-> first, end_idx |-> first + logging_to.idx - 1])]
  /\ UNCHANGED <<logging_to, sessions, loaded, rpc, asked, result>>

stop_log_service ==
  /\ logging_to # Nothing /\ logging_to' = Nothing
  /\ UNCHANGED <<dir, sessions, loaded, rpc, asked, result>>

(***************************************************************************)
(* load_log_sample.                                                        *)
(***************************************************************************)
Do(next) == rpc' = next /\ UNCHANGED <<serverLog, asked>>
Return(what) == Do("idle") /\ result' = what

load_log_sampleCached(l, idx) ==
  /\ rpc = "idle"
  /\ asked' = [log |-> l, idx |-> idx]
  /\ result' = Nothing
  /\ rpc' = IF logname = NoLog THEN "info" ELSE "sample"
  /\ UNCHANGED <<serverLog, loaded>>
load_log_sample(l, idx) ==
  /\ rpc = "idle"
  /\ asked' = [log |-> l, idx |-> idx]
  /\ result' = Nothing
  /\ rpc' = IF logname # l THEN "info" ELSE "sample"
  /\ UNCHANGED <<serverLog, loaded>>

\* _load_log: the name is taken over before the server is asked. The call raises
\* when the server or the way to it fails, and always where a list is no directory.
InfoRaises ==
  /\ rpc = "info" /\ (PathIsList \/ CallsMayFail)
  /\ logname' = asked.log /\ unanswered' = TRUE /\ Return(Nothing)
  /\ UNCHANGED <<log_info, info_log, log_file_idx, log_start_idx, log_end_idx, log_page>>

\* Where there is no such log the bounds and the page of the one before stay, and
\* load_log_sample returns and loads nothing.
get_log_info ==
  /\ rpc = "info" /\ ~PathIsList
  /\ logname' = asked.log /\ unanswered' = FALSE
  /\ log_info' = dir[asked.log] /\ info_log' = asked.log
  /\ IF log_info' = <<>>
       THEN Return(Nothing) /\ UNCHANGED <<log_file_idx, log_start_idx, log_end_idx, log_page>>
       ELSE /\ log_file_idx' = 0
            /\ log_start_idx' = log_info'[1].start_idx /\ log_end_idx' = log_info'[1].end_idx
            /\ log_page' = <<>> /\ Do("first") /\ UNCHANGED result

\* The file by the path it had. When it is gone the answer '' has no .data, and
\* any call may fail: the page is empty then.
get_log_file(i, next) ==
  LET page == log_info[i + 1]
      there == \E j \in 1..Len(dir[info_log]) : dir[info_log][j] = page
  IN
  \/ /\ there
     /\ log_page' = [n \in 1..(page.end_idx - page.start_idx + 1) |->
                       [log |-> info_log, idx |-> page.start_idx + n - 1]]
     /\ Do(next) /\ UNCHANGED result
  \/ (~there \/ CallsMayFail) /\ Return(Nothing) /\ log_page' = <<>>

FirstPage ==
  /\ rpc = "first" /\ get_log_file(0, "sample")
  /\ UNCHANGED <<logname, log_info, info_log, unanswered, log_file_idx, log_start_idx, log_end_idx>>

\* The page with the sample, searched from the one after the current, around
\* to it; without one an exception, as with no pages at all.
InPage ==
  /\ rpc = "sample" /\ asked.idx \in log_start_idx..log_end_idx
  /\ Do("entry") /\ UNCHANGED <<loaded, result>>
Holds(i) == asked.idx \in log_info[i + 1].start_idx..log_info[i + 1].end_idx
SearchPage ==
  /\ rpc = "sample" /\ asked.idx \notin log_start_idx..log_end_idx
  /\ LET num == Len(log_info)
         found == {d \in 1..num : Holds((log_file_idx + d) % num)}
         nearest == CHOOSE d \in found : \A e \in found : d <= e
     IN IF found = {}
          THEN Return(Nothing) /\ UNCHANGED loaded
          ELSE /\ log_file_idx' = (log_file_idx + nearest) % num
               /\ log_start_idx' = log_info[log_file_idx' + 1].start_idx
               /\ log_end_idx' = log_info[log_file_idx' + 1].end_idx
               /\ log_page' = <<>>
               /\ Do("page") /\ UNCHANGED <<logname, log_info, info_log, unanswered, result>>
LoadPage ==
  /\ rpc = "page" /\ get_log_file(log_file_idx, "entry")
  /\ UNCHANGED <<logname, log_info, info_log, unanswered, log_file_idx, log_start_idx, log_end_idx>>

\* The entry by its distance from the page's first; beyond the pages or the
\* page an IndexError.
LoadEntry ==
  /\ rpc = "entry"
  /\ LET here == log_file_idx < Len(log_info)
         entry_idx == asked.idx - log_info[log_file_idx + 1].start_idx
     IN IF here /\ entry_idx < Len(log_page)
          THEN Return(log_page[entry_idx + 1]) ELSE Return(Nothing)
  /\ UNCHANGED loaded

Reader ==
  \/ \E l \in Logs, idx \in Idx : load_log_sample(l, idx)
  \/ InfoRaises \/ get_log_info \/ FirstPage \/ InPage \/ SearchPage \/ LoadPage \/ LoadEntry

LogServer ==
  \/ \E l \in Logs, components \in SUBSET LogComps, size \in PageSizes :
       start_log_service(l, components, size)
  \/ LogPage \/ stop_log_service

(***************************************************************************)
(* Properties.                                                             *)
(***************************************************************************)
\* A sample that is loaded has the index that was asked for and is of the log that
\* was asked for, whatever was loaded before, whichever pages could not be got and
\* however often the logs were written anew in between. Only after a get_log_info
\* that raised, until one answers, may it be of another log: the proxy has the
\* name by then and what it knew of the log before.
SampleOfLog ==
  (rpc = "idle" /\ result # Nothing) =>
    result.idx = asked.idx /\ (result.log = asked.log \/ unanswered)

\* load_log_sample loads the sample it is asked for, if a page of the log has it:
\* what its docstring says, once nobody writes the log anew and no call fails.
LoadsWhatIsThere ==
  [][(rpc # "idle" /\ rpc' = "idle" /\ result' = Nothing) =>
       ~\E j \in DOMAIN dir[asked.log] :
          asked.idx \in dir[asked.log][j].start_idx..dir[asked.log][j].end_idx]_logVars
=============================================================================
