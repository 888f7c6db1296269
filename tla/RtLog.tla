------------------------------- MODULE RtLog -------------------------------
(***************************************************************************)
(* A session of the log service (rt_system/rt_log_service.cpp): the ring   *)
(* of pages the real-time thread fills and the disk thread writes out,     *)
(* with the calls of the RPC thread that attach and remove the service     *)
(* (rt_service.cpp).  No lock is used between the three.  That a failed    *)
(* start also counts the system down and may delete it (RemoveRtSystem) is *)
(* in RtService: here the session is over by then.                         *)
(*                                                                         *)
(* An entry is its number; a page is a function from its slots to entries. *)
(***************************************************************************)
EXTENDS Naturals, Sequences

CONSTANTS
  NumPages,       \* MAX_PAGE_QUEUE (300)
  PageSize,       \* page_size: entries of a page, and of a file
  DownsampleRate, \* cycles between two entries
  MayFail,        \* a file may fail to be written
  MayRemove,      \* a client may ask for the end of the session
  MaxEntry        \* bound: entries recorded

ASSUME RtLogAssumption ==
  /\ NumPages \in Nat \ {0, 1} /\ PageSize \in Nat \ {0}
  /\ DownsampleRate \in Nat /\ MaxEntry \in Nat
  /\ MayFail \in BOOLEAN /\ MayRemove \in BOOLEAN

Pages == 0..(NumPages - 1)
Slots == 0..(PageSize - 1)
NoPage == NumPages

VARIABLES
  \* M3RtLogService
  pages, is_page_full,
  page,            \* the page being filled, or NoPage for NULL
  entry_idx, page_idx_write, page_idx_read, downsample_cnt,
  deleted,         \* its pages and the service itself are deleted
  \* the real-time thread
  lpc,             \* where in the last part of its cycle it is
  log_service,     \* rt_system has a pointer to the service
  logging,
  rword,           \* the word of is_page_full it has loaded
  \* the disk thread
  dpc,
  p, slot,         \* page being written, and its next slot
  final,           \* it has done WriteEntry(true)
  dword,
  log_thread_active, log_thread_end,
  \* the RPC thread
  apc,
  \* history
  recorded, file,  \* see LogFile
  marked,          \* entries in completed pages
  keptUp,          \* no page was completed before the last one was on disk
  broken           \* a file could not be written, or the ring was overrun

rtVars == <<lpc, log_service, logging, rword>>
ringVars == <<pages, is_page_full, page, entry_idx, page_idx_write,
              page_idx_read, downsample_cnt, deleted>>
diskVars == <<dpc, p, slot, final, dword, log_thread_active, log_thread_end>>
historyVars == <<recorded, file, marked, keptUp, broken>>
vars == <<ringVars, rtVars, diskVars, apc, historyVars>>

TypeOK ==
  /\ pages \in [Pages -> [Slots -> 0..MaxEntry]]
  /\ is_page_full \in [Pages -> BOOLEAN]
  /\ rword \in [Pages -> BOOLEAN] /\ dword \in [Pages -> BOOLEAN]
  /\ page \in Pages \cup {NoPage}
  /\ entry_idx \in 0..PageSize /\ downsample_cnt \in 0..DownsampleRate
  /\ page_idx_write \in Pages /\ page_idx_read \in Pages
  /\ p \in Pages /\ slot \in 0..PageSize
  /\ lpc \in {"cycle", "set", "call", "step", "write", "mark", "store", "next",
              "done", "crashed"}
  /\ dpc \in {"none", "new", "loop", "check", "next", "copy", "mark", "store",
              "final", "exit", "dead"}
  /\ apc \in {"idle", "starting", "attached", "waiting", "joining", "gone",
              "failing", "failed"}
  /\ deleted \in BOOLEAN /\ log_service \in BOOLEAN /\ logging \in BOOLEAN
  /\ final \in BOOLEAN /\ keptUp \in BOOLEAN /\ broken \in BOOLEAN
  /\ log_thread_active \in BOOLEAN /\ log_thread_end \in BOOLEAN
  /\ recorded \in 0..MaxEntry /\ marked \in 0..MaxEntry
  /\ file \in Seq(0..MaxEntry)

(* The constructor; log_thread_end may be left from an earlier session.    *)
Init ==
  /\ pages = [i \in Pages |-> [j \in Slots |-> 0]]
  /\ is_page_full = [i \in Pages |-> FALSE]
  /\ page = NoPage /\ entry_idx = 0 /\ downsample_cnt = 0
  /\ page_idx_write = 0 /\ page_idx_read = 0 /\ deleted = FALSE
  /\ lpc = "cycle" /\ log_service = FALSE /\ logging = FALSE
  /\ rword = is_page_full /\ dword = is_page_full
  /\ dpc = "none" /\ p = 0 /\ slot = 0 /\ final = FALSE
  /\ log_thread_active = FALSE /\ log_thread_end \in BOOLEAN
  /\ apc = "idle"
  /\ recorded = 0 /\ file = <<>> /\ marked = 0 /\ keptUp = TRUE
  /\ broken = FALSE

-----------------------------------------------------------------------------
(* The real-time thread: the end of M3RtSystem::Step, once in each cycle.  *)

TestLogService ==
  /\ lpc = "cycle" /\ log_service /\ recorded < MaxEntry
  /\ lpc' = "set"
  /\ UNCHANGED <<ringVars, log_service, logging, rword, diskVars, apc, historyVars>>

SetLogging ==
  /\ lpc = "set"
  /\ logging' = TRUE /\ lpc' = "call"
  /\ UNCHANGED <<ringVars, log_service, rword, diskVars, apc, historyVars>>

(* The pointer is used again after the test: the build may have kept it or *)
(* may load it once more, and then it can be NULL.                         *)
CallStep ==
  /\ lpc = "call"
  /\ \/ ~deleted /\ lpc' = "step"
     \/ (deleted \/ ~log_service) /\ lpc' = "crashed"
  /\ UNCHANGED <<ringVars, log_service, logging, rword, diskVars, apc, historyVars>>

(* M3RtLogService::Step, up to the entry it records.                       *)
Downsample ==
  /\ lpc = "step" /\ ~deleted /\ downsample_cnt > 0
  /\ downsample_cnt' = downsample_cnt - 1
  /\ lpc' = "done"
  /\ UNCHANGED <<pages, is_page_full, page, entry_idx, page_idx_write,
                 page_idx_read, deleted, log_service, logging, rword, diskVars,
                 apc, historyVars>>

(* The ring is overrun: the page to record into waits to be written, or is *)
(* being written.                                                          *)
PageWaits ==
  \/ page = page_idx_read /\ is_page_full[page]
  \/ page = p /\ dpc = "copy"

RecordEntry ==
  /\ lpc = "step" /\ ~deleted /\ downsample_cnt = 0 /\ page # NoPage
  /\ downsample_cnt' = DownsampleRate
  /\ pages' = [pages EXCEPT ![page][entry_idx] = recorded + 1]
  /\ recorded' = recorded + 1
  /\ broken' = (broken \/ PageWaits)
  /\ entry_idx' = entry_idx + 1
  /\ lpc' = "write"
  /\ UNCHANGED <<is_page_full, page, page_idx_write, page_idx_read, deleted,
                 log_service, logging, rword, diskVars, apc, file, marked, keptUp>>

(* A page or a service that is no longer there.                            *)
Crash ==
  /\ \/ lpc \in {"step", "write", "mark", "store", "next"} /\ deleted
     \/ lpc = "step" /\ downsample_cnt = 0 /\ page = NoPage
  /\ lpc' = "crashed"
  /\ UNCHANGED <<ringVars, log_service, logging, rword, diskVars, apc, historyVars>>

\* Mutant of WriteEntry: a page is complete one entry too early.
WriteEntryEarly ==
  /\ lpc = "write" /\ ~deleted
  /\ IF page = NoPage \/ entry_idx < PageSize - 1
     THEN lpc' = "done" /\ UNCHANGED entry_idx
     ELSE lpc' = "mark" /\ entry_idx' = 0
  /\ UNCHANGED <<pages, is_page_full, page, page_idx_write, page_idx_read,
                 downsample_cnt, deleted, log_service, logging, rword, diskVars,
                 apc, historyVars>>

(* WriteEntry(false)                                                       *)
WriteEntry ==
  /\ lpc = "write" /\ ~deleted
  /\ IF page = NoPage \/ entry_idx < PageSize
     THEN lpc' = "done" /\ UNCHANGED entry_idx
     ELSE lpc' = "mark" /\ entry_idx' = 0
  /\ UNCHANGED <<pages, is_page_full, page, page_idx_write, page_idx_read,
                 downsample_cnt, deleted, log_service, logging, rword, diskVars,
                 apc, historyVars>>

(* MarkPageFull: a bit of a vector<bool> is set by loading and storing its *)
(* word, which the other thread may do to another bit in between.          *)
LoadFull ==
  /\ lpc = "mark" /\ ~deleted
  /\ rword' = is_page_full
  /\ lpc' = "store"
  /\ UNCHANGED <<ringVars, log_service, logging, diskVars, apc, historyVars>>

LastSaved == IF file = <<>> THEN 0 ELSE file[Len(file)]
DiskIdle == dpc \notin {"copy", "mark", "store"} /\ LastSaved = marked

\* Mutant of StoreFull: the page is marked after the index has moved on.
StoreFullNext ==
  /\ lpc = "store" /\ ~deleted
  /\ is_page_full' = [rword EXCEPT ![(page_idx_write + 1) % NumPages] = TRUE]
  /\ marked' = recorded
  /\ keptUp' = (keptUp /\ DiskIdle)
  /\ lpc' = "next"
  /\ UNCHANGED <<pages, page, entry_idx, page_idx_write, page_idx_read,
                 downsample_cnt, deleted, log_service, logging, rword, diskVars,
                 apc, recorded, file, broken>>

StoreFull ==
  /\ lpc = "store" /\ ~deleted
  /\ is_page_full' = [rword EXCEPT ![page_idx_write] = TRUE]
  /\ marked' = recorded
  /\ keptUp' = (keptUp /\ DiskIdle)
  /\ lpc' = "next"
  /\ UNCHANGED <<pages, page, entry_idx, page_idx_write, page_idx_read,
                 downsample_cnt, deleted, log_service, logging, rword, diskVars,
                 apc, recorded, file, broken>>

\* Mutant of GetNextPageToWrite: the wrap is off by one.
GetNextPageToWriteLate ==
  /\ lpc = "next" /\ ~deleted
  /\ page_idx_write' = (page_idx_write + 1) % (NumPages + 1)
  /\ page' = page_idx_write'
  /\ lpc' = "done"
  /\ UNCHANGED <<pages, is_page_full, entry_idx, page_idx_read, downsample_cnt,
                 deleted, log_service, logging, rword, diskVars, apc, historyVars>>

GetNextPageToWrite ==
  /\ lpc = "next" /\ ~deleted
  /\ page_idx_write' = (page_idx_write + 1) % NumPages
  /\ page' = page_idx_write'
  /\ lpc' = "done"
  /\ UNCHANGED <<pages, is_page_full, entry_idx, page_idx_read, downsample_cnt,
                 deleted, log_service, logging, rword, diskVars, apc, historyVars>>

ClearLogging ==
  /\ lpc = "done"
  /\ logging' = FALSE /\ lpc' = "cycle"
  /\ UNCHANGED <<ringVars, log_service, rword, diskVars, apc, historyVars>>

RtThread ==
  \/ TestLogService \/ SetLogging \/ CallStep \/ Downsample \/ RecordEntry
  \/ Crash \/ WriteEntry \/ LoadFull \/ StoreFull \/ GetNextPageToWrite
  \/ ClearLogging

-----------------------------------------------------------------------------
(* The disk thread, log_thread.                                            *)

(* Two stores next to each other, and the RTAI set-up.                     *)
ThreadStart ==
  /\ dpc = "new"
  /\ log_thread_active' = TRUE /\ log_thread_end' = FALSE
  /\ dpc' = "loop"
  /\ UNCHANGED <<ringVars, rtVars, p, slot, final, dword, apc, historyVars>>

\* Mutant of LoopTop: the loop looks at the wrong flag.
LoopTopDeaf ==
  /\ dpc = "loop"
  /\ dpc' = IF log_thread_active THEN "check" ELSE "final"
  /\ UNCHANGED <<ringVars, rtVars, p, slot, final, dword, log_thread_active,
                 log_thread_end, apc, historyVars>>

LoopTop ==
  /\ dpc = "loop"
  /\ dpc' = IF log_thread_end THEN "final" ELSE "check"
  /\ UNCHANGED <<ringVars, rtVars, p, slot, final, dword, log_thread_active,
                 log_thread_end, apc, historyVars>>

(* WritePagesToDisk: false ends the loop, and is ignored the last time.    *)
ReturnTrue == IF final THEN "exit" ELSE "loop"
ReturnFalse == IF final THEN "exit" ELSE "final"

CheckPage ==
  /\ dpc = "check"
  /\ dpc' = IF page = NoPage THEN ReturnFalse ELSE "next"
  /\ UNCHANGED <<ringVars, rtVars, p, slot, final, dword, log_thread_active,
                 log_thread_end, apc, historyVars>>

GetNextPageToRead ==
  /\ dpc = "next"
  /\ IF is_page_full[page_idx_read]
     THEN /\ p' = page_idx_read /\ slot' = 0
          /\ page_idx_read' = (page_idx_read + 1) % NumPages
          /\ dpc' = "copy"
     ELSE dpc' = ReturnTrue /\ UNCHANGED <<p, slot, page_idx_read>>
  /\ UNCHANGED <<pages, is_page_full, page, entry_idx, page_idx_write,
                 downsample_cnt, deleted, rtVars, final, dword,
                 log_thread_active, log_thread_end, apc, historyVars>>

(* SerializeToOstream, one entry at a time; it may fail anywhere.          *)
WriteFile ==
  /\ dpc = "copy"
  /\ \/ /\ slot < PageSize
        /\ file' = Append(file, pages[p][slot])
        /\ slot' = slot + 1 /\ UNCHANGED <<dpc, keptUp, broken>>
     \/ /\ slot = PageSize /\ dpc' = "mark"
        /\ UNCHANGED <<file, slot, keptUp, broken>>
     \/ /\ MayFail /\ dpc' = ReturnFalse
        /\ broken' = TRUE /\ keptUp' = FALSE
        /\ UNCHANGED <<file, slot>>
  /\ UNCHANGED <<ringVars, rtVars, p, final, dword, log_thread_active,
                 log_thread_end, apc, recorded, marked>>

(* MarkPageEmpty; page_idx_read has moved on to the next page by now.      *)
LoadEmpty ==
  /\ dpc = "mark"
  /\ dword' = is_page_full
  /\ dpc' = "store"
  /\ UNCHANGED <<ringVars, rtVars, p, slot, final, log_thread_active,
                 log_thread_end, apc, historyVars>>

\* Mutant of StoreEmpty: the bit is never cleared.
StoreEmptyNot ==
  /\ dpc = "store"
  /\ is_page_full' = dword
  /\ dpc' = "next"
  /\ UNCHANGED <<pages, page, entry_idx, page_idx_write, page_idx_read,
                 downsample_cnt, deleted, rtVars, p, slot, final, dword,
                 log_thread_active, log_thread_end, apc, historyVars>>

StoreEmpty ==
  /\ dpc = "store"
  /\ is_page_full' = [dword EXCEPT ![page_idx_read] = FALSE]
  /\ dpc' = "next"
  /\ UNCHANGED <<pages, page, entry_idx, page_idx_write, page_idx_read,
                 downsample_cnt, deleted, rtVars, p, slot, final, dword,
                 log_thread_active, log_thread_end, apc, historyVars>>

(* WriteEntry(true): whatever the page holds, it is given up.              *)
WriteFinal ==
  /\ dpc = "final"
  /\ page' = NoPage /\ final' = TRUE /\ dpc' = "check"
  /\ UNCHANGED <<pages, is_page_full, entry_idx, page_idx_write, page_idx_read,
                 downsample_cnt, deleted, rtVars, p, slot, dword,
                 log_thread_active, log_thread_end, apc, historyVars>>

ThreadExit ==
  /\ dpc = "exit"
  /\ log_thread_active' = FALSE /\ dpc' = "dead"
  /\ UNCHANGED <<ringVars, rtVars, p, slot, final, dword, log_thread_end, apc,
                 historyVars>>

DiskThread ==
  \/ ThreadStart \/ LoopTop \/ CheckPage \/ GetNextPageToRead \/ WriteFile
  \/ LoadEmpty \/ StoreEmpty \/ WriteFinal \/ ThreadExit

-----------------------------------------------------------------------------
(* The RPC thread.                                                         *)

(* AttachLogService up to the sleep of Startup.                            *)
Startup ==
  /\ apc = "idle"
  /\ page' = 0 /\ dpc' = "new" /\ apc' = "starting"
  /\ UNCHANGED <<pages, is_page_full, entry_idx, page_idx_write, page_idx_read,
                 downsample_cnt, deleted, rtVars, p, slot, final, dword,
                 log_thread_active, log_thread_end, historyVars>>

(* After the sleep: a thread that has not shown itself is a failure, and   *)
(* the service is shut down.                                               *)
AttachLogService ==
  /\ apc = "starting"
  /\ IF log_thread_active
     THEN log_service' = TRUE /\ apc' = "attached" /\ UNCHANGED log_thread_end
     ELSE log_thread_end' = TRUE /\ apc' = "failing" /\ UNCHANGED log_service
  /\ UNCHANGED <<ringVars, lpc, logging, rword, dpc, p, slot, final, dword,
                 log_thread_active, historyVars>>

RemoveLogService ==
  /\ apc = "attached" /\ MayRemove
  /\ log_service' = FALSE /\ apc' = "waiting"
  /\ UNCHANGED <<ringVars, lpc, logging, rword, diskVars, historyVars>>

(* while (logging); and the first half of Shutdown.                        *)
WaitLogging ==
  /\ apc = "waiting" /\ ~logging
  /\ log_thread_end' = TRUE /\ apc' = "joining"
  /\ UNCHANGED <<ringVars, rtVars, dpc, p, slot, final, dword,
                 log_thread_active, historyVars>>

(* The join, the rest of Shutdown and the delete that follows it; after a  *)
(* failed start RemoveRtSystem comes next, see RtService.                  *)
Join ==
  /\ dpc = "dead"
  /\ \/ apc = "joining" /\ apc' = "gone"
     \/ apc = "failing" /\ apc' = "failed"
  /\ page' = NoPage /\ deleted' = TRUE
  /\ UNCHANGED <<pages, is_page_full, entry_idx, page_idx_write, page_idx_read,
                 downsample_cnt, rtVars, diskVars, historyVars>>

RpcThread ==
  Startup \/ AttachLogService \/ RemoveLogService \/ WaitLogging \/ Join

-----------------------------------------------------------------------------
(* A crash of the real-time thread is the end of the process.              *)
Next == lpc # "crashed" /\ (RtThread \/ DiskThread \/ RpcThread)

Spec == Init /\ [][Next]_vars
(* The threads run; clients promise nothing.                               *)
Fairness ==
  /\ WF_vars(lpc # "crashed" /\ RtThread)
  /\ WF_vars(lpc # "crashed" /\ DiskThread)
  /\ WF_vars(lpc # "crashed" /\ (WaitLogging \/ Join))
FairSpec == Spec /\ Fairness

-----------------------------------------------------------------------------
(* The files hold recorded entries, each at most once and in order, also   *)
(* when the ring is overrun while a page is being written.                 *)
Log == INSTANCE LogFile
OrderedLog == Log!Spec

(* As long as a page is on disk before the next one is complete, nothing   *)
(* is missing from the files.                                              *)
NoGap == keptUp => \A i \in 1..Len(file) : file[i] = i

(* ... and the disk thread goes to sleep only when every complete page is  *)
(* on disk.                                                                *)
KeptUpWritten ==
  [][keptUp /\ dpc = "next" /\ dpc' = "loop" => LastSaved = marked]_vars

(* A removal returns, wherever the cycle and the disk thread were.         *)
RemovalReturns == (apc = "waiting") ~> (apc = "gone" \/ lpc = "crashed")
=============================================================================
