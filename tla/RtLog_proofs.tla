---------------------------- MODULE RtLog_proofs ----------------------------
(***************************************************************************)
(* Theorems about a session of the log service, for any number of pages,   *)
(* any page size and any number of entries: what the files hold, whichever *)
(* of the three threads goes on.                                           *)
(***************************************************************************)
EXTENDS RtLog, SequenceTheorems, TLAPS

(***************************************************************************)
(* The ring.                                                               *)
(***************************************************************************)
Following(i) == (i + 1) % NumPages

\* The page that is being filled, once the one before is marked as full.
Filling == IF lpc = "next" THEN Following(page_idx_write) ELSE page_idx_write

\* The entries recorded into the page that is not yet marked as full.
InPage == IF lpc \in {"mark", "store"} THEN PageSize ELSE entry_idx

\* A page that holds what it held when it was completed last, or nothing yet.
Whole(i) == i # Filling \/ InPage = 0

Zero(i) == \A j \in Slots : pages[i][j] = 0
Rising(i) == \A j \in Slots, m \in Slots : j < m => pages[i][j] < pages[i][m]
Newer(i, h) == \A j \in Slots, m \in Slots : pages[h][m] < pages[i][j]
Fresh(i) == \A j \in Slots : LastSaved < pages[i][j]

(***************************************************************************)
(* The inductive invariants.                                               *)
(***************************************************************************)
\* Where the real-time thread is and what it has counted.
Counted ==
  /\ apc = "idle" => ~log_service /\ lpc = "cycle" /\ entry_idx = 0 /\ page_idx_write = 0 /\ dpc = "none"
  /\ page \in {page_idx_write, NoPage}
  /\ lpc \in {"set", "call", "step"} => recorded < MaxEntry
  /\ lpc \in {"cycle", "set", "call", "step", "done"} /\ page # NoPage => entry_idx < PageSize
  /\ lpc = "write" => entry_idx > 0
  /\ lpc \in {"mark", "store", "next"} => entry_idx = 0
  /\ recorded = marked + InPage

\* What the pages hold: the entries since the last full page, and older ones.
Recorded ==
  \A i \in Pages, j \in Slots :
    IF i = page_idx_write /\ j < InPage THEN pages[i][j] = marked + j + 1 ELSE pages[i][j] <= marked

\* Round the ring every page is newer than the one before it, from the one
\* being filled on.
RingOrder ==
  \A i \in Pages :
    Whole(i) => \/ Zero(i)
                \/ Rising(i) /\ (Following(i) = Filling \/ Newer(Following(i), i))

\* A bit that is set is of a page that has been full, also in the words the
\* threads have loaded; between a load and its store the other thread sets bits
\* and the disk thread clears them, never the other way round.
Bits ==
  /\ \A i \in Pages : is_page_full[i] \/ rword[i] \/ dword[i] => \A j \in Slots : pages[i][j] > 0
  /\ dpc = "copy" => \A j \in Slots : pages[p][j] > 0
  /\ lpc = "store" => \A i \in Pages : is_page_full[i] => rword[i]
  /\ dpc = "store" => \A i \in Pages : dword[i] => is_page_full[i]

\* As long as nothing is broken the page that is read next is newer than what is
\* on disk, or it is being filled and its bit is not set.
Busy == {"copy", "mark", "store"}
InOrder ==
  ~broken =>
    /\ LastSaved <= marked
    /\ dpc \notin Busy =>
         /\ Fresh(page_idx_read) \/ (page_idx_read = Filling /\ ~is_page_full[page_idx_read])
         /\ Whole(page_idx_read) \/ ~is_page_full[page_idx_read]
    /\ dpc = "copy" =>
         /\ Whole(p)
         /\ \A j \in Slots : slot <= j => LastSaved < pages[p][j]
         /\ \E j \in Slots : LastSaved <= pages[p][j]
         /\ page_idx_read = Filling \/ Newer(page_idx_read, p)
    /\ dpc \in {"mark", "store"} => page_idx_read = Filling \/ Fresh(page_idx_read)

\* While the disk keeps up, what is on disk is everything, or everything but the
\* page that is waiting or being written.
Holds(i) == Following(i) = Filling /\ \A j \in Slots : pages[i][j] + PageSize = marked + j + 1
KeepsUp ==
  keptUp =>
    \/ /\ Len(file) = marked /\ page_idx_read = Filling
       /\ dpc \in {"mark", "store"} \/ (dpc # "copy" /\ ~is_page_full[page_idx_read])
    \/ /\ Len(file) + PageSize = marked /\ dpc \notin Busy
       /\ Holds(page_idx_read) /\ is_page_full[page_idx_read]
    \/ /\ Len(file) + PageSize = marked + slot /\ dpc = "copy"
       /\ Holds(p) /\ page_idx_read = Filling

LogInv ==
  /\ TypeOK /\ NoGap
  /\ lpc # "crashed" => Counted /\ Recorded /\ RingOrder /\ Bits /\ InOrder /\ KeepsUp

(***************************************************************************)
(* The ring of pages and the sequence of entries on disk.                  *)
(***************************************************************************)
(* The page after a page is another one, and no two have the same.         *)
LEMMA RingNext ==
  ASSUME NEW i \in Pages
  PROVE  /\ Following(i) \in Pages /\ Following(i) # i
         /\ \A h \in Pages : Following(h) = Following(i) => h = i
<1>0. NumPages \in Nat \ {0, 1}
  BY RtLogAssumption
<1>1. ASSUME NEW h \in Pages
      PROVE  Following(h) = IF h = NumPages - 1 THEN 0 ELSE h + 1
  <2>1. h \in 0..(NumPages - 1)
    BY DEF Pages
  <2>2. CASE h = NumPages - 1
    <3>1. NumPages % NumPages = 0
      BY <1>0
    <3> QED
      BY <2>2, <3>1, <1>0 DEF Following
  <2>3. CASE h # NumPages - 1
    <3>1. h + 1 \in 0..(NumPages - 1)
      BY <2>1, <2>3, <1>0
    <3>2. (h + 1) % NumPages = h + 1
      BY <3>1, <1>0
    <3> QED
      BY <2>3, <3>2 DEF Following
  <2> QED
    BY <2>2, <2>3
<1>2. \A h \in Pages : Following(h) \in Pages /\ Following(h) # h
  BY <1>0, <1>1 DEF Pages
<1>3. ASSUME NEW h \in Pages, Following(h) = Following(i)  PROVE h = i
  BY <1>0, <1>1, <1>3 DEF Pages
<1> QED
  BY <1>2, <1>3

(* A file that gets one more entry.                                        *)
LEMMA Appended ==
  ASSUME NEW S, NEW s \in Seq(S), NEW e \in S
  PROVE  /\ Append(s, e) \in Seq(S) /\ Len(Append(s, e)) = Len(s) + 1 /\ Len(s) \in Nat
         /\ \A j \in 1..Len(s) : Append(s, e)[j] = s[j]
         /\ Append(s, e)[Len(s) + 1] = e
         /\ Append(s, e) # <<>>
  BY AppendProperties, LenProperties

(***************************************************************************)
(* The types.                                                              *)
(***************************************************************************)
(* What the proofs use of the constants.                                   *)
LEMMA LogConstants ==
  /\ NumPages \in Nat /\ NumPages > 1 /\ PageSize \in Nat /\ PageSize > 0
  /\ DownsampleRate \in Nat /\ MaxEntry \in Nat
  /\ 0 \in Pages /\ NoPage \notin Pages /\ Slots \subseteq Nat /\ Pages \subseteq Nat
  /\ \A j : j \in Slots <=> j \in Nat /\ j < PageSize
  BY RtLogAssumption DEF Pages, Slots, NoPage

(* The real-time thread keeps the types.                                   *)
LEMMA RtTypes ==
  ASSUME TypeOK, Counted, lpc # "crashed", RtThread
  PROVE  TypeOK'
<1>0. /\ NumPages \in Nat /\ PageSize \in Nat /\ DownsampleRate \in Nat /\ MaxEntry \in Nat
      /\ NoPage \notin Pages
  BY LogConstants
<1> USE DEF TypeOK, diskVars, historyVars
<1>1. CASE TestLogService
  BY <1>1 DEF TestLogService, ringVars
<1>2. CASE SetLogging
  BY <1>2 DEF SetLogging, ringVars
<1>3. CASE CallStep
  BY <1>3 DEF CallStep, ringVars
<1>4. CASE Downsample
  BY <1>0, <1>4 DEF Downsample
<1>5. CASE RecordEntry
  <2>1. /\ recorded + 1 \in 0..MaxEntry /\ entry_idx \in Slots /\ entry_idx + 1 \in 0..PageSize
        /\ DownsampleRate \in 0..DownsampleRate
    BY <1>0, <1>5 DEF RecordEntry, Counted, Slots
  <2>2. page \in Pages
    BY <1>5 DEF RecordEntry
  <2>3. pages' \in [Pages -> [Slots -> 0..MaxEntry]]
    BY <2>1, <2>2, <1>5 DEF RecordEntry
  <2>4. broken' \in BOOLEAN
    BY <1>5 DEF RecordEntry, PageWaits
  <2> QED
    BY <2>1, <2>3, <2>4, <1>5 DEF RecordEntry
<1>6. CASE Crash
  BY <1>6 DEF Crash, ringVars
<1>7. CASE WriteEntry
  BY <1>0, <1>7 DEF WriteEntry
<1>8. CASE LoadFull
  BY <1>8 DEF LoadFull, ringVars
<1>9. CASE StoreFull
  <2>1. is_page_full' \in [Pages -> BOOLEAN] /\ keptUp' \in BOOLEAN
    BY <1>9 DEF StoreFull, DiskIdle
  <2> QED
    BY <2>1, <1>9 DEF StoreFull
<1>10. CASE GetNextPageToWrite
  <2>1. Following(page_idx_write) \in Pages
    BY RingNext
  <2> QED
    BY <2>1, <1>10 DEF GetNextPageToWrite, Following
<1>11. CASE ClearLogging
  <2>1. logging' \in BOOLEAN /\ lpc' = "cycle" /\ UNCHANGED <<ringVars, log_service, rword, diskVars, apc, historyVars>>
    BY <1>11 DEF ClearLogging
  <2> QED
    BY <2>1 DEF ringVars
<1> QED
  BY <1>1, <1>2, <1>3, <1>4, <1>5, <1>6, <1>7, <1>8, <1>9, <1>10, <1>11 DEF RtThread

(* So do the disk thread and the RPC thread.                               *)
LEMMA DiskTypes ==
  ASSUME TypeOK, DiskThread \/ RpcThread
  PROVE  TypeOK'
<1>0. PageSize \in Nat /\ MaxEntry \in Nat /\ 0 \in Pages
  BY LogConstants
<1> USE DEF TypeOK, rtVars, historyVars
<1>1. CASE ThreadStart
  <2>1. /\ log_thread_active' \in BOOLEAN /\ log_thread_end' \in BOOLEAN /\ dpc' = "loop"
        /\ UNCHANGED <<ringVars, rtVars, p, slot, final, dword, apc, historyVars>>
    BY <1>1 DEF ThreadStart
  <2> QED
    BY <2>1 DEF ringVars
<1>2. CASE LoopTop
  BY <1>2 DEF LoopTop, ringVars
<1>3. CASE CheckPage
  BY <1>3 DEF CheckPage, ringVars, ReturnTrue, ReturnFalse
<1>4. CASE GetNextPageToRead
  <2>1. Following(page_idx_read) \in Pages
    BY RingNext
  <2> QED
    BY <2>1, <1>0, <1>4 DEF GetNextPageToRead, Following, ReturnTrue
<1>5. CASE WriteFile
  <2>1. CASE slot < PageSize /\ file' = Append(file, pages[p][slot]) /\ slot' = slot + 1 /\ UNCHANGED <<dpc, keptUp, broken>>
    <3>1. slot \in Slots /\ slot' \in 0..PageSize
      BY <2>1, <1>0 DEF Slots
    <3>2. pages[p][slot] \in 0..MaxEntry
      BY <3>1
    <3>3. file' \in Seq(0..MaxEntry)
      BY <2>1, <3>2, Appended
    <3> QED
      BY <2>1, <3>1, <3>3, <1>5 DEF WriteFile, ringVars
  <2>2. CASE slot = PageSize /\ dpc' = "mark" /\ UNCHANGED <<file, slot, keptUp, broken>>
    BY <2>2, <1>5 DEF WriteFile, ringVars
  <2>3. CASE MayFail /\ dpc' = ReturnFalse /\ broken' = TRUE /\ keptUp' = FALSE /\ UNCHANGED <<file, slot>>
    <3>1. /\ keptUp' \in BOOLEAN /\ broken' \in BOOLEAN /\ dpc' \in {"exit", "final"}
          /\ UNCHANGED <<file, slot, ringVars, rtVars, p, final, dword, log_thread_active,
                         log_thread_end, apc, recorded, marked>>
      BY <2>3, <1>5 DEF WriteFile, ReturnFalse
    <3> QED
      BY <3>1 DEF ringVars
  <2> QED
    BY <2>1, <2>2, <2>3, <1>5 DEF WriteFile
<1>6. CASE LoadEmpty
  BY <1>6 DEF LoadEmpty, ringVars
<1>7. CASE StoreEmpty
  BY <1>7 DEF StoreEmpty
<1>8. CASE WriteFinal
  BY <1>8 DEF WriteFinal
<1>9. CASE ThreadExit
  <2>1. /\ log_thread_active' \in BOOLEAN /\ dpc' = "dead"
        /\ UNCHANGED <<ringVars, rtVars, p, slot, final, dword, log_thread_end, apc, historyVars>>
    BY <1>9 DEF ThreadExit
  <2> QED
    BY <2>1 DEF ringVars
<1>10. CASE Startup
  BY <1>0, <1>10 DEF Startup
<1>11. CASE AttachLogService
  <2>1. /\ log_service' \in BOOLEAN /\ log_thread_end' \in BOOLEAN /\ apc' \in {"attached", "failing"}
        /\ UNCHANGED <<ringVars, lpc, logging, rword, dpc, p, slot, final, dword,
                       log_thread_active, historyVars>>
    BY <1>11 DEF AttachLogService
  <2> QED
    BY <2>1 DEF ringVars
<1>12. CASE RemoveLogService
  <2>1. /\ log_service' \in BOOLEAN /\ apc' = "waiting"
        /\ UNCHANGED <<ringVars, lpc, logging, rword, diskVars, historyVars>>
    BY <1>12 DEF RemoveLogService
  <2> QED
    BY <2>1 DEF ringVars, diskVars
<1>13. CASE WaitLogging
  BY <1>13 DEF WaitLogging, ringVars
<1>14. CASE Join
  BY <1>14 DEF Join, diskVars
<1> QED
  BY <1>1, <1>2, <1>3, <1>4, <1>5, <1>6, <1>7, <1>8, <1>9, <1>10, <1>11, <1>12, <1>13, <1>14
  DEF DiskThread, RpcThread

(***************************************************************************)
(* Steps that leave the pages and their bits alone.                        *)
(***************************************************************************)
\* What the pages and their bits are, and what is on disk.
ringCore == <<pages, is_page_full, page_idx_read, p, slot, file, marked, keptUp, recorded, broken>>
\* No thread loads a word of bits.
SameWords == UNCHANGED <<rword, dword>> /\ (lpc' = "store" => lpc = "store") /\ (dpc' = "store" => dpc = "store")

(* If a step changes neither pages nor bits nor files, and the disk thread *)
(* does not take a page, the invariants stay.                              *)
LEMMA Still ==
  ASSUME UNCHANGED ringCore, InPage' = InPage, Filling' = Filling,
         page_idx_write' = page_idx_write \/ InPage = 0,
         dpc' = dpc \/ {dpc, dpc'} \cap Busy = {} \/ (dpc = "mark" /\ dpc' = "store")
  PROVE  /\ NoGap => NoGap'
         /\ Recorded => Recorded'
         /\ RingOrder => RingOrder'
         /\ SameWords /\ Bits => Bits'
         /\ InOrder => InOrder'
         /\ KeepsUp => KeepsUp'
<1>0. /\ UNCHANGED <<pages, is_page_full, page_idx_read, p, slot, file, marked, keptUp>>
      /\ UNCHANGED <<recorded, broken, LastSaved>>
  BY DEF ringCore, LastSaved
<1>1. NoGap => NoGap'
  BY <1>0 DEF NoGap
<1>2. Recorded => Recorded'
  <2>1. CASE page_idx_write' = page_idx_write
    BY <1>0, <2>1 DEF Recorded
  <2>2. CASE InPage = 0
    <3>1. \A j \in Slots : ~(j < 0)
      BY LogConstants
    <3> QED
      BY <1>0, <2>2, <3>1 DEF Recorded
  <2> QED
    BY <2>1, <2>2
<1>3. ASSUME NEW i
      PROVE  /\ Whole(i)' <=> Whole(i)
             /\ Zero(i)' <=> Zero(i)
             /\ Rising(i)' <=> Rising(i)
  <2>1. Whole(i)' <=> Whole(i)
    BY DEF Whole
  <2>2. Zero(i)' <=> Zero(i)
    BY <1>0 DEF Zero
  <2>3. Rising(i)' <=> Rising(i)
    BY <1>0 DEF Rising
  <2> QED
    BY <2>1, <2>2, <2>3
<1>4. ASSUME NEW i, NEW h  PROVE Newer(h, i)' <=> Newer(h, i)
  BY <1>0 DEF Newer
<1>5. RingOrder => RingOrder'
  BY <1>0, <1>3, <1>4 DEF RingOrder
<1>6. SameWords /\ Bits => Bits'
  BY <1>0 DEF Bits, Busy, SameWords
<1>7. InOrder => InOrder'
  <2>1. /\ Fresh(page_idx_read)' <=> Fresh(page_idx_read)
        /\ Whole(page_idx_read)' <=> Whole(page_idx_read)
        /\ Whole(p)' <=> Whole(p)
        /\ Newer(page_idx_read, p)' <=> Newer(page_idx_read, p)
    <3>1. Fresh(page_idx_read)' <=> Fresh(page_idx_read)
      BY <1>0 DEF Fresh
    <3>2. Newer(page_idx_read, p)' <=> Newer(page_idx_read, p)
      BY <1>0 DEF Newer
    <3>3. Whole(page_idx_read)' <=> Whole(page_idx_read)
      BY <1>0 DEF Whole
    <3>4. Whole(p)' <=> Whole(p)
      BY <1>0 DEF Whole
    <3> QED
      BY <3>1, <3>2, <3>3, <3>4
  <2>2. SUFFICES ASSUME InOrder, ~broken  PROVE InOrder'
    BY <1>0 DEF InOrder
  <2>3. LastSaved' <= marked'
    BY <1>0, <2>2 DEF InOrder
  <2>4. dpc' \notin Busy =>
         /\ Fresh(page_idx_read)' \/ (page_idx_read' = Filling' /\ ~is_page_full'[page_idx_read'])
         /\ Whole(page_idx_read)' \/ ~is_page_full'[page_idx_read']
    BY <1>0, <2>1, <2>2 DEF InOrder, Busy
  <2>5. dpc' = "copy" =>
         /\ Whole(p)'
         /\ \A j \in Slots : slot' <= j => LastSaved' < pages'[p'][j]
         /\ \E j \in Slots : LastSaved' <= pages'[p'][j]
         /\ page_idx_read' = Filling' \/ Newer(page_idx_read, p)'
    BY <1>0, <2>1, <2>2 DEF InOrder, Busy
  <2>6. dpc' \in {"mark", "store"} => page_idx_read' = Filling' \/ Fresh(page_idx_read)'
    BY <1>0, <2>1, <2>2 DEF InOrder, Busy
  <2> QED
    BY <2>3, <2>4, <2>5, <2>6 DEF InOrder
<1>8. KeepsUp => KeepsUp'
  BY <1>0 DEF KeepsUp, Busy, Holds
<1> QED
  BY <1>1, <1>2, <1>5, <1>6, <1>7, <1>8

\* What every step keeps, until the real-time thread has crashed.
RingInv == Recorded /\ RingOrder /\ Bits /\ InOrder /\ KeepsUp

(* The real-time thread, from cycle to cycle, without recording.           *)
LEMMA CycleStep ==
  ASSUME TypeOK, NoGap, Counted, RingInv, lpc # "crashed",
         \/ TestLogService \/ SetLogging \/ CallStep \/ Downsample \/ Crash \/ WriteEntry \/ ClearLogging
  PROVE  NoGap' /\ (lpc' # "crashed" => Counted' /\ RingInv')
<1>0. PageSize \in Nat /\ PageSize > 0 /\ entry_idx \in 0..PageSize
  BY LogConstants DEF TypeOK
<1>a. UNCHANGED ringCore /\ UNCHANGED <<rword, dword, page_idx_write, dpc>>
  BY DEF TestLogService, SetLogging, CallStep, Downsample, Crash, WriteEntry, ClearLogging,
         ringCore, ringVars, diskVars, historyVars
<1> SUFFICES ASSUME lpc' # "crashed"
             PROVE  Counted' /\ InPage' = InPage
  <2>1. NoGap'
    BY <1>a DEF NoGap, ringCore
  <2>2. lpc' # "crashed" => lpc' \notin {"store", "next"} /\ lpc # "next"
    BY DEF TestLogService, SetLogging, CallStep, Downsample, Crash, WriteEntry, ClearLogging
  <2>3. lpc' # "crashed" => Filling' = Filling /\ SameWords
    BY <1>a, <2>2 DEF Filling, SameWords
  <2>4. page_idx_write' = page_idx_write /\ dpc' = dpc /\ UNCHANGED ringCore
    BY <1>a
  <2>5. ASSUME lpc' # "crashed", InPage' = InPage  PROVE RingInv'
    <3>1. Recorded' /\ RingOrder' /\ Bits' /\ InOrder' /\ KeepsUp'
      BY <2>3, <2>4, <2>5, Still DEF RingInv
    <3> QED
      BY <3>1 DEF RingInv
  <2> QED
    BY <2>1, <2>5
<1>1. CASE TestLogService
  BY <1>0, <1>1 DEF TestLogService, Counted, InPage, ringVars, historyVars
<1>2. CASE SetLogging
  BY <1>0, <1>2 DEF SetLogging, Counted, InPage, ringVars, historyVars
<1>3. CASE CallStep
  BY <1>0, <1>3 DEF CallStep, Counted, InPage, ringVars, historyVars
<1>4. CASE Downsample
  BY <1>0, <1>4 DEF Downsample, Counted, InPage, historyVars
<1>5. CASE Crash
  BY <1>5 DEF Crash
<1>6. CASE WriteEntry
  BY <1>0, <1>6 DEF WriteEntry, Counted, InPage, historyVars
<1>7. CASE ClearLogging
  BY <1>0, <1>7 DEF ClearLogging, Counted, InPage, ringVars, historyVars
<1> QED
  BY <1>1, <1>2, <1>3, <1>4, <1>5, <1>6, <1>7

(* MarkPageFull loads the word; the page index moves on.                   *)
LEMMA IndexStep ==
  ASSUME TypeOK, NoGap, Counted, RingInv, LoadFull \/ GetNextPageToWrite
  PROVE  NoGap' /\ Counted' /\ RingInv'
<1>a. UNCHANGED ringCore /\ UNCHANGED <<dword, dpc, apc, entry_idx>>
  BY DEF LoadFull, GetNextPageToWrite, ringCore, ringVars, diskVars, historyVars
<1>1. CASE LoadFull
  <2>1. /\ lpc = "mark" /\ lpc' = "store" /\ rword' = is_page_full
        /\ UNCHANGED <<page_idx_write, page, log_service>>
    BY <1>1 DEF LoadFull, ringVars
  <2>2. InPage' = InPage /\ Filling' = Filling
    BY <2>1 DEF InPage, Filling
  <2>3. Bits'
    BY <1>a, <2>1 DEF Bits, RingInv, ringCore
  <2>4. Counted'
    BY <1>a, <2>1, <2>2 DEF Counted, ringCore
  <2>5. page_idx_write' = page_idx_write /\ dpc' = dpc /\ UNCHANGED ringCore
    BY <1>a, <2>1
  <2>6. NoGap' /\ Recorded' /\ RingOrder' /\ InOrder' /\ KeepsUp'
    BY <2>2, <2>5, Still DEF RingInv
  <2> QED
    BY <2>3, <2>4, <2>6 DEF RingInv
<1>2. CASE GetNextPageToWrite
  <2>1. /\ lpc = "next" /\ lpc' = "done" /\ page_idx_write' = Following(page_idx_write)
        /\ page' = page_idx_write' /\ UNCHANGED <<rword, log_service>>
    BY <1>2 DEF GetNextPageToWrite, Following
  <2>2. InPage' = InPage /\ Filling' = Filling /\ InPage = 0 /\ entry_idx = 0
    BY <1>a, <2>1 DEF InPage, Filling, Counted
  <2>3. SameWords
    BY <1>a, <2>1 DEF SameWords
  <2>4. Counted'
    BY <1>a, <2>1, <2>2, LogConstants DEF Counted, ringCore
  <2>5. dpc' = dpc /\ UNCHANGED ringCore
    BY <1>a
  <2>6. NoGap' /\ Recorded' /\ RingOrder' /\ Bits' /\ InOrder' /\ KeepsUp'
    BY <2>2, <2>3, <2>5, Still DEF RingInv
  <2> QED
    BY <2>4, <2>6 DEF RingInv
<1> QED
  BY <1>1, <1>2

(***************************************************************************)
(* An entry is recorded.                                                   *)
(***************************************************************************)
(* The numbers of the entries in the pages are numbers, none is newer than *)
(* the last one recorded, and a page that holds what it held when it was   *)
(* completed has none that is newer than that.                             *)
LEMMA Contents ==
  ASSUME TypeOK, Counted, Recorded
  PROVE  /\ marked \in Nat /\ recorded \in Nat /\ entry_idx \in Nat /\ InPage \in Nat
         /\ \A i \in Pages, j \in Slots : pages[i][j] \in Nat /\ pages[i][j] <= recorded
         /\ \A i \in Pages, j \in Slots : Whole(i) => pages[i][j] <= marked
         /\ \A i \in Pages, j \in Slots : i # page_idx_write => pages[i][j] <= marked
         /\ \A j \in Slots : j < InPage => pages[page_idx_write][j] = marked + j + 1
         /\ page_idx_write \in Pages /\ Filling \in Pages
<1>0. PageSize \in Nat /\ MaxEntry \in Nat
  BY LogConstants
<1>1. marked \in Nat /\ recorded \in Nat /\ entry_idx \in Nat /\ InPage \in Nat /\ page_idx_write \in Pages
  BY <1>0 DEF TypeOK, InPage
<1>2. \A i \in Pages, j \in Slots : pages[i][j] \in Nat
  BY <1>0 DEF TypeOK
<1>3. \A j : j \in Slots => j \in Nat
  BY LogConstants
<1>4. recorded = marked + InPage
  BY DEF Counted
<1>5. ASSUME NEW i \in Pages, NEW j \in Slots
      PROVE  pages[i][j] <= recorded /\ (i # page_idx_write => pages[i][j] <= marked)
  <2>1. CASE i = page_idx_write /\ j < InPage
    BY <2>1, <1>1, <1>2, <1>3, <1>4, <1>5 DEF Recorded
  <2>2. CASE ~(i = page_idx_write /\ j < InPage)
    BY <2>2, <1>1, <1>2, <1>4, <1>5 DEF Recorded
  <2> QED
    BY <2>1, <2>2
<1>6. ASSUME NEW i \in Pages, NEW j \in Slots, Whole(i)  PROVE pages[i][j] <= marked
  <2>1. CASE i # page_idx_write
    BY <2>1, <1>5
  <2>2. CASE InPage = 0
    BY <2>2, <1>1, <1>3, <1>6 DEF Recorded
  <2>3. CASE i = page_idx_write /\ InPage # 0
    <3>1. lpc # "next"
      BY <2>3 DEF Counted, InPage
    <3> QED
      BY <3>1, <2>3, <1>6 DEF Whole, Filling
  <2> QED
    BY <2>1, <2>2, <2>3
<1>7. \A j \in Slots : j < InPage => pages[page_idx_write][j] = marked + j + 1
  BY <1>1 DEF Recorded
<1>8. Filling \in Pages
  BY <1>1, RingNext DEF Filling
<1> QED
  BY <1>1, <1>2, <1>5, <1>6, <1>7, <1>8

(* A page that is being filled is newer than all others.                   *)
LEMMA RecordStep ==
  ASSUME TypeOK, NoGap, Counted, RingInv, RecordEntry
  PROVE  NoGap' /\ Counted' /\ RingInv'
<1> DEFINE w == page_idx_write
           n == entry_idx
<1>0. /\ Recorded /\ RingOrder /\ Bits /\ InOrder /\ KeepsUp
  BY DEF RingInv
<1>1. /\ lpc = "step" /\ lpc' = "write" /\ page # NoPage
      /\ pages' = [pages EXCEPT ![page][n] = recorded + 1]
      /\ recorded' = recorded + 1 /\ broken' = (broken \/ PageWaits) /\ entry_idx' = n + 1
      /\ UNCHANGED <<is_page_full, page, page_idx_write, page_idx_read, log_service, rword>>
      /\ UNCHANGED <<dpc, p, slot, dword, apc, file, marked, keptUp>>
  BY DEF RecordEntry, diskVars
<1>2. page = w /\ w \in Pages /\ n \in Nat /\ n < PageSize /\ n \in Slots
  <2>1. page = w /\ n < PageSize
    BY <1>1 DEF Counted
  <2>2. w \in Pages /\ n \in Nat
    BY LogConstants DEF TypeOK
  <2> QED
    BY <2>1, <2>2, LogConstants
<1>3. /\ Filling = w /\ Filling' = w /\ InPage = n /\ InPage' = n + 1 /\ recorded = marked + n
  BY <1>1 DEF Filling, InPage, Counted
<1>4. /\ marked \in Nat /\ LastSaved' = LastSaved
      /\ \A i \in Pages, j \in Slots : pages[i][j] \in Nat /\ pages[i][j] <= marked + n
      /\ \A j : j \in Slots => j \in Nat
  <2>1. LastSaved' = LastSaved
    BY <1>1 DEF LastSaved
  <2> QED
    BY <2>1, <1>0, <1>3, Contents, LogConstants
<1>5. /\ \A i \in Pages : i # w => pages'[i] = pages[i]
      /\ \A j \in Slots : pages'[w][j] = IF j = n THEN marked + n + 1 ELSE pages[w][j]
  <2>1. pages \in [Pages -> [Slots -> 0..MaxEntry]]
    BY DEF TypeOK
  <2> QED
    BY <2>1, <1>1, <1>2, <1>3
<1>6. ASSUME NEW i \in Pages, NEW j \in Slots
      PROVE  /\ pages'[i][j] \in Nat /\ pages[i][j] <= pages'[i][j]
             /\ pages'[i][j] = pages[i][j] \/ (i = w /\ j = n /\ pages'[i][j] = marked + n + 1)
  BY <1>2, <1>4, <1>5, <1>6
<1> HIDE DEF w, n
<1>7. Counted'
  BY <1>1, <1>2, <1>3, <1>4, LogConstants DEF Counted, w, n
<1>8. Recorded'
  <2>1. ASSUME NEW i \in Pages, NEW j \in Slots
        PROVE  IF i = w /\ j < n + 1 THEN pages'[i][j] = marked + j + 1 ELSE pages'[i][j] <= marked
    <3>1. IF i = w /\ j < n THEN pages[i][j] = marked + j + 1 ELSE pages[i][j] <= marked
      BY <1>0, <1>3 DEF Recorded, w
    <3>2. CASE i = w /\ j = n
      <4>1. pages'[i][j] = marked + j + 1 /\ j < n + 1
        BY <3>2, <1>2, <1>5
      <4> QED
        BY <4>1, <3>2
    <3>3. CASE i # w \/ j # n
      <4>1. pages'[i][j] = pages[i][j] /\ (i = w /\ j < n + 1 => j < n)
        BY <3>3, <1>2, <1>4, <1>6
      <4> QED
        BY <4>1, <3>1, <1>2, <1>4
    <3> QED
      BY <3>2, <3>3
  <2> QED
    BY <2>1, <1>1, <1>3 DEF Recorded, w
<1>9. RingOrder'
  <2>1. ASSUME NEW i \in Pages, i # w
        PROVE  Zero(i)' \/ (Rising(i)' /\ (Following(i) = w \/ Newer(Following(i), i)'))
    <3>1. Zero(i) \/ (Rising(i) /\ (Following(i) = w \/ Newer(Following(i), i)))
      BY <2>1, <1>0, <1>3 DEF RingOrder, Whole
    <3>2. Following(i) \in Pages
      BY RingNext
    <3>3. pages'[i] = pages[i]
      BY <2>1, <1>5
    <3>4. Zero(i) => Zero(i)'
      BY <3>3 DEF Zero
    <3>5. Rising(i) => Rising(i)'
      BY <3>3 DEF Rising
    <3>6. Following(i) # w /\ Newer(Following(i), i) => Newer(Following(i), i)'
      BY <3>2, <3>3, <1>5 DEF Newer
    <3> QED
      BY <3>1, <3>4, <3>5, <3>6
  <2>2. \A i \in Pages : Whole(i)' => i # w
    BY <1>2, <1>3 DEF Whole
  <2> QED
    BY <2>1, <2>2, <1>3 DEF RingOrder
<1>10. Bits'
  <2>1. \A i \in Pages, j \in Slots : pages[i][j] > 0 => pages'[i][j] > 0
    BY <1>4, <1>6
  <2>2. p \in Pages
    BY DEF TypeOK
  <2> QED
    BY <2>1, <2>2, <1>0, <1>1 DEF Bits
<1>11. InOrder'
  <2>1. SUFFICES ASSUME ~broken, ~PageWaits  PROVE InOrder'
    BY <1>1 DEF InOrder
  <2>2. LastSaved' <= marked' /\ LastSaved \in Nat
    <3>1. LastSaved \in Nat
      BY <1>4, LenProperties, LogConstants DEF LastSaved, TypeOK
    <3> QED
      BY <3>1, <2>1, <1>0, <1>1, <1>4 DEF InOrder
  <2>3. page_idx_read \in Pages /\ p \in Pages
    BY DEF TypeOK
  <2>4. Fresh(page_idx_read) => Fresh(page_idx_read)'
    <3>1. ASSUME NEW j \in Slots, LastSaved < pages[page_idx_read][j]
          PROVE  LastSaved < pages'[page_idx_read][j]
      BY <3>1, <2>2, <2>3, <1>4, <1>6
    <3> QED
      BY <3>1, <1>1, <1>4 DEF Fresh
  <2>5. page_idx_read = w => ~is_page_full[page_idx_read]
    BY <2>1, <1>2 DEF PageWaits
  <2>6. Whole(page_idx_read)' \/ ~is_page_full'[page_idx_read']
    BY <2>5, <1>1, <1>3 DEF Whole
  <2>7. ASSUME dpc = "copy"
        PROVE  /\ Whole(p)'
               /\ \A j \in Slots : slot <= j => LastSaved < pages'[p][j]
               /\ \E j \in Slots : LastSaved <= pages'[p][j]
               /\ page_idx_read = w \/ Newer(page_idx_read, p)'
    <3>1. p # w
      BY <2>1, <2>7, <1>2 DEF PageWaits
    <3>2. pages'[p] = pages[p]
      BY <3>1, <2>3, <1>5
    <3>3. Whole(p)'
      BY <3>1, <1>1, <1>3 DEF Whole
    <3>4. page_idx_read # w /\ Newer(page_idx_read, p) => Newer(page_idx_read, p)'
      BY <3>2, <2>3, <1>1, <1>5 DEF Newer
    <3> QED
      BY <3>2, <3>3, <3>4, <2>1, <2>7, <1>0, <1>3 DEF InOrder
  <2> QED
    BY <2>2, <2>4, <2>5, <2>6, <2>7, <2>1, <1>0, <1>1, <1>3, <1>4 DEF InOrder, Busy
<1>12. KeepsUp' /\ NoGap'
  <2>1. ASSUME NEW i \in Pages, Holds(i)  PROVE Holds(i)'
    <3>1. i # w
      BY <2>1, <1>2, <1>3, RingNext DEF Holds
    <3> QED
      BY <3>1, <2>1, <1>1, <1>3, <1>5 DEF Holds
  <2>2. page_idx_read \in Pages /\ p \in Pages
    BY DEF TypeOK
  <2>3. (Holds(page_idx_read) => Holds(page_idx_read)') /\ (Holds(p) => Holds(p)')
    BY <2>1, <2>2, <1>1
  <2>4. NoGap'
    BY <1>1 DEF NoGap
  <2> QED
    BY <2>3, <2>4, <1>0, <1>1, <1>3 DEF KeepsUp, Busy
<1> QED
  BY <1>7, <1>8, <1>9, <1>10, <1>11, <1>12 DEF RingInv

(***************************************************************************)
(* A page is marked as full.                                               *)
(***************************************************************************)
(* While nothing is missing from the files, the last entry is their number.*)
LEMMA LastIsLen ==
  ASSUME TypeOK, NoGap, keptUp  PROVE LastSaved = Len(file) /\ Len(file) \in Nat
<1>1. Len(file) \in Nat
  BY LenProperties DEF TypeOK
<1>2. CASE file = <<>>
  BY <1>2, EmptySeq DEF LastSaved
<1>3. CASE file # <<>>
  <2>1. Len(file) # 0
    BY <1>3, EmptySeq DEF TypeOK
  <2>2. Len(file) \in 1..Len(file)
    BY <1>1, <2>1
  <2> QED
    BY <2>2, <1>1, <1>3 DEF NoGap, LastSaved
<1> QED
  BY <1>1, <1>2, <1>3

(* From now on the full page is one of the ring's, and the next is filled. *)
LEMMA FullStep ==
  ASSUME TypeOK, NoGap, Counted, RingInv, StoreFull
  PROVE  NoGap' /\ Counted' /\ RingInv'
<1> DEFINE w == page_idx_write
<1>0. /\ Recorded /\ RingOrder /\ Bits /\ InOrder /\ KeepsUp
  BY DEF RingInv
<1>1. /\ lpc = "store" /\ lpc' = "next"
      /\ is_page_full' = [rword EXCEPT ![w] = TRUE]
      /\ marked' = recorded /\ keptUp' = (keptUp /\ DiskIdle)
      /\ UNCHANGED <<pages, page, entry_idx, page_idx_write, page_idx_read, log_service, rword>>
      /\ UNCHANGED <<dpc, p, slot, dword, apc, recorded, file, broken>>
  BY DEF StoreFull, diskVars
<1>2. /\ w \in Pages /\ page_idx_read \in Pages /\ p \in Pages
      /\ PageSize \in Nat /\ PageSize > 0 /\ LastSaved' = LastSaved
      /\ \A j : j \in Slots <=> j \in Nat /\ j < PageSize
  BY <1>1, LogConstants DEF TypeOK, LastSaved
<1>3. /\ Filling = w /\ Filling' = Following(w) /\ InPage = PageSize /\ InPage' = 0
      /\ marked' = marked + PageSize /\ marked \in Nat /\ marked' \in Nat
  BY <1>0, <1>1, <1>2, Contents DEF Filling, InPage, Counted
<1>4. /\ \A j \in Slots : pages[w][j] = marked + j + 1
      /\ \A i \in Pages, j \in Slots : pages[i][j] \in Nat /\ pages[i][j] <= marked'
      /\ \A i \in Pages, j \in Slots : i # w => pages[i][j] <= marked
  BY <1>0, <1>1, <1>2, <1>3, Contents
<1>5. \A i \in Pages : is_page_full'[i] = (i = w \/ rword[i])
  BY <1>1, <1>2 DEF TypeOK
<1>6. \A i \in Pages : i # w => Newer(w, i)
  BY <1>2, <1>3, <1>4 DEF Newer
<1>7. LastSaved \in Nat /\ (~broken => LastSaved <= marked /\ Fresh(w))
  <2>1. LastSaved \in Nat
    BY LenProperties, LogConstants DEF LastSaved, TypeOK
  <2>2. ~broken => LastSaved <= marked
    BY <1>0 DEF InOrder
  <2>3. LastSaved <= marked => Fresh(w)
    BY <2>1, <1>2, <1>3, <1>4 DEF Fresh
  <2> QED
    BY <2>1, <2>2, <2>3
<1> HIDE DEF w
<1>8. Counted'
  BY <1>1, <1>2, <1>3 DEF Counted
<1>9. Recorded'
  BY <1>1, <1>2, <1>3, <1>4 DEF Recorded
<1>10. RingOrder'
  <2>1. ASSUME NEW i \in Pages
        PROVE  Zero(i) \/ (Rising(i) /\ (Following(i) = Filling' \/ Newer(Following(i), i)))
    <3>1. CASE i = w
      <4>1. Rising(w)
        BY <1>2, <1>3, <1>4 DEF Rising
      <4> QED
        BY <4>1, <3>1, <1>3
    <3>2. CASE i # w
      BY <3>2, <1>0, <1>3, <1>6 DEF RingOrder, Whole
    <3> QED
      BY <3>1, <3>2
  <2>2. ASSUME NEW i
        PROVE  /\ Zero(i)' <=> Zero(i)
               /\ Rising(i)' <=> Rising(i)
               /\ Newer(Following(i), i)' <=> Newer(Following(i), i)
    BY <1>1 DEF Zero, Rising, Newer
  <2> QED
    BY <2>1, <2>2 DEF RingOrder
<1>11. Bits'
  <2>1. \A j \in Slots : pages[w][j] > 0
    BY <1>2, <1>3, <1>4
  <2> QED
    BY <2>1, <1>0, <1>1, <1>2, <1>5 DEF Bits
<1>12. InOrder'
  <2>1. SUFFICES ASSUME ~broken  PROVE InOrder'
    BY <1>1 DEF InOrder
  <2>2. LastSaved' <= marked'
    BY <2>1, <1>2, <1>3, <1>7
  <2>3. \A i : Whole(i)'
    BY <1>3 DEF Whole
  <2>4. page_idx_read = w => Fresh(page_idx_read)
    BY <2>1, <1>7
  <2>5. Fresh(page_idx_read)' <=> Fresh(page_idx_read)
    BY <1>1, <1>2 DEF Fresh
  <2>6. Whole(p)' /\ Whole(page_idx_read)'
    BY <1>3 DEF Whole
  <2>7. dpc = "copy" => Newer(page_idx_read, p)
    <3>1. dpc = "copy" => p # w
      BY <2>1, <1>0, <1>2, <1>3 DEF InOrder, Whole
    <3>2. dpc = "copy" => page_idx_read = w \/ Newer(page_idx_read, p)
      BY <2>1, <1>0, <1>3 DEF InOrder
    <3> QED
      BY <3>1, <3>2, <1>2, <1>6
  <2>8. Newer(page_idx_read, p)' <=> Newer(page_idx_read, p)
    BY <1>1 DEF Newer
  <2>9. dpc # "copy" => Fresh(page_idx_read)
    BY <2>1, <2>4, <1>0, <1>3 DEF InOrder, Busy
  <2>10. dpc = "copy" => /\ \A j \in Slots : slot <= j => LastSaved < pages[p][j]
                         /\ \E j \in Slots : LastSaved <= pages[p][j]
    BY <2>1, <1>0 DEF InOrder
  <2> QED
    BY <2>2, <2>5, <2>6, <2>7, <2>8, <2>9, <2>10, <1>1, <1>2 DEF InOrder, Busy
<1>13. KeepsUp'
  <2>1. SUFFICES ASSUME keptUp, DiskIdle  PROVE KeepsUp'
    BY <1>1 DEF KeepsUp
  <2>2. LastSaved = marked /\ dpc \notin Busy /\ Len(file) = marked
    BY <2>1, LastIsLen DEF DiskIdle, Busy
  <2>3. page_idx_read = w
    BY <2>1, <2>2, <1>0, <1>2, <1>3 DEF KeepsUp, Busy
  <2>4. Holds(w)'
    BY <1>1, <1>2, <1>3, <1>4 DEF Holds, w
  <2>5. Len(file') + PageSize = marked' /\ dpc' \notin Busy /\ Holds(page_idx_read)' /\ is_page_full'[page_idx_read']
    <3>1. Holds(page_idx_read)'
      BY <2>3, <2>4, <1>1 DEF w
    <3> QED
      BY <3>1, <2>2, <2>3, <1>1, <1>2, <1>3, <1>5
  <2> QED
    BY <2>5 DEF KeepsUp
<1>14. NoGap'
  BY <1>1 DEF NoGap
<1> QED
  BY <1>8, <1>9, <1>10, <1>11, <1>12, <1>13, <1>14 DEF RingInv

(***************************************************************************)
(* The disk thread.                                                        *)
(***************************************************************************)
(* The steps between two pages, and those of the RPC thread.               *)
LEMMA OtherStep ==
  ASSUME TypeOK, NoGap, Counted, RingInv,
         ThreadStart \/ LoopTop \/ CheckPage \/ WriteFinal \/ ThreadExit \/ RpcThread
  PROVE  NoGap' /\ Counted' /\ RingInv'
<1>1. UNCHANGED ringCore /\ UNCHANGED <<page_idx_write, lpc, rword, dword, entry_idx>>
  BY DEF ThreadStart, LoopTop, CheckPage, WriteFinal, ThreadExit, RpcThread, Startup, AttachLogService,
         RemoveLogService, WaitLogging, Join, ringCore, ringVars, rtVars, diskVars, historyVars
<1>2. dpc' = dpc \/ {dpc, dpc'} \cap Busy = {}
  BY DEF ThreadStart, LoopTop, CheckPage, WriteFinal, ThreadExit, RpcThread, Startup, AttachLogService,
         RemoveLogService, WaitLogging, Join, rtVars, diskVars, ReturnTrue, ReturnFalse, Busy, Counted
<1>3. InPage' = InPage /\ Filling' = Filling /\ page_idx_write' = page_idx_write
  BY <1>1 DEF InPage, Filling
<1>4. SameWords
  BY <1>1, <1>2 DEF SameWords, Busy
<1>5. NoGap' /\ Recorded' /\ RingOrder' /\ Bits' /\ InOrder' /\ KeepsUp'
  BY <1>1, <1>2, <1>3, <1>4, Still DEF RingInv
<1>6. page' \in {page, NoPage} \/ (page' = 0 /\ apc = "idle")
  BY DEF ThreadStart, LoopTop, CheckPage, WriteFinal, ThreadExit, RpcThread, Startup, AttachLogService,
         RemoveLogService, WaitLogging, Join, ringVars
<1>7. apc' # "idle" \/ (apc' = apc /\ log_service' = log_service /\ dpc # "none")
  BY DEF ThreadStart, LoopTop, CheckPage, WriteFinal, ThreadExit, RpcThread, Startup, AttachLogService,
         RemoveLogService, WaitLogging, Join, rtVars
<1>8. Counted'
  BY <1>1, <1>3, <1>6, <1>7, LogConstants DEF Counted, ringCore
<1> QED
  BY <1>5, <1>8 DEF RingInv

(* What these steps leave alone.                                           *)
LEMMA DiskLeaves ==
  ASSUME GetNextPageToRead \/ WriteFile \/ LoadEmpty \/ StoreEmpty
  PROVE  /\ UNCHANGED <<pages, page, entry_idx, page_idx_write, lpc, log_service, rword, apc>>
         /\ recorded' = recorded /\ marked' = marked
         /\ InPage' = InPage /\ Filling' = Filling
         /\ dpc # "none"
         /\ Counted => Counted'
         /\ Recorded => Recorded'
         /\ RingOrder => RingOrder'
<1>1. /\ UNCHANGED <<pages, page, entry_idx, page_idx_write, lpc, log_service, rword, apc>>
      /\ recorded' = recorded /\ marked' = marked /\ dpc # "none"
  BY DEF GetNextPageToRead, WriteFile, LoadEmpty, StoreEmpty, ringVars, rtVars, historyVars
<1>2. InPage' = InPage /\ Filling' = Filling
  BY <1>1 DEF InPage, Filling
<1>3. Counted => Counted'
  BY <1>1, <1>2 DEF Counted
<1>4. Recorded => Recorded'
  BY <1>1, <1>2 DEF Recorded
<1>5. ASSUME NEW i
      PROVE  /\ Whole(i)' <=> Whole(i)
             /\ Zero(i)' <=> Zero(i)
             /\ Rising(i)' <=> Rising(i)
             /\ Newer(Following(i), i)' <=> Newer(Following(i), i)
  <2>1. Whole(i)' <=> Whole(i)
    BY <1>2 DEF Whole
  <2>2. /\ Zero(i)' <=> Zero(i)
        /\ Rising(i)' <=> Rising(i)
    BY <1>1 DEF Zero, Rising
  <2>3. Newer(Following(i), i)' <=> Newer(Following(i), i)
    BY <1>1 DEF Newer
  <2> QED
    BY <2>1, <2>2, <2>3
<1>6. RingOrder => RingOrder'
  BY <1>2, <1>5 DEF RingOrder
<1> QED
  BY <1>1, <1>2, <1>3, <1>4, <1>6

(* The disk thread takes the page whose bit is set, or goes to sleep.      *)
LEMMA TakeStep ==
  ASSUME TypeOK, NoGap, Counted, RingInv, GetNextPageToRead
  PROVE  NoGap' /\ Counted' /\ RingInv'
<1> DEFINE r == page_idx_read
<1>0. /\ Recorded /\ RingOrder /\ Bits /\ InOrder /\ KeepsUp
  BY DEF RingInv
<1>1. /\ dpc = "next" /\ UNCHANGED <<is_page_full, dword, file, keptUp, broken>>
      /\ UNCHANGED <<pages, page, entry_idx, page_idx_write, lpc, log_service, rword, apc>>
      /\ recorded' = recorded /\ marked' = marked
      /\ InPage' = InPage /\ Filling' = Filling /\ LastSaved' = LastSaved
      /\ r \in Pages
  BY DiskLeaves DEF GetNextPageToRead, historyVars, LastSaved, TypeOK
<1>2. Counted' /\ Recorded' /\ RingOrder'
  BY <1>0, DiskLeaves
<1>3. NoGap'
  BY <1>1 DEF NoGap
<1>4. CASE ~is_page_full[r]
  <2>1. dpc' \in {"exit", "loop"} /\ UNCHANGED <<p, slot, page_idx_read>>
    BY <1>4 DEF GetNextPageToRead, ReturnTrue
  <2>2. UNCHANGED ringCore /\ SameWords /\ {dpc, dpc'} \cap Busy = {}
    BY <2>1, <1>1 DEF ringCore, SameWords, Busy
  <2>3. InPage' = InPage /\ Filling' = Filling /\ page_idx_write' = page_idx_write
    BY <1>1
  <2>4. Bits' /\ InOrder' /\ KeepsUp'
    BY <2>2, <2>3, <1>0, Still
  <2> QED
    BY <2>4, <1>2, <1>3 DEF RingInv
<1>5. CASE is_page_full[r]
  <2>1. dpc' = "copy" /\ p' = r /\ slot' = 0 /\ page_idx_read' = Following(r)
    BY <1>5 DEF GetNextPageToRead, Following
  <2>2. \A j \in Slots : pages[r][j] > 0
    BY <1>0, <1>1, <1>5 DEF Bits
  <2>3. 0 \in Slots /\ ~Zero(r)
    BY <2>2, LogConstants DEF Zero
  <2>4. Bits'
    BY <2>1, <2>2, <1>0, <1>1 DEF Bits
  <2>5. InOrder'
    <3>1. SUFFICES ASSUME ~broken  PROVE InOrder'
      BY <1>1 DEF InOrder
    <3>2. Fresh(r) /\ Whole(r) /\ LastSaved <= marked
      BY <3>1, <1>0, <1>1, <1>5 DEF InOrder, Busy
    <3>3. Following(r) = Filling \/ Newer(Following(r), r)
      BY <3>2, <2>3, <1>0, <1>1 DEF RingOrder
    <3>4. /\ Whole(p)'
          /\ Newer(page_idx_read, p)' <=> Newer(Following(r), r)
      <4>1. Whole(p)'
        BY <3>2, <2>1, <1>1 DEF Whole
      <4>2. Newer(page_idx_read, p)' <=> Newer(Following(r), r)
        BY <2>1, <1>1 DEF Newer
      <4> QED
        BY <4>1, <4>2
    <3>5. /\ \A j \in Slots : slot' <= j => LastSaved' < pages'[p'][j]
          /\ \E j \in Slots : LastSaved' <= pages'[p'][j]
      <4>1. \A j \in Slots : LastSaved < pages[r][j]
        BY <3>2 DEF Fresh
      <4>2. \A j \in Slots : LastSaved < pages[r][j] => LastSaved <= pages[r][j]
        <5>1. LastSaved \in Nat /\ \A j \in Slots : pages[r][j] \in Nat
          BY <1>0, <1>1, Contents, LenProperties, LogConstants DEF LastSaved, TypeOK
        <5> QED
          BY <5>1
      <4> QED
        BY <4>1, <4>2, <2>1, <2>3, <1>1
    <3> QED
      BY <3>2, <3>3, <3>4, <3>5, <2>1, <1>1 DEF InOrder, Busy
  <2>6. KeepsUp'
    <3>1. SUFFICES ASSUME keptUp  PROVE KeepsUp'
      BY <1>1 DEF KeepsUp
    <3>2. Len(file) + PageSize = marked /\ Holds(r)
      BY <3>1, <1>0, <1>1, <1>5 DEF KeepsUp, Busy
    <3>3. Holds(p)' /\ page_idx_read' = Filling'
      BY <3>2, <2>1, <1>1 DEF Holds
    <3>4. marked \in Nat
      BY <1>0, Contents
    <3> QED
      BY <3>2, <3>3, <3>4, <2>1, <1>1 DEF KeepsUp
  <2> QED
    BY <2>4, <2>5, <2>6, <1>2, <1>3 DEF RingInv
<1> QED
  BY <1>4, <1>5

(* The bit of the page that follows is cleared.                            *)
LEMMA EmptyStep ==
  ASSUME TypeOK, NoGap, Counted, RingInv, LoadEmpty \/ StoreEmpty
  PROVE  NoGap' /\ Counted' /\ RingInv'
<1>0. /\ Recorded /\ RingOrder /\ Bits /\ InOrder /\ KeepsUp
  BY DEF RingInv
<1>1. /\ UNCHANGED <<p, slot, page_idx_read, file, keptUp, broken>>
      /\ UNCHANGED <<pages, page, entry_idx, page_idx_write, lpc, log_service, rword, apc>>
      /\ recorded' = recorded /\ marked' = marked
      /\ InPage' = InPage /\ Filling' = Filling /\ LastSaved' = LastSaved
      /\ page_idx_read \in Pages
  BY DiskLeaves DEF LoadEmpty, StoreEmpty, ringVars, historyVars, LastSaved, TypeOK
<1>2. Counted' /\ Recorded' /\ RingOrder'
  BY <1>0, DiskLeaves
<1>3. NoGap'
  BY <1>1 DEF NoGap
<1>4. CASE LoadEmpty
  <2>1. dpc = "mark" /\ dpc' = "store" /\ dword' = is_page_full /\ is_page_full' = is_page_full
    BY <1>4 DEF LoadEmpty, ringVars
  <2>2. UNCHANGED ringCore
    BY <2>1, <1>1 DEF ringCore
  <2>3. InPage' = InPage /\ Filling' = Filling /\ page_idx_write' = page_idx_write
    BY <1>1
  <2>4. InOrder' /\ KeepsUp'
    BY <2>1, <2>2, <2>3, <1>0, Still
  <2>5. Bits'
    BY <2>1, <1>0, <1>1 DEF Bits
  <2> QED
    BY <2>4, <2>5, <1>2, <1>3 DEF RingInv
<1>5. CASE StoreEmpty
  <2>1. /\ dpc = "store" /\ dpc' = "next" /\ dword' = dword
        /\ is_page_full' = [dword EXCEPT ![page_idx_read] = FALSE]
    BY <1>5 DEF StoreEmpty
  <2>2. /\ \A i \in Pages : is_page_full'[i] => dword[i]
        /\ ~is_page_full'[page_idx_read]
    BY <2>1, <1>1 DEF TypeOK
  <2>3. Bits'
    BY <2>1, <2>2, <1>0, <1>1 DEF Bits
  <2>4. InOrder'
    <3>1. Fresh(page_idx_read)' <=> Fresh(page_idx_read)
      BY <1>1 DEF Fresh
    <3> QED
      BY <3>1, <2>1, <2>2, <1>0, <1>1 DEF InOrder, Busy
  <2>5. KeepsUp'
    BY <2>1, <2>2, <1>0, <1>1 DEF KeepsUp, Busy
  <2> QED
    BY <2>3, <2>4, <2>5, <1>2, <1>3 DEF RingInv
<1> QED
  BY <1>4, <1>5

(* An entry of the page is written, the last has been, or the file fails.  *)
LEMMA SaveStep ==
  ASSUME TypeOK, NoGap, Counted, RingInv, WriteFile
  PROVE  /\ NoGap' /\ Counted' /\ RingInv'
         /\ \/ UNCHANGED <<recorded, file, broken>>
            \/ broken' = TRUE /\ UNCHANGED <<recorded, file>>
            \/ /\ \E e \in 1..recorded : (broken \/ e > LastSaved) /\ file' = Append(file, e)
               /\ UNCHANGED <<recorded, broken>>
<1>0. /\ Recorded /\ RingOrder /\ Bits /\ InOrder /\ KeepsUp
  BY DEF RingInv
<1>1. /\ dpc = "copy" /\ UNCHANGED <<is_page_full, dword, page_idx_read, p>>
      /\ UNCHANGED <<pages, page, entry_idx, page_idx_write, lpc, log_service, rword, apc>>
      /\ recorded' = recorded /\ marked' = marked
      /\ InPage' = InPage /\ Filling' = Filling
      /\ p \in Pages /\ page_idx_read \in Pages /\ slot \in Nat /\ slot <= PageSize
      /\ PageSize \in Nat /\ PageSize > 0 /\ Len(file) \in Nat /\ marked \in Nat
  <2>1. dpc = "copy" /\ UNCHANGED <<is_page_full, dword, page_idx_read, p>>
    BY DEF WriteFile, ringVars
  <2>2. /\ UNCHANGED <<pages, page, entry_idx, page_idx_write, lpc, log_service, rword, apc>>
        /\ recorded' = recorded /\ marked' = marked
        /\ InPage' = InPage /\ Filling' = Filling
    BY DiskLeaves
  <2>3. p \in Pages /\ page_idx_read \in Pages /\ slot \in Nat /\ slot <= PageSize
    BY LogConstants DEF TypeOK
  <2>4. PageSize \in Nat /\ PageSize > 0 /\ Len(file) \in Nat /\ marked \in Nat
    BY <1>0, Contents, LogConstants, LenProperties DEF TypeOK
  <2> QED
    BY <2>1, <2>2, <2>3, <2>4
<1>2. Counted' /\ Recorded' /\ RingOrder'
  BY <1>0, DiskLeaves
<1>3. Bits' \/ dpc' = "store"
  BY <1>0, <1>1 DEF Bits
<1>4. /\ LastSaved \in Nat
      /\ \A j \in Slots : j \in Nat /\ pages[p][j] \in Nat /\ 0 < pages[p][j]
                          /\ pages[p][j] <= recorded
  <2>1. LastSaved \in Nat
    BY LenProperties, LogConstants DEF LastSaved, TypeOK
  <2> QED
    BY <2>1, <1>0, <1>1, Contents, LogConstants DEF Bits
<1>5. CASE slot < PageSize /\ file' = Append(file, pages[p][slot]) /\ slot' = slot + 1 /\ UNCHANGED <<dpc, keptUp, broken>>
  <2> DEFINE e == pages[p][slot]
  <2>1. slot \in Slots /\ e \in 1..recorded /\ e \in 0..MaxEntry
    <3>1. slot \in Slots
      BY <1>1, <1>5, LogConstants
    <3>2. e \in 0..MaxEntry
      BY <3>1, <1>1 DEF TypeOK
    <3>3. recorded \in Nat
      BY <1>0, Contents
    <3> QED
      BY <3>1, <3>2, <3>3, <1>4
  <2>2. /\ Len(file') = Len(file) + 1 /\ \A j \in 1..Len(file) : file'[j] = file[j]
        /\ file'[Len(file) + 1] = e /\ LastSaved' = e
    <3>1. /\ Len(file') = Len(file) + 1 /\ \A j \in 1..Len(file) : file'[j] = file[j]
          /\ file'[Len(file) + 1] = e /\ file' # <<>>
      BY <2>1, <1>5, Appended DEF TypeOK
    <3> QED
      BY <3>1 DEF LastSaved
  <2>3. dpc' = "copy" /\ slot' = slot + 1 /\ keptUp' = keptUp /\ broken' = broken
    BY <1>1, <1>5
  <2>4. Bits'
    BY <2>3, <1>3
  <2>5. ASSUME ~broken
        PROVE  /\ LastSaved < e /\ e <= marked /\ Whole(p)
               /\ \A j \in Slots : slot + 1 <= j => e < pages[p][j]
    <3>1. Whole(p) /\ LastSaved < e /\ e <= marked
      BY <2>1, <2>5, <1>0, <1>1, Contents DEF InOrder
    <3>2. ~Zero(p)
      <4>1. e # 0
        BY <2>1
      <4> QED
        BY <2>1, <4>1 DEF Zero
    <3>3. Rising(p)
      BY <3>1, <3>2, <1>0, <1>1 DEF RingOrder
    <3>4. \A j \in Slots : slot + 1 <= j => slot < j
      BY <1>1, <1>4
    <3> QED
      BY <3>1, <3>3, <3>4, <2>1 DEF Rising
  <2>6. InOrder'
    <3>1. SUFFICES ASSUME ~broken  PROVE InOrder'
      BY <2>3 DEF InOrder
    <3>2. /\ Whole(p)'
          /\ page_idx_read = Filling \/ Newer(page_idx_read, p)'
      <4>1. Whole(p)'
        BY <3>1, <2>5, <1>1 DEF Whole
      <4>2. page_idx_read = Filling \/ Newer(page_idx_read, p)
        BY <3>1, <1>0, <1>1 DEF InOrder
      <4>3. Newer(page_idx_read, p) => Newer(page_idx_read, p)'
        BY <1>1 DEF Newer
      <4> QED
        BY <4>1, <4>2, <4>3
    <3>3. \E j \in Slots : e <= pages[p][j]
      BY <2>1, <1>4
    <3>4. /\ LastSaved' <= marked'
          /\ \A j \in Slots : slot' <= j => LastSaved' < pages'[p'][j]
          /\ \E j \in Slots : LastSaved' <= pages'[p'][j]
      <4> HIDE DEF e
      <4>1. LastSaved' <= marked'
        BY <3>1, <2>2, <2>5, <1>1
      <4>2. \A j \in Slots : slot' <= j => LastSaved' < pages'[p'][j]
        BY <3>1, <2>2, <2>3, <2>5, <1>1
      <4>3. \E j \in Slots : LastSaved' <= pages'[p'][j]
        BY <3>3, <2>2, <1>1
      <4> QED
        BY <4>1, <4>2, <4>3
    <3> QED
      BY <3>2, <3>4, <2>3, <1>1 DEF InOrder, Busy
  <2>7. ASSUME keptUp
        PROVE  /\ Len(file) + PageSize = marked + slot /\ e = Len(file) + 1 /\ Holds(p)
               /\ page_idx_read = Filling
    <3>1. Len(file) + PageSize = marked + slot /\ Holds(p) /\ page_idx_read = Filling
      BY <2>7, <1>0, <1>1 DEF KeepsUp, Busy
    <3>2. e + PageSize = marked + slot + 1
      BY <3>1, <2>1 DEF Holds
    <3> QED
      BY <3>1, <3>2, <2>1, <1>1, <1>4
  <2>8. NoGap'
    <3>1. SUFFICES ASSUME keptUp  PROVE NoGap'
      BY <2>3 DEF NoGap
    <3>2. ASSUME NEW j \in 1..(Len(file) + 1)  PROVE file'[j] = j
      <4>1. CASE j \in 1..Len(file)
        BY <3>1, <4>1, <2>2 DEF NoGap
      <4>2. CASE j = Len(file) + 1
        BY <3>1, <4>2, <2>2, <2>7
      <4> QED
        BY <4>1, <4>2, <1>1
    <3> QED
      BY <3>2, <2>2 DEF NoGap
  <2>9. KeepsUp'
    <3>1. SUFFICES ASSUME keptUp  PROVE KeepsUp'
      BY <2>3 DEF KeepsUp
    <3>2. Holds(p)' /\ page_idx_read' = Filling'
      BY <3>1, <2>7, <1>1 DEF Holds
    <3>3. Len(file') + PageSize = marked' + slot'
      BY <3>1, <2>2, <2>3, <2>7, <1>1
    <3> QED
      BY <3>2, <3>3, <2>3 DEF KeepsUp
  <2>10. \E x \in 1..recorded : (broken \/ x > LastSaved) /\ file' = Append(file, x)
    <3>1. broken \/ e > LastSaved
      BY <2>5
    <3>2. file' = Append(file, e)
      BY <1>5
    <3> HIDE DEF e
    <3> QED
      BY <3>1, <3>2, <2>1
  <2> QED
    BY <2>3, <2>4, <2>6, <2>8, <2>9, <2>10, <1>1, <1>2 DEF RingInv
<1>6. CASE slot = PageSize /\ dpc' = "mark" /\ UNCHANGED <<file, slot, keptUp, broken>>
  <2>1. LastSaved' = LastSaved
    BY <1>6 DEF LastSaved
  <2>2. Bits'
    BY <1>3, <1>6
  <2>3. NoGap'
    BY <1>6 DEF NoGap
  <2>4. InOrder'
    <3>1. SUFFICES ASSUME ~broken  PROVE InOrder'
      BY <1>6 DEF InOrder
    <3>2. LastSaved <= marked /\ (page_idx_read = Filling \/ Newer(page_idx_read, p))
      BY <3>1, <1>0, <1>1 DEF InOrder
    <3>3. PICK j \in Slots : LastSaved <= pages[p][j]
      BY <3>1, <1>0, <1>1 DEF InOrder
    <3>4. \A m \in Slots : pages[page_idx_read][m] \in Nat
      BY <1>0, <1>1, Contents
    <3>5. Newer(page_idx_read, p) => Fresh(page_idx_read)
      BY <3>3, <3>4, <1>4 DEF Newer, Fresh
    <3>6. Fresh(page_idx_read) => Fresh(page_idx_read)'
      BY <2>1, <1>1 DEF Fresh
    <3> QED
      BY <3>2, <3>5, <3>6, <2>1, <1>1, <1>6 DEF InOrder, Busy
  <2>5. KeepsUp'
    <3>1. SUFFICES ASSUME keptUp  PROVE KeepsUp'
      BY <1>6 DEF KeepsUp
    <3>2. Len(file) + PageSize = marked + slot /\ page_idx_read = Filling
      BY <3>1, <1>0, <1>1 DEF KeepsUp, Busy
    <3> QED
      BY <3>2, <1>1, <1>6 DEF KeepsUp
  <2> QED
    BY <2>2, <2>3, <2>4, <2>5, <1>1, <1>2, <1>6 DEF RingInv
<1>7. CASE MayFail /\ dpc' = ReturnFalse /\ broken' = TRUE /\ keptUp' = FALSE /\ UNCHANGED <<file, slot>>
  <2>1. dpc' \in {"exit", "final"} /\ broken' /\ ~keptUp' /\ file' = file
    BY <1>7 DEF ReturnFalse
  <2>2. Bits' /\ InOrder' /\ KeepsUp' /\ NoGap'
    BY <2>1, <1>3 DEF InOrder, KeepsUp, NoGap
  <2> QED
    BY <2>2, <1>1, <1>2, <1>7 DEF RingInv
<1> QED
  BY <1>5, <1>6, <1>7 DEF WriteFile

(***************************************************************************)
(* The session.                                                            *)
(***************************************************************************)
(* The service starts with the invariants.                                 *)
LEMMA LogStart == Init => LogInv
<1> SUFFICES ASSUME Init  PROVE LogInv
  OBVIOUS
<1>1. /\ pages = [i \in Pages |-> [j \in Slots |-> 0]]
      /\ is_page_full = [i \in Pages |-> FALSE] /\ rword = is_page_full /\ dword = is_page_full
      /\ page = NoPage /\ entry_idx = 0 /\ downsample_cnt = 0
      /\ page_idx_write = 0 /\ page_idx_read = 0 /\ p = 0 /\ slot = 0
      /\ lpc = "cycle" /\ dpc = "none" /\ apc = "idle" /\ ~log_service
      /\ recorded = 0 /\ marked = 0 /\ file = <<>> /\ ~broken
  BY DEF Init
<1>2. TypeOK
  <2>1. /\ pages \in [Pages -> [Slots -> 0..MaxEntry]]
        /\ is_page_full \in [Pages -> BOOLEAN]
        /\ rword \in [Pages -> BOOLEAN] /\ dword \in [Pages -> BOOLEAN]
    BY <1>1, LogConstants
  <2>2. /\ page \in Pages \cup {NoPage}
        /\ entry_idx \in 0..PageSize /\ downsample_cnt \in 0..DownsampleRate
        /\ page_idx_write \in Pages /\ page_idx_read \in Pages
        /\ p \in Pages /\ slot \in 0..PageSize
        /\ recorded \in 0..MaxEntry /\ marked \in 0..MaxEntry
    BY <1>1, LogConstants
  <2>3. file \in Seq(0..MaxEntry)
    BY <1>1, EmptySeq
  <2>4. /\ deleted \in BOOLEAN /\ log_service \in BOOLEAN /\ logging \in BOOLEAN
        /\ final \in BOOLEAN /\ keptUp \in BOOLEAN /\ broken \in BOOLEAN
        /\ log_thread_active \in BOOLEAN /\ log_thread_end \in BOOLEAN
    BY DEF Init
  <2>5. /\ lpc \in {"cycle", "set", "call", "step", "write", "mark", "store", "next",
                    "done", "crashed"}
        /\ dpc \in {"none", "new", "loop", "check", "next", "copy", "mark", "store",
                    "final", "exit", "dead"}
        /\ apc \in {"idle", "starting", "attached", "waiting", "joining", "gone",
                    "failing", "failed"}
    BY <1>1
  <2> QED
    BY <2>1, <2>2, <2>3, <2>4, <2>5 DEF TypeOK
<1>3. /\ InPage = 0 /\ Filling = 0 /\ Len(file) = 0 /\ LastSaved = 0
      /\ \A i \in Pages : ~is_page_full[i] /\ ~rword[i] /\ ~dword[i]
      /\ \A i \in Pages, j \in Slots : pages[i][j] = 0
  BY <1>1, EmptySeq DEF InPage, Filling, LastSaved
<1>4. NoGap
  BY <1>1, <1>3 DEF NoGap
<1>5. Counted
  BY <1>1, <1>3 DEF Counted
<1>6. Recorded
  BY <1>1, <1>3, LogConstants DEF Recorded
<1>7. RingOrder
  BY <1>3 DEF RingOrder, Zero
<1>8. Bits
  BY <1>1, <1>3 DEF Bits
<1>9. InOrder
  BY <1>1, <1>3, LogConstants DEF InOrder, Busy
<1>10. KeepsUp
  BY <1>1, <1>3, LogConstants DEF KeepsUp
<1> QED
  BY <1>2, <1>4, <1>5, <1>6, <1>7, <1>8, <1>9, <1>10 DEF LogInv

(* What LogFile allows in a step.                                          *)
Allowed ==
  \/ UNCHANGED <<recorded, file, broken>>
  \/ recorded' = recorded + 1 /\ broken' \in {broken, TRUE} /\ file' = file
  \/ broken' = TRUE /\ UNCHANGED <<recorded, file>>
  \/ /\ \E e \in 1..recorded : (broken \/ e > LastSaved) /\ file' = Append(file, e)
     /\ UNCHANGED <<recorded, broken>>

(* Every step of the three threads keeps the invariants, and is one that   *)
(* LogFile allows.                                                         *)
LEMMA LogStep ==
  ASSUME LogInv, [Next]_vars
  PROVE  LogInv' /\ Allowed
<1>0. TypeOK /\ NoGap
  BY DEF LogInv
<1>1. CASE UNCHANGED vars
  <2>1. UNCHANGED <<pages, is_page_full, page, entry_idx, page_idx_write, page_idx_read, downsample_cnt, deleted>>
        /\ UNCHANGED <<lpc, log_service, logging, rword>>
        /\ UNCHANGED <<dpc, p, slot, final, dword, log_thread_active, log_thread_end>>
        /\ UNCHANGED <<apc, recorded, file, marked, keptUp, broken>>
    BY <1>1 DEF vars, ringVars, rtVars, diskVars, historyVars
  <2>2. UNCHANGED ringCore /\ SameWords /\ dpc' = dpc /\ page_idx_write' = page_idx_write
    BY <2>1 DEF ringCore, SameWords
  <2>3. InPage' = InPage /\ Filling' = Filling
    BY <2>1 DEF InPage, Filling
  <2>4. TypeOK'
    BY <1>0, <2>1 DEF TypeOK
  <2>5. Counted => Counted'
    BY <2>1, <2>3 DEF Counted
  <2>6. /\ NoGap'
        /\ Recorded => Recorded'
        /\ RingOrder => RingOrder'
        /\ Bits => Bits'
        /\ InOrder => InOrder'
        /\ KeepsUp => KeepsUp'
    BY <1>0, <2>2, <2>3, Still
  <2>7. Allowed
    BY <2>1 DEF Allowed
  <2> QED
    BY <2>1, <2>4, <2>5, <2>6, <2>7 DEF LogInv
<1>2. CASE Next
  <2>1. lpc # "crashed" /\ Counted /\ RingInv
    BY <1>2 DEF Next, LogInv, RingInv
  <2>2. ASSUME NoGap' /\ (lpc' # "crashed" => Counted' /\ RingInv'), TypeOK'
        PROVE  LogInv'
    BY <2>2 DEF LogInv, RingInv
  <2>3. CASE RtThread
    <3>1. TypeOK'
      BY <2>1, <2>3, <1>0, RtTypes
    <3>2. CASE \/ TestLogService \/ SetLogging \/ CallStep \/ Downsample \/ Crash
               \/ WriteEntry \/ ClearLogging
      <4>1. Allowed
        BY <3>2 DEF TestLogService, SetLogging, CallStep, Downsample, Crash, WriteEntry, ClearLogging,
                    historyVars, Allowed
      <4> QED
        BY <4>1, <3>1, <3>2, <2>1, <2>2, <1>0, CycleStep
    <3>3. CASE LoadFull \/ GetNextPageToWrite
      <4>1. Allowed
        BY <3>3 DEF LoadFull, GetNextPageToWrite, historyVars, Allowed
      <4> QED
        BY <4>1, <3>1, <3>3, <2>1, <2>2, <1>0, IndexStep
    <3>4. CASE RecordEntry
      <4>1. recorded' = recorded + 1 /\ broken' \in {broken, TRUE} /\ file' = file
        BY <3>4, <1>0 DEF RecordEntry, PageWaits, TypeOK
      <4> QED
        BY <4>1, <3>1, <3>4, <2>1, <2>2, <1>0, RecordStep DEF Allowed
    <3>5. CASE StoreFull
      <4>1. Allowed
        BY <3>5 DEF StoreFull, Allowed
      <4> QED
        BY <4>1, <3>1, <3>5, <2>1, <2>2, <1>0, FullStep
    <3> QED
      BY <3>2, <3>3, <3>4, <3>5, <2>3 DEF RtThread
  <2>4. CASE DiskThread \/ RpcThread
    <3>1. TypeOK'
      BY <2>4, <1>0, DiskTypes
    <3>2. CASE ThreadStart \/ LoopTop \/ CheckPage \/ WriteFinal \/ ThreadExit \/ RpcThread
      <4>1. Allowed
        BY <3>2 DEF ThreadStart, LoopTop, CheckPage, WriteFinal, ThreadExit, RpcThread, Startup,
                    AttachLogService, RemoveLogService, WaitLogging, Join, historyVars, Allowed
      <4> QED
        BY <4>1, <3>1, <3>2, <2>1, <2>2, <1>0, OtherStep
    <3>3. CASE GetNextPageToRead
      <4>1. Allowed
        BY <3>3 DEF GetNextPageToRead, historyVars, Allowed
      <4> QED
        BY <4>1, <3>1, <3>3, <2>1, <2>2, <1>0, TakeStep
    <3>4. CASE LoadEmpty \/ StoreEmpty
      <4>1. Allowed
        BY <3>4 DEF LoadEmpty, StoreEmpty, historyVars, Allowed
      <4> QED
        BY <4>1, <3>1, <3>4, <2>1, <2>2, <1>0, EmptyStep
    <3>5. CASE WriteFile
      <4>1. NoGap' /\ Counted' /\ RingInv' /\ Allowed
        BY <3>5, <2>1, <1>0, SaveStep DEF Allowed
      <4> QED
        BY <4>1, <3>1, <2>2
    <3> QED
      BY <3>2, <3>3, <3>4, <3>5, <2>4 DEF DiskThread
  <2> QED
    BY <2>3, <2>4, <1>2 DEF Next
<1> QED
  BY <1>1, <1>2

(* The invariants hold of every session, for any number of pages, any page *)
(* size, any rate, and wherever a file fails or a client ends the session. *)
THEOREM LogInvariant == Spec => []LogInv
<1>1. LogInv /\ [Next]_vars => LogInv'
  BY LogStep
<1> QED
  BY <1>1, LogStart, PTL DEF Spec

(* Every variable keeps its type: the indices stay within the ring and the *)
(* page, whatever the three threads do.                                    *)
THEOREM LogTypeCorrect == Spec => []TypeOK
<1>1. LogInv => TypeOK
  BY DEF LogInv
<1> QED
  BY <1>1, LogInvariant, PTL

(* As long as a page is on disk before the next one is complete, nothing   *)
(* is missing from the files of M3RtLogService.                            *)
THEOREM LosesNothing == Spec => []NoGap
<1>1. LogInv => NoGap
  BY DEF LogInv
<1> QED
  BY <1>1, LogInvariant, PTL

(* ... and the disk thread goes to sleep only when every complete page is  *)
(* on disk: WritePagesToDisk leaves none behind.                           *)
THEOREM SleepsWhenWritten == Spec => KeptUpWritten
<1>1. LogInv /\ [Next]_vars => [keptUp /\ dpc = "next" /\ dpc' = "loop" => LastSaved = marked]_vars
  <2>1. SUFFICES ASSUME LogInv, Next, keptUp, dpc = "next", dpc' = "loop"
                 PROVE  LastSaved = marked
    OBVIOUS
  <2>2. TypeOK /\ NoGap /\ KeepsUp
    BY <2>1 DEF LogInv, Next
  <2>3. GetNextPageToRead
    BY <2>1 DEF Next, RtThread, TestLogService, SetLogging, CallStep, Downsample, RecordEntry, Crash,
                WriteEntry, LoadFull, StoreFull, GetNextPageToWrite, ClearLogging, DiskThread, ThreadStart,
                LoopTop, CheckPage, WriteFile, LoadEmpty, StoreEmpty, WriteFinal, ThreadExit, RpcThread,
                Startup, AttachLogService, RemoveLogService, WaitLogging, Join, rtVars, diskVars
  <2>4. ~is_page_full[page_idx_read]
    BY <2>1, <2>3 DEF GetNextPageToRead
  <2>5. Len(file) = marked
    BY <2>1, <2>2, <2>4 DEF KeepsUp, Busy
  <2> QED
    BY <2>1, <2>2, <2>5, LastIsLen
<1> QED
  BY <1>1, LogInvariant, PTL DEF Spec, KeptUpWritten

(* M3RtLogService implements LogFile: the files hold entries that were     *)
(* recorded, each at most once and in order, until a file fails or the     *)
(* ring is overrun, whatever becomes of the bits that two threads set      *)
(* without a lock.                                                         *)
THEOREM LogsInOrder == Spec => OrderedLog
<1>1. Init => Log!Init
  BY DEF Init, Log!Init
<1>2. LogInv /\ [Next]_vars => [Log!Record \/ Log!Save \/ Log!Break]_<<recorded, file, broken>>
  <2>1. SUFFICES ASSUME Allowed
                 PROVE  [Log!Record \/ Log!Save \/ Log!Break]_<<recorded, file, broken>>
    BY LogStep
  <2>2. LastSaved = Log!Newest
    BY DEF LastSaved, Log!Newest
  <2> QED
    BY <2>1, <2>2 DEF Allowed, Log!Record, Log!Save, Log!Break
<1> QED
  BY <1>1, <1>2, LogInvariant, PTL DEF Spec, OrderedLog, Log!Spec
=============================================================================
