------------------------------ MODULE LogFile ------------------------------
(***************************************************************************)
(* What a log session promises, whatever the pages, indices and threads of *)
(* M3RtLogService do: the files hold entries that were recorded, each at   *)
(* most once and in the order they were recorded.  Entries may be missing. *)
(* Once a file could not be written, or the ring of pages was overrun,     *)
(* only their being recorded is left.                                      *)
(***************************************************************************)
EXTENDS Naturals, Sequences

VARIABLES
  recorded, \* number of entries recorded so far: they are 1..recorded
  file,     \* the entries of all files, in the order they were written
  broken    \* a file could not be written, or the ring was overrun

Newest == IF file = <<>> THEN 0 ELSE file[Len(file)]

Init == recorded = 0 /\ file = <<>> /\ broken = FALSE

Record ==
  /\ recorded' = recorded + 1
  /\ broken' \in {broken, TRUE}
  /\ UNCHANGED file

Save ==
  /\ \E e \in 1..recorded : /\ broken \/ e > Newest
                            /\ file' = Append(file, e)
  /\ UNCHANGED <<recorded, broken>>

Break == broken' = TRUE /\ UNCHANGED <<recorded, file>>

Spec == Init /\ [][Record \/ Save \/ Break]_<<recorded, file, broken>>
=============================================================================
