---------------------------- MODULE ProxyClient ----------------------------
(***************************************************************************)
(* The two kinds of script that use a proxy, each from one thread: one     *)
(* runs a control loop over the data link, the other reads logs back while *)
(* other clients record them.                                              *)
(***************************************************************************)
EXTENDS DataLink, LogReader

VARIABLE script

vars == <<script, linkVars, logVars>>

TypeOK == LinkTypeOK /\ ReaderTypeOK /\ script \in {"control", "read"}
Init == LinkInit /\ ReaderInit /\ script \in {"control", "read"}
Next ==
  \/ script = "control" /\ LinkNext /\ UNCHANGED <<script, logVars>>
  \/ script = "read" /\ (Reader \/ LogServer) /\ UNCHANGED <<script, linkVars>>

\* The client's own receive goes on; the service promises nothing.
Spec == Init /\ [][Next]_vars /\ WF_vars(Receive /\ UNCHANGED <<script, logVars>>)
=============================================================================
