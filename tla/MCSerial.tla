------------------------------ MODULE MCSerial ------------------------------
(***************************************************************************)
(* Two tasks that write and read up to two characters at a time.           *)
(***************************************************************************)
EXTENDS Serial, TLC
CONSTANTS a, b

Symmetric == Permutations(Task)

MCIoctl == {Default, {"FCSND", "FCRCV", "FCANY"}}

\* With the release of any wait.
MCSpecRelease == Init /\ [][Next \/ \E t \in Task : rel_wai(t)]_svars
=============================================================================
