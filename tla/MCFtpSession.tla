---------------------------- MODULE MCFtpSession ----------------------------
(***************************************************************************)
(* The session on small instances: the sizes of the x64 build for the      *)
(* messages, and the sets of faults the runs choose from.                  *)
(***************************************************************************)
EXTENDS FtpSession

\* Nothing fails.
NoFaults == {}

\* Everything may fail.
AllFaults == FaultKinds
=============================================================================
