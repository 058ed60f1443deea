-------------------------- MODULE MCFtpSessionRpc --------------------------
(* The refinement on the faults that leave the framing alone. *)
EXTENDS FtpSessionRpc

FramedFaults == FaultKinds \ {"priv", "acceptError"}
=============================================================================
