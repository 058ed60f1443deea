------------------------------ MODULE MCServer ------------------------------
EXTENDS Server

AllFaults == FaultKinds
=============================================================================
