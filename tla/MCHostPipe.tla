----------------------------- MODULE MCHostPipe -----------------------------
(* Instances of HostPipe; the configurations give the constants.            *)
EXTENDS HostPipe
=============================================================================
