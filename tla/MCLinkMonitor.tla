---------------------------- MODULE MCLinkMonitor ----------------------------
(* LinkMonitor for TLC.                                                     *)
EXTENDS LinkMonitor

\* Lease, renewal and rebinding time in minutes.
MCOneLease == {<<3, 1, 2>>}
=============================================================================
