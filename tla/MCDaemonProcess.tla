---------------------------- MODULE MCDaemonProcess ----------------------------
(* DaemonProcess on small instances.  Clients and pids are interchangeable,   *)
(* which only the run without liveness makes use of.                          *)
EXTENDS DaemonProcess, TLC

ClientsAndPids == Permutations(Clients) \cup Permutations(Pids)
================================================================================
