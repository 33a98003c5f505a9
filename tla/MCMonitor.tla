----------------------------- MODULE MCMonitor ------------------------------
(* A small instance of Monitor: 1 stands for the default interval.         *)
EXTENDS Monitor

\* Everything down that may be, with no setting; nothing but the steady ones.
SomeSnapshots ==
  {[dbs |-> Databases, down |-> Databases \ Steady, setting |-> Unset],
   [dbs |-> Steady, down |-> {}, setting |-> 0]}
=============================================================================
