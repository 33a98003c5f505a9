---------------------------- MODULE Availability ----------------------------
(***************************************************************************)
(* What the availability monitor promises (the package comment of          *)
(* internal/monitor): the latest result per database, and one incident per *)
(* downtime period, from the first failed ping to the first success after  *)
(* it.                                                                     *)
(***************************************************************************)
EXTENDS Naturals

CONSTANTS Databases

VARIABLES
  status,   \* latest result of each database: "none" before the first one
  periods,  \* downtime periods that are over
  ongoing   \* downtime periods that are not: none or one

availabilityVars == <<status, periods, ongoing>>

Results == {"none", "up", "down"}

Init ==
  /\ status = [d \in Databases |-> "none"]
  /\ periods = [d \in Databases |-> 0]
  /\ ongoing = [d \in Databases |-> 0]

\* A success ends the period that is going on, if any.
Succeed(d) ==
  /\ status' = [status EXCEPT ![d] = "up"]
  /\ periods' = [periods EXCEPT ![d] = @ + ongoing[d]]
  /\ ongoing' = [ongoing EXCEPT ![d] = 0]

\* The first failure begins a period; the following ones belong to it.
Fail(d) ==
  /\ status' = [status EXCEPT ![d] = "down"]
  /\ ongoing' = [ongoing EXCEPT ![d] = 1]
  /\ UNCHANGED periods

\* A database is deleted and its history goes with it, or the whole history is
\* replaced by the one of a snapshot, in which a period is going on exactly for
\* the databases that are down.
Replace ==
  /\ status' \in [Databases -> Results]
  /\ periods' \in [Databases -> Nat]
  /\ ongoing' = [d \in Databases |-> IF status'[d] = "down" THEN 1 ELSE 0]

Next == (\E d \in Databases : Succeed(d) \/ Fail(d)) \/ Replace

AvailabilitySpec == Init /\ [][Next]_availabilityVars
=============================================================================
