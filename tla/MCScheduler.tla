---------------------------- MODULE MCScheduler -----------------------------
(* A small instance of Scheduler.                                          *)
EXTENDS Scheduler

CONSTANTS daily, broken, tokyo

SomeOffsets == {3, -13}

\* An offset to which Etc/GMT has a zone, and one to which it has none.
SomeForms ==
  [enabled: {TRUE}, schedule: {daily}, zone: {3, -13}]
    \union [enabled: {TRUE}, schedule: {NoSchedule}, zone: {-13}]

\* Older configurations: with one job of those there are, in a zone by name, and
\* with a schedule that cron does not parse.
SomeSnapshots ==
  {[NoRows EXCEPT ![1] = [enabled |-> TRUE, schedule |-> s, zone |-> tokyo]] :
     s \in {daily, broken}}
=============================================================================
