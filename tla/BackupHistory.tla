--------------------------- MODULE BackupHistory ----------------------------
(***************************************************************************)
(* What the engine promises of the history of executions, whoever reads    *)
(* it: a job is backed up by one run at a time, a row is written only      *)
(* while its job is busy, it is opened and closed once, and retention      *)
(* retires a completed row only while the job has a newer completed one.   *)
(***************************************************************************)
EXTENDS Integers

CONSTANTS Jobs, NoJob, Ids

VARIABLES
  busy,   \* jobs with a run in flight
  owner,  \* the job of each row
  state   \* the status of each row

historyVars == <<busy, owner, state>>

Init ==
  /\ busy = {}
  /\ owner = [id \in Ids |-> NoJob]
  /\ state = [id \in Ids |-> "absent"]

Begin(j) ==
  j \notin busy /\ busy' = busy \union {j} /\ UNCHANGED <<owner, state>>

End(j) == j \in busy /\ busy' = busy \ {j} /\ UNCHANGED <<owner, state>>

\* Ids are given in order, so that a larger id is a newer row.
Open(j, id) ==
  /\ j \in busy
  /\ state[id] = "absent" /\ \A k \in Ids : state[k] # "absent" => k < id
  /\ state' = [state EXCEPT ![id] = "running"]
  /\ owner' = [owner EXCEPT ![id] = j]
  /\ UNCHANGED busy

Close(id, result) ==
  /\ state[id] = "running" /\ owner[id] \in busy
  /\ state' = [state EXCEPT ![id] = result]
  /\ UNCHANGED <<busy, owner>>

HasNewer(id) ==
  \E k \in Ids : k > id /\ owner[k] = owner[id] /\ state[k] = "completed"

Retire(id) ==
  /\ state[id] = "completed" /\ owner[id] \in busy /\ HasNewer(id)
  /\ state' = [state EXCEPT ![id] = "deleted"]
  /\ UNCHANGED <<busy, owner>>

\* The process restarts: rows that were running stay as they are.
Restart == busy' = {} /\ UNCHANGED <<owner, state>>

Next ==
  \/ \E j \in Jobs : Begin(j) \/ End(j)
  \/ \E j \in Jobs, id \in Ids : Open(j, id)
  \/ \E id \in Ids, result \in {"completed", "failed"} : Close(id, result)
  \/ \E id \in Ids : Retire(id)
  \/ Restart

Spec == Init /\ [][Next]_historyVars
=============================================================================
