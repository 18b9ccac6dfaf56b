------------------------------ MODULE RunHistory ------------------------------
(***************************************************************************)
(* What a staged pipeline promises about the runs in its store: a run is   *)
(* opened once, the results of its stages are appended one at a time and   *)
(* never changed, and it is planned, for good, once every stage has one.   *)
(***************************************************************************)
EXTENDS Naturals, Sequences

CONSTANTS RunId,     \* the runs a store may come to hold
          NStages    \* the stages of a run

VARIABLES done,      \* run -> the outputs of its stages that are durable
          status     \* run -> "none", "open" or "planned"

historyVars == <<done, status>>

Coherent(r) ==
    /\ Len(done[r]) <= NStages
    /\ status[r] = "none" => done[r] = <<>>
    /\ status[r] = "planned" => Len(done[r]) = NStages

\* The store may come from an earlier version of the program.
HistoryInit ==
    /\ DOMAIN done = RunId
    /\ status \in [RunId -> {"none", "open", "planned"}]
    /\ \A r \in RunId : Coherent(r)

OpenRun(r) ==
    /\ status[r] = "none"
    /\ status' = [status EXCEPT ![r] = "open"]
    /\ UNCHANGED done

RecordResult(r) ==
    /\ status[r] = "open"
    /\ Len(done[r]) < NStages
    /\ Len(done'[r]) = Len(done[r]) + 1
    /\ SubSeq(done'[r], 1, Len(done[r])) = done[r]
    /\ done' = [done EXCEPT ![r] = done'[r]]
    /\ UNCHANGED status

PlanRun(r) ==
    /\ status[r] = "open"
    /\ Len(done[r]) = NStages
    /\ status' = [status EXCEPT ![r] = "planned"]
    /\ UNCHANGED done

HistoryNext == \E r \in RunId : OpenRun(r) \/ RecordResult(r) \/ PlanRun(r)

HistorySpec == HistoryInit /\ [][HistoryNext]_historyVars
===============================================================================
