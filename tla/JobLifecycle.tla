---------------------------- MODULE JobLifecycle ----------------------------
(***************************************************************************)
(* What services/ingestion/jobs.py promises a client about a job, with no  *)
(* store, threads, polls or restarts: a job it was given is queued, may    *)
(* run, and ends done, failed or interrupted; once removed from the list   *)
(* it stays removed, but for an interrupted one, which a poll that began   *)
(* before the removal may put back as interrupted.  The promise is firm    *)
(* until Redis stops answering: from then on records are in two places,    *)
(* and a client may be told anything.                                      *)
(***************************************************************************)
CONSTANT Jobs

VARIABLES
  phase,  \* what a client that asks now is told of each job
  firm    \* whether Redis has answered every call so far

vars == <<phase, firm>>

\* gone and dropped: removed from the list, dropped when it was interrupted.
Phases == {"none", "queued", "running", "done", "failed", "interrupted", "gone", "dropped"}

Init == phase = [j \in Jobs |-> "none"] /\ firm = TRUE

Become(j, from, to) ==
  /\ firm /\ UNCHANGED firm
  /\ phase[j] \in from
  /\ phase' = [phase EXCEPT ![j] = to]

Queue(j) == Become(j, {"none"}, "queued")
Begin(j) == Become(j, {"queued"}, "running")
Succeed(j) == Become(j, {"running"}, "done")
Fail(j) == Become(j, {"running"}, "failed")
\* The gateway that held the job is gone.
Interrupt(j) == Become(j, {"queued", "running"}, "interrupted")
\* Dismissed by the client, or dropped a day after it finished.
Forget(j) == Become(j, {"done", "failed"}, "gone") \/ Become(j, {"interrupted"}, "dropped")
\* A request that read the unfinished record before the job was dropped
\* reports it interrupted only now.
Revive(j) == Become(j, {"dropped"}, "interrupted")

\* The fallback to memory.
FallBack == firm' = FALSE /\ phase' \in [Jobs -> Phases]

Next ==
  \/ \E j \in Jobs : \/ Queue(j) \/ Begin(j) \/ Succeed(j) \/ Fail(j)
                    \/ Interrupt(j) \/ Forget(j) \/ Revive(j)
  \/ FallBack

Spec == Init /\ [][Next]_vars

\* A job that is queued or running does not stay so for ever.
FairSpec == Spec /\ \A j \in Jobs : WF_vars(Succeed(j) \/ Fail(j) \/ Interrupt(j))
=============================================================================
