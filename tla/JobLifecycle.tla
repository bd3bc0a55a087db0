---------------------------- MODULE JobLifecycle ----------------------------
(***************************************************************************)
(* What jobs/jobs.go promises about a background job, without locks,       *)
(* buffers or waiters: a job lives until its verdict is decided, the       *)
(* verdict is queued for the model exactly once, and only then is the job  *)
(* finished for those who wait on it.  "killed" is the verdict exactly of  *)
(* the jobs whose context was cancelled when they returned.                *)
(***************************************************************************)
EXTENDS Naturals

CONSTANT MaxJobs    \* bound: jobs of one session

VARIABLES
  phase,      \* of each job
  verdict,    \* "none" until decided
  queued,     \* verdicts waiting for the next turn
  drained,    \* verdicts a turn has taken
  cancelled   \* jobs whose context is cancelled

vars == <<phase, verdict, queued, drained, cancelled>>

Jobs == 1..MaxJobs
Phases == {"absent", "live", "decided", "noted", "finished"}
Verdicts == {"done", "failed", "killed"}

Init ==
  /\ phase = [j \in Jobs |-> "absent"]
  /\ verdict = [j \in Jobs |-> "none"]
  /\ queued = {}
  /\ drained = {}
  /\ cancelled = {}

(* A job starts live; after Close it starts cancelled.                     *)
Start(j) ==
  /\ phase[j] = "absent"
  /\ phase' = [phase EXCEPT ![j] = "live"]
  /\ cancelled' \in {cancelled, cancelled \cup {j}}
  /\ UNCHANGED <<verdict, queued, drained>>

(* kill_shell or Close reach the contexts of some started jobs.            *)
Cancel(S) ==
  /\ \A j \in S : phase[j] # "absent"
  /\ cancelled' = cancelled \cup S
  /\ UNCHANGED <<phase, verdict, queued, drained>>

Decide(j, v) ==
  /\ phase[j] = "live"
  /\ (v = "killed") <=> (j \in cancelled)
  /\ phase' = [phase EXCEPT ![j] = "decided"]
  /\ verdict' = [verdict EXCEPT ![j] = v]
  /\ UNCHANGED <<queued, drained, cancelled>>

Note(j) ==
  /\ phase[j] = "decided"
  /\ phase' = [phase EXCEPT ![j] = "noted"]
  /\ queued' = queued \cup {<<j, verdict[j]>>}
  /\ UNCHANGED <<verdict, drained, cancelled>>

Finish(j) ==
  /\ phase[j] = "noted"
  /\ phase' = [phase EXCEPT ![j] = "finished"]
  /\ UNCHANGED <<verdict, queued, drained, cancelled>>

Drain ==
  /\ drained' = drained \cup queued
  /\ queued' = {}
  /\ UNCHANGED <<phase, verdict, cancelled>>

Next ==
  \/ \E j \in Jobs : Start(j) \/ Note(j) \/ Finish(j)
  \/ \E j \in Jobs, v \in Verdicts : Decide(j, v)
  \/ \E S \in SUBSET Jobs : Cancel(S)
  \/ Drain

Spec == Init /\ [][Next]_vars
=============================================================================
