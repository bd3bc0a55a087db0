-------------------------------- MODULE Jobs --------------------------------
(***************************************************************************)
(* The background-job registry of jobs/jobs.go with its callers: the tools *)
(* that start, poll, kill and await jobs, the user's /jobs command, and    *)
(* the turn that folds finished jobs into its message (control/input.go).  *)
(*                                                                         *)
(* One step is one critical section of m.mu or j.mu, one context           *)
(* cancellation or one close of j.done.  Output holds m.mu only to find    *)
(* the job; jobs are never removed, so the lookup is part of the step.     *)
(* The loop of resolve over the running jobs and the loop of Wait over its *)
(* targets are one step each: nothing here relates two jobs of one call.   *)
(***************************************************************************)
EXTENDS Naturals, Sequences

CONSTANTS
  Waiters,    \* concurrent calls of Wait
  MaxJobs,    \* bound: jobs of one session
  MaxWrites   \* bound: chunks one job streams

ASSUME MaxJobsAssumption == MaxJobs \in Nat
ASSUME MaxWritesAssumption == MaxWrites \in Nat

VARIABLES
  seq,         \* m.seq; job j is the j-th started
  rootDone,    \* the session context is cancelled
  cancelled,   \* jobs whose own context is cancelled
  status,      \* j.status
  buf,         \* chunks in j.buf
  readOffset,  \* j.readOffset
  result,      \* j.result
  resultRead,  \* jobs with j.resultRead set
  done,        \* jobs whose j.done is closed
  completed,   \* m.completed, as a set of <<job, status>>
  pc,          \* where each job's goroutine stands
  killing,     \* jobs flipped by a Kill that has not yet called j.cancel
  targets,     \* what each waiter blocks on ({}: not waiting)
  composing,   \* the note a turn in preparation has drained
  told,        \* history: completions put in a message to the model
  drained,     \* history: completions taken out of m.completed
  surfaced,    \* history: what Output returned of each job, in order
  polled,      \* history: chunks there were at the last good bash_output
  modelSaw     \* history: chunks bash_output returned to the model

runVars == <<status, buf, result, done, completed, pc>>
ctxVars == <<rootDone, cancelled, killing>>
readVars == <<readOffset, resultRead, surfaced, polled, modelSaw>>
turnVars == <<composing, told, drained>>
vars == <<seq, runVars, ctxVars, readVars, turnVars, targets>>

JobIDs == 1..MaxJobs
Started == 1..seq
Terminal == {"done", "failed", "killed"}
Notes == JobIDs \X Terminal
ResultText == "result"

(* The state is well-typed, only started jobs have any, and a goroutine's  *)
(* place agrees with the job's status.                                     *)
TypeOK ==
  /\ seq \in 0..MaxJobs
  /\ rootDone \in BOOLEAN
  /\ cancelled \subseteq Started
  /\ killing \subseteq Started
  /\ status \in [JobIDs -> {"none", "running"} \cup Terminal]
  /\ buf \in [JobIDs -> 0..MaxWrites]
  /\ readOffset \in [JobIDs -> 0..MaxWrites]
  /\ result \in [JobIDs -> {"", "answer", "error"}]
  /\ resultRead \subseteq Started
  /\ done \subseteq Started
  /\ completed \subseteq Notes
  /\ pc \in [JobIDs -> {"none", "launch", "run", "record", "close", "exit"}]
  /\ targets \in [Waiters -> SUBSET Started]
  /\ composing \subseteq Notes
  /\ told \subseteq Notes
  /\ drained \subseteq Notes
  /\ polled \in [JobIDs -> 0..MaxWrites]
  /\ modelSaw \subseteq JobIDs \X (1..MaxWrites)
  /\ \A j \in JobIDs : /\ j \in Started <=> pc[j] # "none"
                       /\ status[j] = "none" <=> pc[j] = "none"
                       /\ pc[j] \in {"record", "close", "exit"} =>
                            status[j] \in Terminal

Init ==
  /\ seq = 0
  /\ rootDone = FALSE
  /\ cancelled = {}
  /\ killing = {}
  /\ status = [j \in JobIDs |-> "none"]
  /\ buf = [j \in JobIDs |-> 0]
  /\ readOffset = [j \in JobIDs |-> 0]
  /\ result = [j \in JobIDs |-> ""]
  /\ resultRead = {}
  /\ done = {}
  /\ completed = {}
  /\ pc = [j \in JobIDs |-> "none"]
  /\ targets = [w \in Waiters |-> {}]
  /\ composing = {}
  /\ told = {}
  /\ drained = {}
  /\ surfaced = [j \in JobIDs |-> <<>>]
  /\ polled = [j \in JobIDs |-> 0]
  /\ modelSaw = {}

-----------------------------------------------------------------------------
(* The job's goroutine.                                                    *)

(* Start registers the job; its context descends from the session's, so    *)
(* after Close it is born cancelled.                                       *)
Start ==
  /\ seq < MaxJobs
  /\ seq' = seq + 1
  /\ cancelled' = IF rootDone THEN cancelled \cup {seq + 1} ELSE cancelled
  /\ status' = [status EXCEPT ![seq + 1] = "running"]
  /\ pc' = [pc EXCEPT ![seq + 1] = "launch"]
  /\ UNCHANGED <<rootDone, killing, buf, result, done, completed, readVars,
                 turnVars, targets>>

(* ... and launches the goroutine after the "started" notice.              *)
Launch(j) ==
  /\ pc[j] = "launch"
  /\ pc' = [pc EXCEPT ![j] = "run"]
  /\ UNCHANGED <<seq, status, buf, result, done, completed, ctxVars, readVars,
                 turnVars, targets>>

(* The command or sub-agent streams a chunk, killed or not.                *)
Write(j) ==
  /\ pc[j] = "run"
  /\ buf[j] < MaxWrites
  /\ buf' = [buf EXCEPT ![j] = @ + 1]
  /\ UNCHANGED <<seq, status, result, done, completed, pc, ctxVars, readVars,
                 turnVars, targets>>

NeverKilled(j, failed) == IF failed THEN "failed" ELSE "done"  \* mutant
(* The status of a job whose run returned.                                 *)
Verdict(j, failed) ==
  IF j \in cancelled THEN "killed" ELSE IF failed THEN "failed" ELSE "done"

(* run returned: the first critical section of the goroutine.              *)
Return(j, text, failed) ==
  /\ pc[j] = "run"
  /\ status' = [status EXCEPT ![j] = Verdict(j, failed)]
  /\ result' = [result EXCEPT ![j] =
                  IF Verdict(j, failed) = "failed" /\ text = ""
                  THEN "error" ELSE text]
  /\ pc' = [pc EXCEPT ![j] = "record"]
  /\ UNCHANGED <<seq, buf, done, completed, ctxVars, readVars, turnVars,
                 targets>>

RecordCompletion(j) ==
  /\ pc[j] = "record"
  /\ completed' = completed \cup {<<j, status[j]>>}
  /\ pc' = [pc EXCEPT ![j] = "close"]
  /\ UNCHANGED <<seq, status, buf, result, done, ctxVars, readVars, turnVars,
                 targets>>

CloseEarly(j) == pc[j] \in {"record", "close"}   \* mutant: before the note
Noted(j) == pc[j] = "close"

Signal(j) == done \cup {j}

CloseDone(j) ==
  /\ Noted(j)
  /\ done' = Signal(j)
  /\ pc' = [pc EXCEPT ![j] = "exit"]
  /\ UNCHANGED <<seq, status, buf, result, completed, ctxVars, readVars,
                 turnVars, targets>>

-----------------------------------------------------------------------------
(* Kill, Close and Wait.                                                   *)

Killable(j) == status[j] = "running"

(* Kill flips the status under j.mu and unlocks ...                        *)
KillFlip(j) ==
  /\ Killable(j)
  /\ status' = [status EXCEPT ![j] = "killed"]
  /\ killing' = killing \cup {j}
  /\ UNCHANGED <<seq, rootDone, cancelled, buf, result, done, completed, pc,
                 readVars, turnVars, targets>>

CancelNothing(j) == cancelled              \* mutant: the flip is all
CancelJob(j) == cancelled \cup {j}

(* ... before it cancels the job's context.                                *)
KillCancel(j) ==
  /\ j \in killing
  /\ killing' = killing \ {j}
  /\ cancelled' = CancelJob(j)
  /\ UNCHANGED <<seq, rootDone, runVars, readVars, turnVars, targets>>

CloseReaches == cancelled \cup Started

Close ==
  /\ ~rootDone
  /\ rootDone' = TRUE
  /\ cancelled' = CloseReaches
  /\ UNCHANGED <<seq, killing, runVars, readVars, turnVars, targets>>

(* Wait on the named jobs that exist, or on all running ones; with none to *)
(* wait for it returns at once.                                            *)
Wait(w, S) ==
  /\ targets[w] = {}
  /\ S # {}
  /\ S \subseteq Started
  /\ targets' = [targets EXCEPT ![w] = S]
  /\ UNCHANGED <<seq, runVars, ctxVars, readVars, turnVars>>

WaitDone(w) ==
  /\ targets[w] # {}
  /\ targets[w] \subseteq done
  /\ targets' = [targets EXCEPT ![w] = {}]
  /\ UNCHANGED <<seq, runVars, ctxVars, readVars, turnVars>>

(* The caller's context is cancelled, or the timeout elapses.              *)
WaitGiveUp(w) ==
  /\ targets[w] # {}
  /\ targets' = [targets EXCEPT ![w] = {}]
  /\ UNCHANGED <<seq, runVars, ctxVars, readVars, turnVars>>

-----------------------------------------------------------------------------
(* Output, read by bash_output (the model) and by /jobs output (the user). *)

New(j) == readOffset[j] + 1 .. buf[j]

MarkRead(j) == resultRead \cup {j}

ShowsResult(j) ==
  /\ New(j) = {}
  /\ status[j] # "running"
  /\ result[j] # ""
  /\ j \notin resultRead

KeepOffset(j) == readOffset[j]             \* mutant: readOffset is not moved
Advance(j) == buf[j]

Output(j) ==
  /\ j \in Started
  /\ readOffset' = [readOffset EXCEPT ![j] = Advance(j)]
  /\ resultRead' = IF ShowsResult(j) THEN MarkRead(j) ELSE resultRead
  /\ surfaced' = [surfaced EXCEPT ![j] =
       IF ShowsResult(j) THEN Append(@, ResultText)
       ELSE @ \o [i \in 1..(buf[j] - readOffset[j]) |-> readOffset[j] + i]]
  /\ UNCHANGED <<seq, runVars, ctxVars, turnVars, targets>>

(* bash_output returns the lines its filter keeps; an invalid filter is    *)
(* found only after Output has consumed them.                              *)
BashOutput(j, valid) ==
  /\ Output(j)
  /\ IF valid
     THEN /\ polled' = [polled EXCEPT ![j] = buf[j]]
          /\ modelSaw' = modelSaw \cup ({j} \X New(j))
     ELSE UNCHANGED <<polled, modelSaw>>

(* /jobs output reads through the same offset.                             *)
JobsText(j) ==
  /\ Output(j)
  /\ UNCHANGED <<polled, modelSaw>>

-----------------------------------------------------------------------------
(* The turn that tells the model.                                          *)

DrainClears == {}

(* Compose, at the start of a turn, drains the note; turns run one at a    *)
(* time, and a turn with nothing to drain leaves all of this alone.        *)
Compose ==
  /\ composing = {}
  /\ completed # {}
  /\ composing' = completed
  /\ completed' = DrainClears
  /\ drained' = drained \cup completed
  /\ UNCHANGED <<seq, status, buf, result, done, pc, ctxVars, readVars, told,
                 targets>>

(* The composed message goes to the model ...                              *)
SendMessage ==
  /\ composing # {}
  /\ told' = told \cup composing
  /\ composing' = {}
  /\ UNCHANGED <<seq, runVars, ctxVars, readVars, drained, targets>>

(* ... unless a UserPromptSubmit hook blocks the prompt.                   *)
PromptBlocked ==
  /\ composing # {}
  /\ composing' = {}
  /\ UNCHANGED <<seq, runVars, ctxVars, readVars, told, drained, targets>>

Goroutine(j) ==
  \/ Launch(j)
  \/ Write(j)
  \/ \E text \in {"", "answer"}, failed \in BOOLEAN : Return(j, text, failed)
  \/ RecordCompletion(j)
  \/ CloseDone(j)

Next ==
  \/ Start \/ Close
  \/ \E j \in JobIDs : Goroutine(j) \/ KillFlip(j) \/ KillCancel(j)
  \/ \E w \in Waiters : WaitDone(w) \/ WaitGiveUp(w)
  \/ \E w \in Waiters, S \in SUBSET JobIDs : Wait(w, S)
  \/ \E j \in JobIDs, valid \in BOOLEAN : BashOutput(j, valid)
  \/ \E j \in JobIDs : JobsText(j)
  \/ Compose \/ SendMessage \/ PromptBlocked

Spec == Init /\ [][Next]_vars

(* Goroutines run, a Kill that flipped the status goes on to cancel, and   *)
(* run returns once its context is cancelled: exec.CommandContext with     *)
(* WaitDelay and the sub-agent loop both end then.  A job nobody cancels   *)
(* may run for ever.                                                       *)
Fairness ==
  /\ \A j \in JobIDs :
       /\ WF_vars(Launch(j) \/ RecordCompletion(j) \/ CloseDone(j))
       /\ WF_vars(KillCancel(j))
       /\ WF_vars(/\ j \in cancelled
                  /\ \E text \in {"", "answer"}, failed \in BOOLEAN :
                       Return(j, text, failed))
  /\ \A w \in Waiters : WF_vars(WaitDone(w))

FairSpec == Spec /\ Fairness

-----------------------------------------------------------------------------
(* A Wait that returns because a job finished finds the completion already *)
(* queued, so DrainCompletedNote cannot run ahead of it.                   *)
DoneImpliesNoted ==
  \A j \in done : \E v \in Terminal : <<j, v>> \in completed \cup drained

(* A completion is drained at most once, one per job, and says what the    *)
(* job's status says: no late Kill changes it.                             *)
NoteOnceAndTrue ==
  /\ completed \cap drained = {}
  /\ \A n \in completed \cup drained : status[n[1]] = n[2]

(* The completion notes: there before a waiter wakes, drained once, true.  *)
NotesAreTrue == DoneImpliesNoted /\ NoteOnceAndTrue

(* Nothing a waiter was told changes afterwards: status, result and output *)
(* of a finished job are final.                                            *)
FinishedIsFinal ==
  [][\A j \in done : /\ status'[j] = status[j]
                     /\ result'[j] = result[j]
                     /\ buf'[j] = buf[j]]_vars

(* The calls of Output, whoever makes them, together return every chunk    *)
(* once and in order, and the result once, after the last chunk.           *)
OutputOnceInOrder ==
  \A j \in JobIDs :
    LET chunks == [i \in 1..readOffset[j] |-> i]
    IN \/ surfaced[j] = chunks
       \/ readOffset[j] = buf[j] /\ surfaced[j] = Append(chunks, ResultText)

(* Refinement: the registry behaves like JobLifecycle.                     *)
Phase ==
  [j \in JobIDs |->
     CASE pc[j] = "none" -> "absent"
       [] pc[j] \in {"launch", "run"} -> "live"
       [] pc[j] = "record" -> "decided"
       [] pc[j] = "close" -> "noted"
       [] OTHER -> "finished"]

Decided ==
  [j \in JobIDs |->
     IF pc[j] \in {"record", "close", "exit"} THEN status[j] ELSE "none"]

Lifecycle == INSTANCE JobLifecycle
               WITH phase <- Phase, verdict <- Decided, queued <- completed

ImplementsLifecycle == Lifecycle!Spec

(* A job finishes once it was killed or the registry was closed, whatever  *)
(* its goroutine was doing by then.                                        *)
CancelledFinishes ==
  \A j \in JobIDs : (j \in killing \/ (rootDone /\ j \in Started)) ~> (j \in done)

(* A Wait on cancelled jobs returns.                                       *)
WaitersReturn ==
  \A w \in Waiters : (targets[w] \subseteq cancelled) ~> (targets[w] = {})

(* Kill and Close take effect: the jobs finish and their waiters return.   *)
JobsSettle == CancelledFinishes /\ WaitersReturn

-----------------------------------------------------------------------------
(* Claimed: once Kill has flipped a running job, it stays killed ("the     *)
(* goroutine still sets Killed", jobs.go:212).                             *)
KilledStaysKilled ==
  [][\A j \in JobIDs : status[j] = "killed" => status'[j] = "killed"]_vars

(* Claimed: the model itself learns of completions (jobs.go:13): a drained *)
(* note is in a message to the model or in the turn being prepared.        *)
CompletionReachesModel ==
  drained \subseteq told \cup composing

(* Claimed: bash_output returns the output produced since the last         *)
(* bash_output call for that job (tool/builtin/bgjobs.go:37).              *)
BashOutputComplete == \A j \in JobIDs : {j} \X (1..polled[j]) \subseteq modelSaw
=============================================================================
