------------------------------ MODULE GoalLoop ------------------------------
(***************************************************************************)
(* Turns and the standing goal of control/controller.go: runGuarded admits *)
(* one turn at a time, the turn runs the agent and then runGoalLoop, which *)
(* re-prompts the agent until its own verdict says the goal is met, the    *)
(* work stalls or the user cancels.  Frontends send, set and clear goals   *)
(* and cancel at any moment.                                               *)
(*                                                                         *)
(* One step is one critical section of c.mu, one call of a cancel func or  *)
(* one append to the session.  The session is abstracted to what the loop  *)
(* reads: who speaks, and the verdict a final answer carries.              *)
(***************************************************************************)
EXTENDS Naturals, Sequences, FiniteSetsExt, SequenceTheorems, TLAPS

CONSTANTS
  Goals,      \* goal conditions
  NoGoal,     \* no goal is armed
  MaxTurns,   \* bound: turns of one behaviour
  MaxRuns,    \* bound: runs of the agent; a cancelled turn may add one
  MaxWork,    \* bound: tool rounds of one behaviour
  MaxSets     \* bound: goals set in one behaviour

ASSUME GoalsAssumption == NoGoal \notin Goals
ASSUME BoundsAssumption ==
  MaxTurns \in Nat /\ MaxRuns \in Nat /\ MaxWork \in Nat /\ MaxSets \in Nat

VARIABLES
  running,     \* c.running
  cancelRef,   \* the turn c.cancel cancels (0: nil)
  turn,        \* turns started so far
  pc,          \* where each turn's goroutine stands
  turnErr,     \* the error each turn's body returned
  goal,        \* c.goalCond
  stall,       \* c.goalStall
  autoApp,     \* c.goalAutoApp
  msgs,        \* the session: records [k: kind, r: run that wrote it]
  runs,        \* runs of the agent so far
  work,        \* tool rounds so far
  inLoop,      \* the running body is in a continuation
  cond,        \* runGoalLoop's cond
  since,       \* runGoalLoop's since
  before,      \* runGoalLoop's before
  ctxDone,     \* turns whose context is cancelled
  cancelling,  \* turns whose cancel func a client holds and will call
  kick,        \* a client inside SetGoal + Send: "no", "check", "send"
  clearing,    \* a client between ClearGoal's clear and its Cancel
  sets         \* goals set so far

turnVars == <<running, cancelRef, turn, pc, turnErr>>
goalVars == <<goal, stall, autoApp>>
sessVars == <<msgs, runs, work>>
loopVars == <<inLoop, cond, since, before>>
userVars == <<ctxDone, cancelling, kick, clearing, sets>>
vars == <<turnVars, goalVars, sessVars, loopVars, userVars>>

Turns == 1..MaxTurns
Kinds == {"user", "call", "result", "met", "unmet", "plain", "empty",
          "summary"}
Body == {"prompt", "model", "goal", "check", "arm", "reset", "progress",
         "clear", "finish"}
NoMessage == [k |-> "none", r |-> 0]

(* The state is well-typed and the running flag is up exactly while a body *)
(* runs.                                                                   *)
TypeOK ==
  /\ running \in BOOLEAN
  /\ cancelRef \in 0..turn
  /\ turn \in 0..MaxTurns
  /\ pc \in [Turns -> Body \cup {"none", "emit", "exit"}]
  /\ turnErr \in [Turns -> {"none", "error", "canceled"}]
  /\ goal \in Goals \cup {NoGoal}
  /\ stall \in 0..2
  /\ autoApp \in BOOLEAN
  /\ \A i \in DOMAIN msgs : msgs[i].k \in Kinds /\ msgs[i].r \in 0..runs
  /\ runs \in 0..(MaxRuns + MaxTurns)
  /\ work \in 0..MaxWork
  /\ inLoop \in BOOLEAN
  /\ cond \in Goals \cup {NoGoal}
  /\ since \in Nat
  /\ before \in Nat
  /\ ctxDone \subseteq 1..turn
  /\ cancelling \subseteq 1..turn
  /\ kick \in {"no", "check", "send"}
  /\ clearing \in BOOLEAN
  /\ sets \in 0..MaxSets
  /\ running <=> \E t \in Turns : pc[t] \in Body
  /\ running => pc[cancelRef] \in Body

Init ==
  /\ running = FALSE
  /\ cancelRef = 0
  /\ turn = 0
  /\ pc = [t \in Turns |-> "none"]
  /\ turnErr = [t \in Turns |-> "none"]
  /\ goal = NoGoal
  /\ stall = 0
  /\ autoApp = FALSE
  /\ msgs = <<>>
  /\ runs = 0
  /\ work = 0
  /\ inLoop = FALSE
  /\ cond = NoGoal
  /\ since = 0
  /\ before = 0
  /\ ctxDone = {}
  /\ cancelling = {}
  /\ kick = "no"
  /\ clearing = FALSE
  /\ sets = 0

Goto(t, l) == pc' = [pc EXCEPT ![t] = l]

-----------------------------------------------------------------------------
(* runGuarded and the agent's run.                                         *)

Free == ~running

(* A turn is admitted only when none runs.                                 *)
Admit ==
  /\ Free
  /\ turn < MaxTurns
  /\ runs < MaxRuns
  /\ turn' = turn + 1
  /\ running' = TRUE
  /\ cancelRef' = turn + 1
  /\ Goto(turn + 1, "prompt")
  /\ inLoop' = FALSE
  /\ UNCHANGED <<turnErr, goalVars, sessVars, cond, since, before>>

Send ==
  /\ Admit
  /\ UNCHANGED userVars

Say(kind) == Append(msgs, [k |-> kind, r |-> runs'])

(* RunMessage appends the prompt first ...                                 *)
Prompt(t) ==
  /\ pc[t] = "prompt"
  /\ runs < MaxRuns \/ t \in ctxDone
  /\ runs' = runs + 1
  /\ msgs' = Say("user")
  /\ Goto(t, "model")
  /\ UNCHANGED <<running, cancelRef, turn, turnErr, goalVars, work, loopVars,
                 userVars>>

(* What compact leaves: a summary of at least two messages and a tail of   *)
(* at least two that does not begin with a tool result.                    *)
Compactions(s) ==
  {<<[k |-> "summary", r |-> 0]>> \o SubSeq(s, i, Len(s)) :
     i \in {n \in 3..(Len(s) - 1) : s[n].k # "result"}}

(* ... then alternates tool rounds, each of which may end in a compaction, *)
Work(t) ==
  /\ pc[t] = "model"
  /\ work < MaxWork
  /\ work' = work + 1
  /\ LET s == msgs \o <<[k |-> "call", r |-> runs], [k |-> "result", r |-> runs]>>
     IN msgs' \in {s} \cup Compactions(s)
  /\ UNCHANGED <<turnVars, goalVars, runs, loopVars, userVars>>

AfterRun == IF inLoop THEN "reset" ELSE "goal"

(* ... with a final answer that may be empty, and in a continuation, where *)
(* the prompt asks for it, carry a verdict,                                *)
Answer(t, kind) ==
  /\ pc[t] = "model"
  /\ kind \in {"plain", "empty"} \cup (IF inLoop THEN {"met", "unmet"} ELSE {})
  /\ msgs' = Append(msgs, [k |-> kind, r |-> runs])
  /\ Goto(t, AfterRun)
  /\ UNCHANGED <<running, cancelRef, turn, turnErr, goalVars, runs, work,
                 loopVars, userVars>>

(* ... or fails; a cancelled context shows up as such an error.            *)
Fail(t, err) ==
  /\ pc[t] = "model"
  /\ err \in {"error", "canceled"}
  /\ err = "canceled" <=> t \in ctxDone
  /\ turnErr' = [turnErr EXCEPT ![t] = err]
  /\ Goto(t, IF inLoop THEN "reset" ELSE "finish")
  /\ UNCHANGED <<running, cancelRef, turn, goalVars, sessVars, loopVars,
                 userVars>>

StayOnError(t) == turnErr[t] # "none"  \* mutant: an error skips the reset
Reopen(t) == FALSE

Finish(t) ==
  /\ pc[t] = "finish"
  /\ running' = Reopen(t)
  /\ cancelRef' = 0
  /\ Goto(t, "emit")
  /\ UNCHANGED <<turn, turnErr, goalVars, sessVars, loopVars, userVars>>

(* TurnDone goes out after the guard is open again.                        *)
EmitTurnDone(t) ==
  /\ pc[t] = "emit"
  /\ Goto(t, "exit")
  /\ UNCHANGED <<running, cancelRef, turn, turnErr, goalVars, sessVars,
                 loopVars, userVars>>

-----------------------------------------------------------------------------
(* runGoalLoop.                                                            *)

EnterLoop(t) ==
  /\ pc[t] = "goal"
  /\ cond' = goal
  /\ since' = 0
  /\ Goto(t, IF goal = NoGoal THEN "finish" ELSE "check")
  /\ UNCHANGED <<running, cancelRef, turn, turnErr, goalVars, sessVars, inLoop,
                 before, userVars>>

(* parseGoalVerdict: the newest assistant message with text at an index    *)
(* (from 0) not below since.                                               *)
Speaks(m) == m.k \in {"met", "unmet", "plain"}
Verdict ==
  LET said == {i \in DOMAIN msgs : i > since /\ Speaks(msgs[i])}
  IN IF said = {} THEN NoMessage ELSE msgs[Max(said)]

Cancelled(t) == t \in ctxDone

Check(t) ==
  /\ pc[t] = "check"
  /\ Goto(t, IF Cancelled(t) THEN "finish"
             ELSE IF Verdict.k = "met" THEN "clear" ELSE "arm")
  /\ UNCHANGED <<running, cancelRef, turn, turnErr, goalVars, sessVars,
                 loopVars, userVars>>

Arm(t) ==
  /\ pc[t] = "arm"
  /\ runs < MaxRuns \/ t \in ctxDone
  /\ autoApp' = TRUE
  /\ before' = Len(msgs)
  /\ since' = Len(msgs)
  /\ inLoop' = TRUE
  /\ Goto(t, "prompt")
  /\ UNCHANGED <<running, cancelRef, turn, turnErr, goal, stall, sessVars, cond, userVars>>

ResetOnSuccess(t) == turnErr[t] # "none"   \* mutant: reset after the err check
ResetAlways(t) == FALSE

Reset(t) ==
  /\ pc[t] = "reset"
  /\ autoApp' = ResetAlways(t)
  /\ Goto(t, IF turnErr[t] # "none" \/ Cancelled(t) THEN "finish"
             ELSE "progress")
  /\ UNCHANGED <<running, cancelRef, turn, turnErr, goal, stall, sessVars, loopVars, userVars>>

(* The stall detector counts runs that left the session no longer.         *)
Progress(t) ==
  /\ pc[t] = "progress"
  /\ stall' = IF Len(msgs) <= before THEN stall + 1 ELSE 0
  /\ Goto(t, IF stall' >= 2 THEN "clear" ELSE "check")
  /\ UNCHANGED <<running, cancelRef, turn, turnErr, goal, autoApp, sessVars, loopVars, userVars>>

(* clearGoal, after a met verdict or a stall.                              *)
Clear(t) ==
  /\ pc[t] = "clear"
  /\ goal' = NoGoal
  /\ stall' = 0
  /\ autoApp' = FALSE
  /\ Goto(t, "finish")
  /\ UNCHANGED <<running, cancelRef, turn, turnErr, sessVars, loopVars,
                 userVars>>

-----------------------------------------------------------------------------
(* The frontends.                                                          *)

SetGoal(g) ==
  /\ kick = "no"
  /\ sets < MaxSets
  /\ sets' = sets + 1
  /\ goal' = g
  /\ stall' = 0
  /\ autoApp' = FALSE
  /\ kick' = "check"
  /\ UNCHANGED <<turnVars, sessVars, loopVars, ctxDone, cancelling,
                 clearing>>

(* /goal then sends the condition if no turn runs.                         *)
KickCheck ==
  /\ kick = "check"
  /\ kick' = IF running THEN "no" ELSE "send"
  /\ UNCHANGED <<turnVars, goalVars, sessVars, loopVars, ctxDone, cancelling,
                 clearing, sets>>

KickSend ==
  /\ kick = "send"
  /\ kick' = "no"
  /\ IF running
     THEN UNCHANGED <<turnVars, goalVars, sessVars, loopVars>>
     ELSE Admit
  /\ UNCHANGED <<ctxDone, cancelling, clearing, sets>>

ThenCancel == TRUE

ClearGoal ==
  /\ ~clearing
  /\ goal # NoGoal
  /\ goal' = NoGoal
  /\ stall' = 0
  /\ autoApp' = FALSE
  /\ clearing' = ThenCancel
  /\ UNCHANGED <<turnVars, sessVars, loopVars, ctxDone, cancelling,
                 kick, sets>>

(* Cancel fetches c.cancel under c.mu ...                                  *)
Fetch ==
  /\ clearing' = FALSE
  /\ cancelling' = cancelling \cup ({cancelRef} \ {0})
  /\ UNCHANGED <<turnVars, goalVars, sessVars, loopVars, ctxDone, kick, sets>>

ClearGoalCancels == clearing /\ Fetch
Cancel == ~clearing /\ running /\ Fetch

(* ... and calls it after unlocking.                                       *)
CallCancel(t) ==
  /\ t \in cancelling
  /\ cancelling' = cancelling \ {t}
  /\ ctxDone' = ctxDone \cup {t}
  /\ UNCHANGED <<turnVars, goalVars, sessVars, loopVars, kick, clearing, sets>>

BodyStep(t) ==
  \/ Prompt(t) \/ Finish(t) \/ EmitTurnDone(t)
  \/ EnterLoop(t) \/ Check(t) \/ Arm(t) \/ Reset(t) \/ Progress(t) \/ Clear(t)

RunEnds(t) ==
  \/ \E kind \in Kinds : Answer(t, kind)
  \/ \E err \in {"error", "canceled"} : Fail(t, err)

Next ==
  \/ \E t \in Turns : BodyStep(t) \/ Work(t) \/ RunEnds(t) \/ CallCancel(t)
  \/ Send \/ KickCheck \/ KickSend \/ ClearGoal \/ ClearGoalCancels \/ Cancel
  \/ \E g \in Goals : SetGoal(g)

Spec == Init /\ [][Next]_vars

(* The turn's goroutine runs, a run of the agent ends, a client that has   *)
(* entered ClearGoal, Cancel or /goal goes on to its end.                  *)
Fairness ==
  /\ \A t \in Turns : /\ WF_vars(BodyStep(t))
                      /\ WF_vars(RunEnds(t))
                      /\ WF_vars(CallCancel(t))
  /\ WF_vars(KickCheck)
  /\ WF_vars(KickSend)
  /\ WF_vars(ClearGoalCancels)

FairSpec == Spec /\ Fairness

-----------------------------------------------------------------------------
(* One turn at a time: the run loop is the session's only writer.          *)
OneTurn ==
  \A t, u \in Turns : pc[t] \in Body /\ pc[u] \in Body => t = u

(* Auto-approval is on only inside a continuation: no path out of the run, *)
(* failed or cancelled, leaves it on for ordinary turns.                   *)
AutoApproveOnlyInLoop ==
  autoApp => \E t \in Turns : inLoop /\ pc[t] \in {"prompt", "model", "reset"}

(* Turns do not overlap, and none of them leaves the loop's auto-approval  *)
(* behind for the next.                                                    *)
TurnsAreApart == TypeOK /\ OneTurn /\ AutoApproveOnlyInLoop

(* A cancelled turn keeps the goal armed: no verdict is read and no run is *)
(* counted after the cancellation is seen.                                 *)
CancelKeepsGoal ==
  [][\A t \in ctxDone :
       pc[t] \in {"prompt", "model", "check", "reset"} =>
         pc'[t] \notin {"clear", "progress", "arm"}]_vars

(* A cancelled turn comes to its TurnDone, also from inside the loop, and  *)
(* the guard is open again for the next one.                               *)
CancelFreesGuard ==
  \A t \in Turns : (t \in ctxDone) ~> (pc[t] = "exit" /\ (~running \/ turn > t))

Looping == \E t \in Turns : inLoop /\ pc[t] \in Body

(* /goal clear stops the grind.                                            *)
ClearStopsLoop == (Looping /\ goal = NoGoal) ~> ~Looping

(* Whoever says stop is heard: Cancel settles the turn, keeps the goal and *)
(* frees the guard, /goal clear ends the grind.                            *)
StopsWhenTold == CancelKeepsGoal /\ CancelFreesGuard /\ ClearStopsLoop
-----------------------------------------------------------------------------
(* Claimed: the loop re-prompts until the verdict on the armed condition   *)
(* says met (controller.go:132): a verdict clears the goal it was given    *)
(* for.                                                                    *)
ClearsItsOwnGoal ==
  [][\A t \in Turns : pc[t] = "clear" /\ pc'[t] = "finish" =>
                        goal \in {cond, NoGoal}]_vars

(* Claimed: the just-finished turn is the newest assistant text, so 0 is   *)
(* correct for the first check (controller.go:431).                        *)
FirstCheckIsFresh ==
  \A t \in Turns : ~inLoop /\ pc[t] = "clear" => Verdict.r = runs

(* Claimed: a run that ended with a met verdict ends the loop              *)
(* (controller.go:132).                                                    *)
MetEndsLoop ==
  \A t \in Turns : pc[t] = "arm" => msgs[Len(msgs)].k # "met"

(* Claimed: the detector fires on runs without progress, no new messages   *)
(* (controller.go:134): a stall is never counted for a run that answered.  *)
StallMeansNoProgress ==
  [][\A t \in Turns : pc[t] = "progress" /\ stall' > stall =>
       ~\E i \in DOMAIN msgs : msgs[i].r = runs /\ msgs[i].k # "user"]_vars

(* Claimed: once armed, the next or the current turn works on the goal     *)
(* (controller.go:518), if nothing fails and nobody cancels.               *)
Undisturbed ==
  ctxDone = {} /\ cancelling = {} /\ \A t \in Turns : turnErr[t] = "none"
GoalIsPursued ==
  \A g \in Goals : (goal = g /\ Undisturbed) ~>
     (goal # g \/ Looping \/ ~Undisturbed \/ turn = MaxTurns \/ runs = MaxRuns)

(* Claimed: TurnDone's error is nil for a user cancellation (event.go:54). *)
CancelIsNoError ==
  \A t \in Turns : pc[t] = "exit" => turnErr[t] # "canceled"

-----------------------------------------------------------------------------
(* Proofs that turns do not overlap and that the goal loop never leaves    *)
(* its auto-approval behind, for any goals and bounds.                     *)

Message(n) == [k : Kinds, r : 0..n]

(* The types of all but the session, and the session as a sequence.        *)
Types ==
  /\ running \in BOOLEAN
  /\ turn \in 0..MaxTurns
  /\ cancelRef \in 0..turn
  /\ pc \in [Turns -> Body \cup {"none", "emit", "exit"}]
  /\ turnErr \in [Turns -> {"none", "error", "canceled"}]
  /\ goal \in Goals \cup {NoGoal}
  /\ cond \in Goals \cup {NoGoal}
  /\ autoApp \in BOOLEAN
  /\ work \in 0..MaxWork
  /\ inLoop \in BOOLEAN
  /\ since \in Nat
  /\ before \in Nat
  /\ ctxDone \subseteq 1..turn
  /\ cancelling \subseteq 1..turn
  /\ kick \in {"no", "check", "send"}
  /\ clearing \in BOOLEAN
  /\ sets \in 0..MaxSets

LogInv == runs \in Nat /\ msgs \in Seq(Message(runs))

(* The guard of runGuarded: a body is that of the turn c.cancel cancels.   *)
GuardInv ==
  /\ \A t \in Turns : pc[t] # "none" => t <= turn
  /\ \A t \in Turns : pc[t] \in Body => running /\ cancelRef = t
  /\ running => cancelRef \in Turns /\ pc[cancelRef] \in Body

(* No turn is admitted and no continuation armed beyond MaxRuns: only a    *)
(* cancelled turn comes out one run above it, and it runs nothing more.    *)
RunsInv ==
  \/ runs <= MaxRuns
  \/ /\ runs = MaxRuns + 1 /\ 1 <= turn
     /\ \A t \in Turns : pc[t] \in Body =>
          t \in ctxDone /\ pc[t] \in {"model", "goal", "check", "reset", "finish"}

(* The second stall in a row clears the goal at once.                      *)
StallInv ==
  /\ stall \in 0..2
  /\ stall = 2 => \E t \in Turns : pc[t] = "clear"

AutoInv ==
  autoApp => \E t \in Turns : inLoop /\ pc[t] \in {"prompt", "model", "reset"}

IInv == Types /\ LogInv /\ GuardInv /\ RunsInv /\ StallInv /\ AutoInv

-----------------------------------------------------------------------------
USE DEF turnVars, goalVars, sessVars, loopVars, userVars

(* Arithmetic of the counters and of the growing log.                      *)
LEMMA Counting ==
  ASSUME turn \in 0..MaxTurns
  PROVE  /\ 0 \in 0..turn
         /\ \A t \in 0..turn : t # 0 => t \in 1..turn
         /\ turn < MaxTurns =>
              /\ turn + 1 \in 0..MaxTurns /\ turn + 1 \in Turns
              /\ turn + 1 \in 0..(turn + 1) /\ 1..turn \subseteq 1..(turn + 1)
<1> QED
  BY BoundsAssumption DEF Turns

LEMMA LogGrows ==
  ASSUME NEW n \in Nat, NEW m \in Nat, n <= m, NEW s \in Seq(Message(n)),
         NEW kind \in Kinds
  PROVE  /\ s \in Seq(Message(m))
         /\ [k |-> kind, r |-> m] \in Message(m)
         /\ Append(s, [k |-> kind, r |-> m]) \in Seq(Message(m))
<1>1. Message(n) \subseteq Message(m)
  BY DEF Message
<1>2. s \in Seq(Message(m))
  BY <1>1, SeqMonotonic
<1>3. [k |-> kind, r |-> m] \in Message(m)
  BY DEF Message
<1> QED
  BY <1>2, <1>3, AppendProperties

(* A compaction leaves a log.                                              *)
LEMMA CompactionIsLog ==
  ASSUME NEW n \in Nat, NEW s \in Seq(Message(n)), NEW c \in Compactions(s)
  PROVE  c \in Seq(Message(n))
<1>1. PICK i \in 3..(Len(s) - 1) :
        c = <<[k |-> "summary", r |-> 0]>> \o SubSeq(s, i, Len(s))
  BY DEF Compactions
<1>2. [k |-> "summary", r |-> 0] \in Message(n)
  BY DEF Message, Kinds
<1>3. <<[k |-> "summary", r |-> 0]>> \in Seq(Message(n))
  BY <1>2
<1>4. SubSeq(s, i, Len(s)) \in Seq(Message(n))
  <2>1. Len(s) \in Nat
    BY LenProperties
  <2>2. i \in Int /\ Len(s) \in Int /\ i..Len(s) \subseteq 1..Len(s)
    BY <2>1
  <2>3. \A j \in i..Len(s) : s[j] \in Message(n)
    BY <2>2, ElementOfSeq
  <2> QED
    BY <2>2, <2>3, SubSeqProperties
<1> QED
  BY <1>1, <1>3, <1>4, ConcatProperties


LEMMA StepTypes == IInv /\ [Next]_vars => Types'
<1> SUFFICES ASSUME IInv, [Next]_vars PROVE Types'
  OBVIOUS
<1> USE BoundsAssumption DEF IInv, Types, Turns, Body
<1>1. ASSUME Send PROVE Types'
  <2>1. /\ turn \in 0..MaxTurns /\ turn < MaxTurns /\ turn' = turn + 1
    BY <1>1 DEF Send, Admit
  <2>2. /\ turn + 1 \in 0..MaxTurns /\ turn + 1 \in Turns
        /\ turn + 1 \in 0..(turn + 1) /\ 1..turn \subseteq 1..(turn + 1)
    BY <2>1, Counting
  <2> HIDE DEF Turns
  <2> QED
    BY <1>1, <2>1, <2>2 DEF Send, Admit, Goto
<1>2. ASSUME KickCheck PROVE Types'
  BY <1>2 DEF KickCheck
<1>3. ASSUME KickSend PROVE Types'
  <2>1. CASE running
    BY <1>3, <2>1 DEF KickSend
  <2>2. CASE ~running
    <3>1. turn < MaxTurns /\ turn' = turn + 1
      BY <1>3, <2>2 DEF KickSend, Admit
    <3>2. /\ turn + 1 \in 0..MaxTurns /\ turn + 1 \in Turns
          /\ turn + 1 \in 0..(turn + 1) /\ 1..turn \subseteq 1..(turn + 1)
      BY <3>1, Counting
    <3> HIDE DEF Turns
    <3> QED
      BY <1>3, <2>2, <3>1, <3>2 DEF KickSend, Admit, Goto
  <2> QED
    BY <2>1, <2>2
<1>4. ASSUME ClearGoal PROVE Types'
  BY <1>4 DEF ClearGoal, ThenCancel
<1>5. ASSUME ClearGoalCancels PROVE Types'
  <2>1. {cancelRef} \ {0} \subseteq 1..turn
    BY Counting
  <2> QED
    BY <1>5, <2>1 DEF ClearGoalCancels, Fetch
<1>6. ASSUME Cancel PROVE Types'
  <2>1. {cancelRef} \ {0} \subseteq 1..turn
    BY Counting
  <2> QED
    BY <1>6, <2>1 DEF Cancel, Fetch
<1>7. ASSUME NEW g \in Goals, SetGoal(g) PROVE Types'
  <2>1. sets + 1 \in 0..MaxSets
    BY <1>7 DEF SetGoal
  <2> QED
    BY <1>7, <2>1 DEF SetGoal
<1>8. ASSUME NEW t \in Turns, Prompt(t) PROVE Types'
  BY <1>8 DEF Prompt, Say, Goto
<1>9. ASSUME NEW t \in Turns, Finish(t) PROVE Types'
  <2>1. 0 \in 0..turn
    BY Counting
  <2> QED
    BY <1>9, <2>1 DEF Finish, Reopen, Goto
<1>10. ASSUME NEW t \in Turns, EmitTurnDone(t) PROVE Types'
  BY <1>10 DEF EmitTurnDone, Goto
<1>11. ASSUME NEW t \in Turns, EnterLoop(t) PROVE Types'
  BY <1>11 DEF EnterLoop, Goto
<1>12. ASSUME NEW t \in Turns, Check(t) PROVE Types'
  BY <1>12 DEF Check, Cancelled, Goto
<1>13. ASSUME NEW t \in Turns, Arm(t) PROVE Types'
  BY <1>13 DEF Arm, Goto
<1>14. ASSUME NEW t \in Turns, Reset(t) PROVE Types'
  BY <1>14 DEF Reset, ResetAlways, Cancelled, Goto
<1>15. ASSUME NEW t \in Turns, Progress(t) PROVE Types'
  BY <1>15 DEF Progress, Goto
<1>16. ASSUME NEW t \in Turns, Clear(t) PROVE Types'
  BY <1>16 DEF Clear, Goto
<1>17. ASSUME NEW t \in Turns, Work(t) PROVE Types'
  BY <1>17 DEF Work
<1>18. ASSUME NEW t \in Turns, NEW kind \in Kinds, Answer(t, kind) PROVE Types'
  BY <1>18 DEF Answer, AfterRun, Goto
<1>19. ASSUME NEW t \in Turns, NEW err \in {"error", "canceled"}, Fail(t, err)
      PROVE  Types'
  BY <1>19 DEF Fail, Goto
<1>20. ASSUME NEW t \in Turns, CallCancel(t) PROVE Types'
  BY <1>20 DEF CallCancel
<1>21. CASE UNCHANGED vars
  BY <1>21 DEF vars
<1> HIDE DEF IInv, Types, Turns, Body
<1> QED
  BY <1>1, <1>2, <1>3, <1>4, <1>5, <1>6, <1>7, <1>8, <1>9, <1>10, <1>11,
     <1>12, <1>13, <1>14, <1>15, <1>16, <1>17, <1>18, <1>19, <1>20, <1>21
     DEF Next, BodyStep, RunEnds

LEMMA StepGuard == IInv /\ [Next]_vars => GuardInv'
<1> SUFFICES ASSUME IInv, [Next]_vars PROVE GuardInv'
  OBVIOUS
<1> USE BoundsAssumption DEF IInv, Types, GuardInv, Turns, Body
<1>1. ASSUME Send PROVE GuardInv'
  BY <1>1 DEF Send, Admit, Free, Goto
<1>2. ASSUME KickCheck PROVE GuardInv'
  BY <1>2 DEF KickCheck
<1>3. ASSUME KickSend PROVE GuardInv'
  BY <1>3 DEF KickSend, Admit, Free, Goto
<1>4. ASSUME ClearGoal PROVE GuardInv'
  BY <1>4 DEF ClearGoal, ThenCancel
<1>5. ASSUME ClearGoalCancels PROVE GuardInv'
  BY <1>5 DEF ClearGoalCancels, Fetch
<1>6. ASSUME Cancel PROVE GuardInv'
  BY <1>6 DEF Cancel, Fetch
<1>7. ASSUME NEW g \in Goals, SetGoal(g) PROVE GuardInv'
  BY <1>7 DEF SetGoal
<1>8. ASSUME NEW t \in Turns, Prompt(t) PROVE GuardInv'
  BY <1>8 DEF Prompt, Say, Goto
<1>9. ASSUME NEW t \in Turns, Finish(t) PROVE GuardInv'
  BY <1>9 DEF Finish, Reopen, Goto
<1>10. ASSUME NEW t \in Turns, EmitTurnDone(t) PROVE GuardInv'
  BY <1>10 DEF EmitTurnDone, Goto
<1>11. ASSUME NEW t \in Turns, EnterLoop(t) PROVE GuardInv'
  BY <1>11 DEF EnterLoop, Goto
<1>12. ASSUME NEW t \in Turns, Check(t) PROVE GuardInv'
  BY <1>12 DEF Check, Cancelled, Goto
<1>13. ASSUME NEW t \in Turns, Arm(t) PROVE GuardInv'
  BY <1>13 DEF Arm, Goto
<1>14. ASSUME NEW t \in Turns, Reset(t) PROVE GuardInv'
  BY <1>14 DEF Reset, ResetAlways, Cancelled, Goto
<1>15. ASSUME NEW t \in Turns, Progress(t) PROVE GuardInv'
  BY <1>15 DEF Progress, Goto
<1>16. ASSUME NEW t \in Turns, Clear(t) PROVE GuardInv'
  BY <1>16 DEF Clear, Goto
<1>17. ASSUME NEW t \in Turns, Work(t) PROVE GuardInv'
  BY <1>17 DEF Work
<1>18. ASSUME NEW t \in Turns, NEW kind \in Kinds, Answer(t, kind)
      PROVE  GuardInv'
  BY <1>18 DEF Answer, AfterRun, Goto
<1>19. ASSUME NEW t \in Turns, NEW err \in {"error", "canceled"}, Fail(t, err)
      PROVE  GuardInv'
  BY <1>19 DEF Fail, Goto
<1>20. ASSUME NEW t \in Turns, CallCancel(t) PROVE GuardInv'
  BY <1>20 DEF CallCancel
<1>21. CASE UNCHANGED vars
  BY <1>21 DEF vars
<1> HIDE DEF IInv, Types, GuardInv, Turns, Body
<1> QED
  BY <1>1, <1>2, <1>3, <1>4, <1>5, <1>6, <1>7, <1>8, <1>9, <1>10, <1>11,
     <1>12, <1>13, <1>14, <1>15, <1>16, <1>17, <1>18, <1>19, <1>20, <1>21
     DEF Next, BodyStep, RunEnds

LEMMA StepRuns == IInv /\ [Next]_vars => RunsInv'
<1> SUFFICES ASSUME IInv, [Next]_vars PROVE RunsInv'
  OBVIOUS
<1> USE BoundsAssumption DEF IInv, Types, LogInv, GuardInv, RunsInv, Turns, Body
<1>1. ASSUME Send PROVE RunsInv'
  BY <1>1 DEF Send, Admit, Free, Goto
<1>2. ASSUME KickCheck PROVE RunsInv'
  BY <1>2 DEF KickCheck
<1>3. ASSUME KickSend PROVE RunsInv'
  BY <1>3 DEF KickSend, Admit, Free, Goto
<1>4. ASSUME ClearGoal PROVE RunsInv'
  BY <1>4 DEF ClearGoal, ThenCancel
<1>5. ASSUME ClearGoalCancels PROVE RunsInv'
  BY <1>5 DEF ClearGoalCancels, Fetch
<1>6. ASSUME Cancel PROVE RunsInv'
  BY <1>6 DEF Cancel, Fetch
<1>7. ASSUME NEW g \in Goals, SetGoal(g) PROVE RunsInv'
  BY <1>7 DEF SetGoal
<1>8. ASSUME NEW t \in Turns, Prompt(t) PROVE RunsInv'
  <2>1. /\ pc[t] = "prompt" /\ (runs < MaxRuns \/ t \in ctxDone)
        /\ runs' = runs + 1 /\ UNCHANGED <<turn, ctxDone>>
    BY <1>8 DEF Prompt
  <2>2. runs < MaxRuns \/ runs = MaxRuns
    BY <2>1
  <2>3. CASE runs < MaxRuns
    BY <2>1, <2>3
  <2>4. CASE runs = MaxRuns
    <3>1. t \in ctxDone /\ cancelRef = t /\ t <= turn /\ 1 <= t
      BY <2>1, <2>4
    <3>2. \A u \in Turns : pc'[u] \in Body => u = t /\ pc'[u] = "model"
      BY <1>8 DEF Prompt, Goto
    <3>3. runs' = MaxRuns + 1 /\ 1 <= turn'
      BY <2>1, <2>4, <3>1
    <3> QED
      BY <2>1, <3>1, <3>2, <3>3
  <2> QED
    BY <2>2, <2>3, <2>4
<1>9. ASSUME NEW t \in Turns, Finish(t) PROVE RunsInv'
  BY <1>9 DEF Finish, Reopen, Goto
<1>10. ASSUME NEW t \in Turns, EmitTurnDone(t) PROVE RunsInv'
  BY <1>10 DEF EmitTurnDone, Goto
<1>11. ASSUME NEW t \in Turns, EnterLoop(t) PROVE RunsInv'
  BY <1>11 DEF EnterLoop, Goto
<1>12. ASSUME NEW t \in Turns, Check(t) PROVE RunsInv'
  BY <1>12 DEF Check, Cancelled, Goto
<1>13. ASSUME NEW t \in Turns, Arm(t) PROVE RunsInv'
  BY <1>13 DEF Arm, Goto
<1>14. ASSUME NEW t \in Turns, Reset(t) PROVE RunsInv'
  BY <1>14 DEF Reset, ResetAlways, Cancelled, Goto
<1>15. ASSUME NEW t \in Turns, Progress(t) PROVE RunsInv'
  BY <1>15 DEF Progress, Goto
<1>16. ASSUME NEW t \in Turns, Clear(t) PROVE RunsInv'
  BY <1>16 DEF Clear, Goto
<1>17. ASSUME NEW t \in Turns, Work(t) PROVE RunsInv'
  BY <1>17 DEF Work
<1>18. ASSUME NEW t \in Turns, NEW kind \in Kinds, Answer(t, kind)
      PROVE  RunsInv'
  BY <1>18 DEF Answer, AfterRun, Goto
<1>19. ASSUME NEW t \in Turns, NEW err \in {"error", "canceled"}, Fail(t, err)
      PROVE  RunsInv'
  BY <1>19 DEF Fail, Goto
<1>20. ASSUME NEW t \in Turns, CallCancel(t) PROVE RunsInv'
  BY <1>20 DEF CallCancel
<1>21. CASE UNCHANGED vars
  BY <1>21 DEF vars
<1> HIDE DEF IInv, Types, LogInv, GuardInv, RunsInv, Turns, Body
<1> QED
  BY <1>1, <1>2, <1>3, <1>4, <1>5, <1>6, <1>7, <1>8, <1>9, <1>10, <1>11,
     <1>12, <1>13, <1>14, <1>15, <1>16, <1>17, <1>18, <1>19, <1>20, <1>21
     DEF Next, BodyStep, RunEnds

LEMMA StepStall == IInv /\ [Next]_vars => StallInv'
<1> SUFFICES ASSUME IInv, [Next]_vars PROVE StallInv'
  OBVIOUS
<1> USE BoundsAssumption DEF IInv, Types, GuardInv, StallInv, Body
<1>1. ASSUME Send PROVE StallInv'
  BY <1>1 DEF Send, Admit, Free, Goto
<1>2. ASSUME KickCheck PROVE StallInv'
  BY <1>2 DEF KickCheck
<1>3. ASSUME KickSend PROVE StallInv'
  BY <1>3 DEF KickSend, Admit, Free, Goto
<1>4. ASSUME ClearGoal PROVE StallInv'
  BY <1>4 DEF ClearGoal, ThenCancel
<1>5. ASSUME ClearGoalCancels PROVE StallInv'
  BY <1>5 DEF ClearGoalCancels, Fetch
<1>6. ASSUME Cancel PROVE StallInv'
  BY <1>6 DEF Cancel, Fetch
<1>7. ASSUME NEW g \in Goals, SetGoal(g) PROVE StallInv'
  BY <1>7 DEF SetGoal
<1>8. ASSUME NEW t \in Turns, Prompt(t) PROVE StallInv'
  BY <1>8 DEF Prompt, Say, Goto
<1>9. ASSUME NEW t \in Turns, Finish(t) PROVE StallInv'
  BY <1>9 DEF Finish, Reopen, Goto
<1>10. ASSUME NEW t \in Turns, EmitTurnDone(t) PROVE StallInv'
  BY <1>10 DEF EmitTurnDone, Goto
<1>11. ASSUME NEW t \in Turns, EnterLoop(t) PROVE StallInv'
  BY <1>11 DEF EnterLoop, Goto
<1>12. ASSUME NEW t \in Turns, Check(t) PROVE StallInv'
  BY <1>12 DEF Check, Cancelled, Goto
<1>13. ASSUME NEW t \in Turns, Arm(t) PROVE StallInv'
  BY <1>13 DEF Arm, Goto
<1>14. ASSUME NEW t \in Turns, Reset(t) PROVE StallInv'
  BY <1>14 DEF Reset, ResetAlways, Cancelled, Goto
<1>15. ASSUME NEW t \in Turns, Progress(t) PROVE StallInv'
  BY <1>15 DEF Progress, Goto
<1>16. ASSUME NEW t \in Turns, Clear(t) PROVE StallInv'
  BY <1>16 DEF Clear, Goto
<1>17. ASSUME NEW t \in Turns, Work(t) PROVE StallInv'
  BY <1>17 DEF Work
<1>18. ASSUME NEW t \in Turns, NEW kind \in Kinds, Answer(t, kind)
      PROVE  StallInv'
  BY <1>18 DEF Answer, AfterRun, Goto
<1>19. ASSUME NEW t \in Turns, NEW err \in {"error", "canceled"}, Fail(t, err)
      PROVE  StallInv'
  BY <1>19 DEF Fail, Goto
<1>20. ASSUME NEW t \in Turns, CallCancel(t) PROVE StallInv'
  BY <1>20 DEF CallCancel
<1>21. CASE UNCHANGED vars
  BY <1>21 DEF vars
<1> HIDE DEF IInv, Types, GuardInv, StallInv, Body
<1> QED
  BY <1>1, <1>2, <1>3, <1>4, <1>5, <1>6, <1>7, <1>8, <1>9, <1>10, <1>11,
     <1>12, <1>13, <1>14, <1>15, <1>16, <1>17, <1>18, <1>19, <1>20, <1>21
     DEF Next, BodyStep, RunEnds

LEMMA StepAuto == IInv /\ [Next]_vars => AutoInv'
<1> SUFFICES ASSUME IInv, [Next]_vars PROVE AutoInv'
  OBVIOUS
<1> USE DEF IInv, Types, GuardInv, AutoInv, Body
<1>1. ASSUME Send PROVE AutoInv'
  BY <1>1 DEF Send, Admit, Free, Goto
<1>2. ASSUME KickCheck PROVE AutoInv'
  BY <1>2 DEF KickCheck
<1>3. ASSUME KickSend PROVE AutoInv'
  BY <1>3 DEF KickSend, Admit, Free, Goto
<1>4. ASSUME ClearGoal PROVE AutoInv'
  BY <1>4 DEF ClearGoal, ThenCancel
<1>5. ASSUME ClearGoalCancels PROVE AutoInv'
  BY <1>5 DEF ClearGoalCancels, Fetch
<1>6. ASSUME Cancel PROVE AutoInv'
  BY <1>6 DEF Cancel, Fetch
<1>7. ASSUME NEW g \in Goals, SetGoal(g) PROVE AutoInv'
  BY <1>7 DEF SetGoal
<1>8. ASSUME NEW t \in Turns, Prompt(t) PROVE AutoInv'
  BY <1>8 DEF Prompt, Say, Goto
<1>9. ASSUME NEW t \in Turns, Finish(t) PROVE AutoInv'
  BY <1>9 DEF Finish, Reopen, Goto
<1>10. ASSUME NEW t \in Turns, EmitTurnDone(t) PROVE AutoInv'
  BY <1>10 DEF EmitTurnDone, Goto
<1>11. ASSUME NEW t \in Turns, EnterLoop(t) PROVE AutoInv'
  BY <1>11 DEF EnterLoop, Goto
<1>12. ASSUME NEW t \in Turns, Check(t) PROVE AutoInv'
  BY <1>12 DEF Check, Cancelled, Goto
<1>13. ASSUME NEW t \in Turns, Arm(t) PROVE AutoInv'
  BY <1>13 DEF Arm, Goto
<1>14. ASSUME NEW t \in Turns, Reset(t) PROVE AutoInv'
  BY <1>14 DEF Reset, ResetAlways, Cancelled, Goto
<1>15. ASSUME NEW t \in Turns, Progress(t) PROVE AutoInv'
  BY <1>15 DEF Progress, Goto
<1>16. ASSUME NEW t \in Turns, Clear(t) PROVE AutoInv'
  BY <1>16 DEF Clear, Goto
<1>17. ASSUME NEW t \in Turns, Work(t) PROVE AutoInv'
  BY <1>17 DEF Work
<1>18. ASSUME NEW t \in Turns, NEW kind \in Kinds, Answer(t, kind)
      PROVE  AutoInv'
  BY <1>18 DEF Answer, AfterRun, Goto
<1>19. ASSUME NEW t \in Turns, NEW err \in {"error", "canceled"}, Fail(t, err)
      PROVE  AutoInv'
  BY <1>19 DEF Fail, Goto
<1>20. ASSUME NEW t \in Turns, CallCancel(t) PROVE AutoInv'
  BY <1>20 DEF CallCancel
<1>21. CASE UNCHANGED vars
  BY <1>21 DEF vars
<1> HIDE DEF IInv, Types, GuardInv, AutoInv, Body
<1> QED
  BY <1>1, <1>2, <1>3, <1>4, <1>5, <1>6, <1>7, <1>8, <1>9, <1>10, <1>11,
     <1>12, <1>13, <1>14, <1>15, <1>16, <1>17, <1>18, <1>19, <1>20, <1>21
     DEF Next, BodyStep, RunEnds

LEMMA StepLog == IInv /\ [Next]_vars => LogInv'
<1> SUFFICES ASSUME IInv, [Next]_vars PROVE LogInv'
  OBVIOUS
<1> USE DEF IInv, LogInv
<1>1. ASSUME Send PROVE LogInv'
  BY <1>1 DEF Send, Admit, Free, Goto
<1>2. ASSUME KickCheck PROVE LogInv'
  BY <1>2 DEF KickCheck
<1>3. ASSUME KickSend PROVE LogInv'
  BY <1>3 DEF KickSend, Admit, Free, Goto
<1>4. ASSUME ClearGoal PROVE LogInv'
  BY <1>4 DEF ClearGoal, ThenCancel
<1>5. ASSUME ClearGoalCancels PROVE LogInv'
  BY <1>5 DEF ClearGoalCancels, Fetch
<1>6. ASSUME Cancel PROVE LogInv'
  BY <1>6 DEF Cancel, Fetch
<1>7. ASSUME NEW g \in Goals, SetGoal(g) PROVE LogInv'
  BY <1>7 DEF SetGoal
<1>8. ASSUME NEW t \in Turns, Prompt(t) PROVE LogInv'
  <2>1. /\ runs' = runs + 1 /\ runs <= runs + 1 /\ runs + 1 \in Nat
        /\ msgs' = Append(msgs, [k |-> "user", r |-> runs + 1])
    BY <1>8 DEF Prompt, Say
  <2>2. "user" \in Kinds
    BY DEF Kinds
  <2> QED
    BY <2>1, <2>2, LogGrows
<1>9. ASSUME NEW t \in Turns, Finish(t) PROVE LogInv'
  BY <1>9 DEF Finish, Reopen, Goto
<1>10. ASSUME NEW t \in Turns, EmitTurnDone(t) PROVE LogInv'
  BY <1>10 DEF EmitTurnDone, Goto
<1>11. ASSUME NEW t \in Turns, EnterLoop(t) PROVE LogInv'
  BY <1>11 DEF EnterLoop, Goto
<1>12. ASSUME NEW t \in Turns, Check(t) PROVE LogInv'
  BY <1>12 DEF Check, Cancelled, Goto
<1>13. ASSUME NEW t \in Turns, Arm(t) PROVE LogInv'
  BY <1>13 DEF Arm, Goto
<1>14. ASSUME NEW t \in Turns, Reset(t) PROVE LogInv'
  BY <1>14 DEF Reset, ResetAlways, Cancelled, Goto
<1>15. ASSUME NEW t \in Turns, Progress(t) PROVE LogInv'
  BY <1>15 DEF Progress, Goto
<1>16. ASSUME NEW t \in Turns, Clear(t) PROVE LogInv'
  BY <1>16 DEF Clear, Goto
<1>17. ASSUME NEW t \in Turns, Work(t) PROVE LogInv'
  <2> DEFINE pair == <<[k |-> "call", r |-> runs], [k |-> "result", r |-> runs]>>
  <2>1. pair \in Seq(Message(runs))
    BY DEF Message, Kinds
  <2>2. msgs \o pair \in Seq(Message(runs))
    <3> HIDE DEF pair
    <3> QED
      BY <2>1, ConcatProperties
  <2>3. runs' = runs /\ msgs' \in {msgs \o pair} \cup Compactions(msgs \o pair)
    BY <1>17 DEF Work
  <2> QED
    BY <2>2, <2>3, CompactionIsLog
<1>18. ASSUME NEW t \in Turns, NEW kind \in Kinds, Answer(t, kind)
      PROVE  LogInv'
  <2>1. runs' = runs /\ msgs' = Append(msgs, [k |-> kind, r |-> runs])
    BY <1>18 DEF Answer
  <2> QED
    BY <2>1, LogGrows
<1>19. ASSUME NEW t \in Turns, NEW err \in {"error", "canceled"}, Fail(t, err)
      PROVE  LogInv'
  BY <1>19 DEF Fail, Goto
<1>20. ASSUME NEW t \in Turns, CallCancel(t) PROVE LogInv'
  BY <1>20 DEF CallCancel
<1>21. CASE UNCHANGED vars
  BY <1>21 DEF vars
<1> HIDE DEF IInv, LogInv
<1> QED
  BY <1>1, <1>2, <1>3, <1>4, <1>5, <1>6, <1>7, <1>8, <1>9, <1>10, <1>11,
     <1>12, <1>13, <1>14, <1>15, <1>16, <1>17, <1>18, <1>19, <1>20, <1>21
     DEF Next, BodyStep, RunEnds

LEMMA InitInv == Init => IInv
<1> SUFFICES ASSUME Init PROVE IInv
  OBVIOUS
<1> USE BoundsAssumption, GoalsAssumption DEF Init
<1>1. Types
  <2>1. 0 \in 0..MaxTurns /\ 0 \in 0..0 /\ 0 \in Nat /\ 0 \in 0..MaxWork
        /\ 0 \in 0..MaxSets
    OBVIOUS
  <2>2. /\ pc \in [Turns -> Body \cup {"none", "emit", "exit"}]
        /\ turnErr \in [Turns -> {"none", "error", "canceled"}]
    OBVIOUS
  <2> QED
    BY <2>1, <2>2 DEF Types
<1>2. LogInv
  BY DEF LogInv
<1>3. GuardInv /\ StallInv /\ AutoInv
  BY DEF GuardInv, StallInv, AutoInv, Turns, Body
<1>4. RunsInv
  BY DEF RunsInv
<1> QED
  BY <1>1, <1>2, <1>3, <1>4 DEF IInv

THEOREM Invariance == Spec => []IInv
<1>1. IInv /\ [Next]_vars => IInv'
  BY StepTypes, StepLog, StepGuard, StepRuns, StepStall, StepAuto DEF IInv
<1> QED
  BY <1>1, InitInv, PTL DEF Spec

(* The state is well-typed: a cancelled turn comes out at most one run     *)
(* above the bound on runs, and the running flag is up exactly while a     *)
(* body runs.                                                              *)
THEOREM TypeCorrect == Spec => []TypeOK
<1>1. IInv => TypeOK
  <2> SUFFICES ASSUME IInv PROVE TypeOK
    OBVIOUS
  <2>1. /\ runs \in 0..(MaxRuns + MaxTurns)
        /\ 0..runs \subseteq Nat
    BY BoundsAssumption DEF IInv, Types, LogInv, RunsInv
  <2>2. \A i \in DOMAIN msgs : msgs[i].k \in Kinds /\ msgs[i].r \in 0..runs
    <3> TAKE i \in DOMAIN msgs
    <3>1. DOMAIN msgs = 1..Len(msgs)
      BY LenProperties DEF IInv, LogInv
    <3>2. msgs[i] \in Message(runs)
      BY <3>1, ElementOfSeq DEF IInv, LogInv
    <3> QED
      BY <3>2 DEF Message
  <2>3. running <=> \E t \in Turns : pc[t] \in Body
    BY DEF IInv, GuardInv
  <2>4. running => pc[cancelRef] \in Body
    BY DEF IInv, GuardInv
  <2>5. stall \in 0..2
    BY DEF IInv, StallInv
  <2> QED
    BY <2>1, <2>2, <2>3, <2>4, <2>5 DEF IInv, Types, TypeOK
<1> QED
  BY <1>1, Invariance, PTL

(* runGuarded admits one turn at a time, whoever sends and cancels, and no *)
(* path out of a continuation leaves the loop's auto-approval on.          *)
THEOREM TurnsStayApart == Spec => []TurnsAreApart
<1>1. IInv => OneTurn /\ AutoApproveOnlyInLoop
  BY DEF IInv, GuardInv, AutoInv, OneTurn, AutoApproveOnlyInLoop
<1>2. TypeOK /\ OneTurn /\ AutoApproveOnlyInLoop => TurnsAreApart
  BY DEF TurnsAreApart
<1> QED
  BY <1>1, <1>2, Invariance, TypeCorrect, PTL

(* A cancelled turn keeps its goal: once its context is cancelled, no      *)
(* verdict is acted on, no stall counted and no continuation armed.        *)
THEOREM CancelKeeps == Spec => CancelKeepsGoal
<1>1. IInv /\ [Next]_vars =>
        [\A t \in ctxDone :
           pc[t] \in {"prompt", "model", "check", "reset"} =>
             pc'[t] \notin {"clear", "progress", "arm"}]_vars
  <2> SUFFICES ASSUME IInv, Next, NEW u \in ctxDone,
                      pc[u] \in {"prompt", "model", "check", "reset"}
               PROVE  pc'[u] \notin {"clear", "progress", "arm"}
    OBVIOUS
  <2> DEFINE Kept == pc'[u] \notin {"clear", "progress", "arm"}
  <2>0. u \in Turns /\ pc \in [Turns -> Body \cup {"none", "emit", "exit"}]
    BY BoundsAssumption DEF IInv, Types, Turns
  <2>1. ASSUME Send PROVE Kept
    BY <2>0, <2>1 DEF IInv, GuardInv, Body, Send, Admit, Free, Goto
  <2>2. ASSUME KickCheck PROVE Kept
    BY <2>0, <2>2 DEF IInv, GuardInv, Body, KickCheck
  <2>3. ASSUME KickSend PROVE Kept
    BY <2>0, <2>3 DEF IInv, GuardInv, Body, KickSend, Admit, Free, Goto
  <2>4. ASSUME ClearGoal PROVE Kept
    BY <2>0, <2>4 DEF IInv, GuardInv, Body, ClearGoal, ThenCancel
  <2>5. ASSUME ClearGoalCancels PROVE Kept
    BY <2>0, <2>5 DEF IInv, GuardInv, Body, ClearGoalCancels, Fetch
  <2>6. ASSUME Cancel PROVE Kept
    BY <2>0, <2>6 DEF IInv, GuardInv, Body, Cancel, Fetch
  <2>7. ASSUME NEW g \in Goals, SetGoal(g) PROVE Kept
    BY <2>0, <2>7 DEF IInv, GuardInv, Body, SetGoal
  <2>8. ASSUME NEW t \in Turns, Prompt(t) PROVE Kept
    BY <2>0, <2>8 DEF IInv, GuardInv, Body, Prompt, Say, Goto
  <2>9. ASSUME NEW t \in Turns, Finish(t) PROVE Kept
    BY <2>0, <2>9 DEF IInv, GuardInv, Body, Finish, Reopen, Goto
  <2>10. ASSUME NEW t \in Turns, EmitTurnDone(t) PROVE Kept
    BY <2>0, <2>10 DEF IInv, GuardInv, Body, EmitTurnDone, Goto
  <2>11. ASSUME NEW t \in Turns, EnterLoop(t) PROVE Kept
    BY <2>0, <2>11 DEF IInv, GuardInv, Body, EnterLoop, Goto
  <2>12. ASSUME NEW t \in Turns, Check(t) PROVE Kept
    BY <2>0, <2>12 DEF IInv, GuardInv, Body, Check, Cancelled, Goto
  <2>13. ASSUME NEW t \in Turns, Arm(t) PROVE Kept
    BY <2>0, <2>13 DEF IInv, GuardInv, Body, Arm, Goto
  <2>14. ASSUME NEW t \in Turns, Reset(t) PROVE Kept
    BY <2>0, <2>14 DEF IInv, GuardInv, Body, Reset, ResetAlways, Cancelled, Goto
  <2>15. ASSUME NEW t \in Turns, Progress(t) PROVE Kept
    BY <2>0, <2>15 DEF IInv, GuardInv, Body, Progress, Goto
  <2>16. ASSUME NEW t \in Turns, Clear(t) PROVE Kept
    BY <2>0, <2>16 DEF IInv, GuardInv, Body, Clear, Goto
  <2>17. ASSUME NEW t \in Turns, Work(t) PROVE Kept
    BY <2>0, <2>17 DEF IInv, GuardInv, Body, Work
  <2>18. ASSUME NEW t \in Turns, NEW kind \in Kinds, Answer(t, kind) PROVE Kept
    BY <2>0, <2>18 DEF IInv, GuardInv, Body, Answer, AfterRun, Goto
  <2>19. ASSUME NEW t \in Turns, NEW err \in {"error", "canceled"}, Fail(t, err)
        PROVE  Kept
    BY <2>0, <2>19 DEF IInv, GuardInv, Body, Fail, Goto
  <2>20. ASSUME NEW t \in Turns, CallCancel(t) PROVE Kept
    BY <2>0, <2>20 DEF IInv, GuardInv, Body, CallCancel
  <2> QED
    BY <2>1, <2>2, <2>3, <2>4, <2>5, <2>6, <2>7, <2>8, <2>9, <2>10, <2>11,
       <2>12, <2>13, <2>14, <2>15, <2>16, <2>17, <2>18, <2>19, <2>20
       DEF Next, BodyStep, RunEnds
<1> QED
  BY <1>1, Invariance, PTL DEF Spec, CancelKeepsGoal
=============================================================================
