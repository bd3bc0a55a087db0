------------------------------ MODULE Approval ------------------------------
(***************************************************************************)
(* The approval bridge of control/controller.go: tool calls of a turn      *)
(* block in requestApproval (or the `ask` tool in Ask) until the user      *)
(* answers through Approve / AnswerQuestion or the turn is cancelled.      *)
(*                                                                         *)
(* One step is one critical section of c.mu, one lock or unlock of         *)
(* promptMu, one channel operation or one call of the event sink, so every *)
(* interleaving of the parallel tool calls, the frontend and Cancel is a   *)
(* behaviour.                                                              *)
(***************************************************************************)
EXTENDS Naturals, FiniteSets

CONSTANTS
  Callers,    \* goroutines that may run a gated tool call of the turn
  Keys,       \* tool+subject keys of the calls the policy resolves to "ask"
  Ask,        \* the operation of the `ask` tool (not a key)
  NoCaller,   \* promptMu is free
  MaxID       \* bound: prompt ids handed out in one behaviour

ASSUME CallersAssumption == NoCaller \notin Callers
ASSUME KeysAssumption == Ask \notin Keys /\ NoCaller \notin Keys
ASSUME MaxIDAssumption == MaxID \in Nat

VARIABLES
  bypass,       \* c.bypass
  goalAutoApp,  \* c.goalAutoApp
  granted,      \* c.granted: keys allowed for the session
  nextID,       \* c.nextID
  approvals,    \* ids registered in c.approvals
  asks,         \* ids registered in c.asks
  promptMu,     \* holder of c.promptMu
  reply,        \* the buffered reply channel of each id
  sending,      \* replies whose id is deleted but which are not sent yet
  ctxDone,      \* the turn's context is cancelled
  pc,           \* where each caller stands
  op,           \* the key a caller asks about, or Ask
  id,           \* the prompt a caller has registered (0: none)
  outcome,      \* what a caller's last call returned
  verdict,      \* history: the answer the user gave to each id
  promptOf,     \* history: the operation each id was registered for
  autoSeen      \* history: callers whose call saw auto-approval on

turnVars == <<bypass, goalAutoApp, ctxDone>>
promptVars == <<granted, nextID, approvals, asks, promptMu>>
chanVars == <<reply, sending, verdict>>
callVars == <<pc, op, id, outcome, promptOf, autoSeen>>
vars == <<turnVars, promptVars, chanVars, callVars>>

IDs == 1..MaxID
Ops == Keys \cup {Ask}

IsQuestion(o) == o = Ask

(* approvalReply of Approve; "answered" stands for the answers of an ask.  *)
Replies == {"once", "session", "deny", "denySession", "answered"}

Allows(r) == r \in {"once", "session"}

RemembersSession(r) == r \in {"session", "denySession"}   \* mutant: r.session
(* r.allow && r.session: the reply is remembered for the session.          *)
Remembers(r) == r = "session"

Labels == {"idle", "gate", "request", "lock", "register", "emit", "wait",
           "store", "cleanup"}

(* The state is well-typed, and the two maps hold what their names say.    *)
TypeOK ==
  /\ bypass \in BOOLEAN
  /\ goalAutoApp \in BOOLEAN
  /\ granted \subseteq Keys
  /\ nextID \in 0..MaxID
  /\ approvals \subseteq IDs
  /\ asks \subseteq IDs
  /\ promptMu \in Callers \cup {NoCaller}
  /\ reply \in [IDs -> Replies \cup {"empty", "taken"}]
  /\ sending \subseteq IDs \X Replies
  /\ ctxDone \in BOOLEAN
  /\ pc \in [Callers -> Labels]
  /\ op \in [Callers -> Ops]
  /\ id \in [Callers -> 0..MaxID]
  /\ outcome \in [Callers -> {"none", "allow", "deny", "cancelled", "answers"}]
  /\ verdict \in [IDs -> Replies \cup {"empty"}]
  /\ promptOf \in [IDs -> Ops \cup {NoCaller}]
  /\ autoSeen \subseteq Callers
  /\ \A i \in approvals : promptOf[i] \in Keys
  /\ \A i \in asks : promptOf[i] = Ask

AutoOn == bypass \/ goalAutoApp

Init ==
  /\ bypass \in BOOLEAN
  /\ goalAutoApp = FALSE
  /\ granted = {}
  /\ nextID = 0
  /\ approvals = {}
  /\ asks = {}
  /\ promptMu = NoCaller
  /\ reply = [i \in IDs |-> "empty"]
  /\ sending = {}
  /\ ctxDone = FALSE
  /\ pc = [t \in Callers |-> "idle"]
  /\ op = [t \in Callers |-> Ask]
  /\ id = [t \in Callers |-> 0]
  /\ outcome = [t \in Callers |-> "none"]
  /\ verdict = [i \in IDs |-> "empty"]
  /\ promptOf = [i \in IDs |-> NoCaller]
  /\ autoSeen = {}

Idle == \A t \in Callers : pc[t] = "idle"

Goto(t, l) == pc' = [pc EXCEPT ![t] = l]

(* The call returns o; a deferred Unlock releases promptMu with it.        *)
Return(t, o) ==
  /\ Goto(t, "idle")
  /\ outcome' = [outcome EXCEPT ![t] = o]

Unlock == promptMu' = NoCaller

-----------------------------------------------------------------------------
(* The calls of the turn.                                                  *)

(* The agent dispatches a call (several at once in a parallel batch); the  *)
(* batch keeps running after Cancel, so ctxDone is no obstacle.  The bound *)
(* leaves an id for every call in flight.                                  *)
Start(t, o) ==
  /\ pc[t] = "idle"
  /\ nextID + Cardinality({u \in Callers : pc[u] # "idle"}) < MaxID
  /\ Goto(t, IF IsQuestion(o) THEN "lock" ELSE "gate")
  /\ op' = [op EXCEPT ![t] = o]
  /\ id' = [id EXCEPT ![t] = 0]
  /\ outcome' = [outcome EXCEPT ![t] = "none"]
  /\ autoSeen' = IF AutoOn THEN autoSeen \cup {t} ELSE autoSeen \ {t}
  /\ UNCHANGED <<turnVars, promptVars, chanVars, promptOf>>

(* gateApprover.Approve: the check that spares the prompt altogether.      *)
GateCheck(t) ==
  /\ pc[t] = "gate"
  /\ IF AutoOn
       THEN Return(t, "allow")
       ELSE Goto(t, "request") /\ UNCHANGED outcome
  /\ UNCHANGED <<turnVars, promptVars, chanVars, op, id, promptOf, autoSeen>>

(* requestApproval before promptMu.                                        *)
RequestCheck(t) ==
  /\ pc[t] = "request"
  /\ IF AutoOn \/ op[t] \in granted
       THEN Return(t, "allow")
       ELSE Goto(t, "lock") /\ UNCHANGED outcome
  /\ UNCHANGED <<turnVars, promptVars, chanVars, op, id, promptOf, autoSeen>>

PromptFree == promptMu = NoCaller

LockPrompt(t) ==
  /\ pc[t] = "lock"
  /\ PromptFree
  /\ promptMu' = t
  /\ Goto(t, "register")
  /\ UNCHANGED <<turnVars, granted, nextID, approvals, asks, chanVars,
                 op, id, outcome, promptOf, autoSeen>>

KeepRegistered(ids, i) == ids       \* mutant: the map entry is not deleted
Unregister(ids, i) == ids \ {i}

NoRecheck(t) == FALSE               \* mutant: straight to the prompt
(* A session grant may have landed while the call queued.                  *)
Recheck(t) == op[t] \in granted

(* The second critical section of requestApproval: the grant is re-checked *)
(* and nothing else is ...                                                 *)
Regranted(t) ==
  /\ pc[t] = "register"
  /\ Recheck(t)
  /\ Return(t, "allow")
  /\ Unlock
  /\ UNCHANGED <<turnVars, granted, nextID, approvals, asks, chanVars, op, id,
                 promptOf, autoSeen>>

(* ... or a fresh id is registered, as in Ask.                             *)
Register(t) ==
  /\ pc[t] = "register"
  /\ ~Recheck(t)
  /\ nextID < MaxID
  /\ nextID' = nextID + 1
  /\ id' = [id EXCEPT ![t] = nextID + 1]
  /\ promptOf' = [promptOf EXCEPT ![nextID + 1] = op[t]]
  /\ asks' = IF IsQuestion(op[t]) THEN asks \cup {nextID + 1} ELSE asks
  /\ approvals' = IF IsQuestion(op[t]) THEN approvals
                  ELSE approvals \cup {nextID + 1}
  /\ Goto(t, "emit")
  /\ UNCHANGED <<turnVars, granted, promptMu, chanVars, op, outcome, autoSeen>>

(* sink.Emit(ApprovalRequest / AskRequest): the frontend knows the id.     *)
Emit(t) ==
  /\ pc[t] = "emit"
  /\ Goto(t, "wait")
  /\ UNCHANGED <<turnVars, promptVars, chanVars, op, id, outcome, promptOf,
                 autoSeen>>

(* What the call returns for the reply in its channel.                     *)
Result(t) ==
  IF IsQuestion(op[t]) THEN "answers"
  ELSE IF Allows(reply[id[t]]) THEN "allow" ELSE "deny"

(* case r := <-reply: a session grant is stored before the call returns.   *)
TakeReply(t) ==
  /\ pc[t] = "wait"
  /\ reply[id[t]] \in Replies
  /\ reply' = [reply EXCEPT ![id[t]] = "taken"]
  /\ IF Remembers(reply[id[t]])
       THEN Goto(t, "store") /\ UNCHANGED <<outcome, promptMu>>
       ELSE Return(t, Result(t)) /\ Unlock
  /\ UNCHANGED <<turnVars, granted, nextID, approvals, asks, sending, verdict,
                 op, id, promptOf, autoSeen>>

(* c.granted[key] = true, still under promptMu.                            *)
StoreGrant(t) ==
  /\ pc[t] = "store"
  /\ granted' = granted \cup {op[t]}
  /\ Return(t, "allow")
  /\ Unlock
  /\ UNCHANGED <<turnVars, nextID, approvals, asks, chanVars,
                 op, id, promptOf, autoSeen>>

(* case <-ctx.Done(): Go's select picks either ready case, so this may win *)
(* over a reply that is already in the channel.                            *)
SeeCancel(t) ==
  /\ pc[t] = "wait"
  /\ ctxDone
  /\ Goto(t, "cleanup")
  /\ UNCHANGED <<turnVars, promptVars, chanVars, op, id, outcome, promptOf,
                 autoSeen>>

Cleanup(t) ==
  /\ pc[t] = "cleanup"
  /\ approvals' = Unregister(approvals, id[t])
  /\ asks' = Unregister(asks, id[t])
  /\ Return(t, "cancelled")
  /\ Unlock
  /\ UNCHANGED <<turnVars, granted, nextID, chanVars, op, id, promptOf,
                 autoSeen>>

-----------------------------------------------------------------------------
(* The frontend: any number of clients may answer any prompt they saw.     *)

Shown(i) == \E t \in Callers : id[t] = i /\ pc[t] \in {"wait", "cleanup"}

(* Approve, first half: look the id up and delete it under c.mu.           *)
Approve(i, r) ==
  /\ i \in approvals
  /\ Shown(i)
  /\ r # "answered"
  /\ approvals' = Unregister(approvals, i)
  /\ sending' = sending \cup {<<i, r>>}
  /\ verdict' = [verdict EXCEPT ![i] = r]
  /\ UNCHANGED <<turnVars, granted, nextID, asks, promptMu, reply, callVars>>

AnswerQuestion(i) ==
  /\ i \in asks
  /\ Shown(i)
  /\ asks' = Unregister(asks, i)
  /\ sending' = sending \cup {<<i, "answered">>}
  /\ verdict' = [verdict EXCEPT ![i] = "answered"]
  /\ UNCHANGED <<turnVars, granted, nextID, approvals, promptMu, reply,
                 callVars>>

(* Mutant: a send that gives up instead of buffering the reply.            *)
DropReply(i, r) ==
  /\ <<i, r>> \in sending
  /\ sending' = sending \ {<<i, r>>}
  /\ UNCHANGED <<turnVars, promptVars, reply, verdict, callVars>>
(* reply <- ..., outside c.mu.                                             *)
Send(i, r) ==
  /\ <<i, r>> \in sending
  /\ reply[i] = "empty"
  /\ reply' = [reply EXCEPT ![i] = r]
  /\ sending' = sending \ {<<i, r>>}
  /\ UNCHANGED <<turnVars, promptVars, verdict, callVars>>

InFlight(t) == pc[t] # "idle"

(* AutoOn-approval switched to on is seen by every call in flight.           *)
NoteAuto(on) ==
  autoSeen' = IF on THEN autoSeen \cup {t \in Callers : InFlight(t)}
                    ELSE autoSeen

SetBypass(on) ==
  /\ bypass' = on
  /\ NoteAuto(on)
  /\ UNCHANGED <<goalAutoApp, ctxDone, promptVars, chanVars,
                 pc, op, id, outcome, promptOf>>

(* runGoalLoop sets the flag between two runs of the agent, when no call   *)
(* is in flight; it, clearGoal and pauseGoal reset it at any time.         *)
SetGoalAutoApp(on) ==
  /\ on => Idle
  /\ goalAutoApp' = on
  /\ UNCHANGED <<bypass, ctxDone, promptVars, chanVars, callVars>>

Cancel ==
  /\ ~ctxDone
  /\ ctxDone' = TRUE
  /\ UNCHANGED <<bypass, goalAutoApp, promptVars, chanVars, callVars>>

(* The next turn has a fresh context; runGuarded admits it only after the  *)
(* previous turn's calls have returned.                                    *)
NewTurn ==
  /\ ctxDone
  /\ Idle
  /\ ctxDone' = FALSE
  /\ UNCHANGED <<bypass, goalAutoApp, promptVars, chanVars, callVars>>

-----------------------------------------------------------------------------
CallerStep(t) ==
  \/ GateCheck(t)
  \/ RequestCheck(t)
  \/ LockPrompt(t)
  \/ Regranted(t)
  \/ Register(t)
  \/ Emit(t)
  \/ TakeReply(t)
  \/ StoreGrant(t)
  \/ SeeCancel(t)
  \/ Cleanup(t)

Next ==
  \/ \E t \in Callers, o \in Ops : Start(t, o)
  \/ \E t \in Callers : CallerStep(t)
  \/ \E i \in IDs, r \in Replies : Approve(i, r)
  \/ \E i \in IDs : AnswerQuestion(i)
  \/ \E i \in IDs, r \in Replies : Send(i, r)
  \/ \E on \in BOOLEAN : SetBypass(on)
  \/ \E on \in BOOLEAN : SetGoalAutoApp(on)
  \/ Cancel
  \/ NewTurn

(* Goroutines keep running and Go's mutex hands the lock to the longest    *)
(* waiter after a millisecond, hence strong fairness of LockPrompt.  The   *)
(* user's steps (Start, Approve, Cancel, ...) are never fair.              *)
Fairness ==
  /\ \A t \in Callers : WF_vars(CallerStep(t)) /\ SF_vars(LockPrompt(t))
  /\ \A i \in IDs, r \in Replies : WF_vars(Send(i, r))

Safety == Init /\ [][Next]_vars
Spec == Safety /\ Fairness

-----------------------------------------------------------------------------
(* Properties.                                                             *)

(* However the calls of a parallel batch interleave, at most one prompt,   *)
(* approval or question, is open: promptMu is held from before the id is   *)
(* registered until after it is gone (controller.go, promptMu).            *)
AtMostOnePrompt == \A i, j \in approvals \cup asks : i = j

(* A registered prompt has a caller behind it that will hear the answer:   *)
(* neither a cancelled nor an answered call leaves its id in the maps.     *)
NoOrphanPrompt ==
  \A i \in approvals \cup asks :
    \E t \in Callers : id[t] = i /\ pc[t] \in {"emit", "wait", "cleanup"}

(* `reply <- ...` in Approve and AnswerQuestion never blocks the frontend: *)
(* no prompt is ever answered twice, whatever the number of clients.       *)
SendNeverBlocks ==
  \A m, n \in sending :
    /\ m[1] = n[1] => m = n
    /\ reply[m[1]] = "empty"

(* Whatever calls, clients and Cancel do at once, the prompts on record    *)
(* are one at most, with a caller behind it, and are answered once.        *)
PromptsTidy == AtMostOnePrompt /\ NoOrphanPrompt /\ SendNeverBlocks

(* The user said "allow for the session" to some prompt about k.           *)
UserGranted(k) == \E i \in IDs : promptOf[i] = k /\ verdict[i] = "session"

(* A call goes ahead only because auto-approval was on at some moment of   *)
(* the call, the user allowed this very prompt, or the user granted the    *)
(* same key for the session; and no denial is ever turned into a grant.    *)
AllowedForAReason ==
  /\ \A k \in granted : UserGranted(k)
  /\ \A t \in Callers : outcome[t] = "allow" =>
       \/ t \in autoSeen
       \/ UserGranted(op[t])
       \/ id[t] # 0 /\ verdict[id[t]] \in {"once", "session"}

(* A call whose own prompt the user answered returns that answer, or       *)
(* reports the cancellation that won the race: answers never cross between *)
(* prompts.                                                                *)
AnswersDoNotCross ==
  \A t \in Callers : (id[t] # 0 /\ outcome[t] # "none") =>
    \/ outcome[t] = "cancelled"
    \/ outcome[t] = "allow" /\ verdict[id[t]] \in {"once", "session"}
    \/ outcome[t] = "deny" /\ verdict[id[t]] \in {"deny", "denySession"}
    \/ outcome[t] = "answers" /\ verdict[id[t]] = "answered"

(* Once a call has received "allow for the session", no later prompt about *)
(* the same key is opened, not even by the calls that queued behind it.    *)
NoRepromptAfterGrant ==
  \A i, j \in IDs :
    (i < j /\ promptOf[i] \in Keys /\ promptOf[i] = promptOf[j])
      => ~(reply[i] = "taken" /\ verdict[i] = "session")

(* Prompts do not mix: neither their answers nor their grants.             *)
PromptsStayApart == AnswersDoNotCross /\ NoRepromptAfterGrant

(* After Cancel every call of the turn returns, also the ones queued on    *)
(* promptMu, which ignores the context.                                    *)
CancelReleases ==
  \A t \in Callers : (ctxDone /\ InFlight(t)) ~> pc[t] = "idle"

(* An answer the user got accepted reaches the caller and the call ends.   *)
AnswerEndsCall ==
  \A t \in Callers :
    (pc[t] = "wait" /\ id[t] \notin approvals \cup asks) ~> pc[t] = "idle"

(* Neither promptMu nor a lost reply keeps a call: a cancelled turn's calls *)
(* and an answered prompt's call return.                                   *)
CallsEnd == CancelReleases /\ AnswerEndsCall

(* controller.go:116 of the bypass field: "while set, every approval       *)
(* prompt is auto-allowed for the rest of the session".  A call that       *)
(* queued on promptMu before the switch still opens a prompt after it.     *)
NoPromptUnderBypass ==
  [][\A i \in IDs : (i \in approvals' \ approvals) => ~bypass]_vars
=============================================================================
