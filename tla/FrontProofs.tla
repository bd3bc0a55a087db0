---------------------------- MODULE FrontProofs ----------------------------
(***************************************************************************)
(* Proofs about prompts and the frontends.  The approval bridge keeps one  *)
(* prompt open at a time, never answers a prompt twice and runs nothing    *)
(* without a reason, for any set of callers and keys.  What MCFronts       *)
(* checks on a small instance of the chat terminal, the HTTP server and    *)
(* its fan-out holds for all lines, requests, tabs and bounds: each keeps  *)
(* an invariant of its own, and a step of MCNext is a step of the one it   *)
(* moves and stutters in the others.                                       *)
(***************************************************************************)
EXTENDS Approval, MCFronts, Integers, Sequences, FiniteSetTheorems, TLAPS

(* The labels at which a caller holds promptMu, and those at which it has  *)
(* a prompt.                                                               *)
Holding == {"register", "emit", "wait", "store", "cleanup"}
Prompting == {"emit", "wait", "cleanup"}

(* promptMu really excludes: whoever stands between Lock and Unlock holds  *)
(* it.                                                                     *)
MutexInv == \A t \in Callers : pc[t] \in Holding => promptMu = t

(* A registered id was handed out and its caller still stands by.          *)
OwnerInv ==
  \A i \in approvals \cup asks :
    /\ i <= nextID
    /\ \E t \in Callers : id[t] = i /\ pc[t] \in Prompting

(* An id with an answer under way or delivered has left the maps for good. *)
AnsweredInv ==
  /\ \A i \in IDs : reply[i] # "empty" => i \notin approvals \cup asks
  /\ \A i \in IDs : reply[i] # "empty" => i <= nextID
  /\ \A m \in sending : /\ m[1] \notin approvals \cup asks
                        /\ m[1] <= nextID
                        /\ reply[m[1]] = "empty"
  /\ \A m, n \in sending : m[1] = n[1] => m = n

(* What travels from the user to the caller is the user's verdict.         *)
VerdictInv ==
  /\ \A i \in IDs : verdict[i] # "empty" => i <= nextID
  /\ \A i \in approvals \cup asks : verdict[i] = "empty"
  /\ \A m \in sending : verdict[m[1]] = m[2]
  /\ \A i \in IDs : reply[i] \in Replies => verdict[i] = reply[i]
  /\ \A i \in IDs : verdict[i] = "session" => promptOf[i] \in Keys

(* What a caller knows: its prompt is its own, a grant about to be stored  *)
(* is the user's, auto-approval seen is recorded, only keys are gated, and *)
(* a call has no outcome before it returns.                                *)
PromptInv ==
  \A t \in Callers : pc[t] \in {"emit", "wait", "store", "cleanup"} =>
    id[t] \in IDs /\ id[t] <= nextID /\ promptOf[id[t]] = op[t]
StoreInv ==
  \A t \in Callers :
    pc[t] = "store" => op[t] \in Keys /\ verdict[id[t]] = "session"
AutoInv == \A t \in Callers : (pc[t] # "idle" /\ AutoOn) => t \in autoSeen
KeyInv == \A t \in Callers : pc[t] \in {"gate", "request"} => op[t] \in Keys
OpenInv == \A t \in Callers : pc[t] # "idle" => outcome[t] = "none"

CallInv == PromptInv /\ StoreInv /\ AutoInv /\ KeyInv /\ OpenInv

-----------------------------------------------------------------------------
Inv == TypeOK /\ MutexInv /\ OwnerInv /\ AnsweredInv /\ VerdictInv /\ CallInv

USE DEF turnVars, promptVars, chanVars, callVars

LEMMA InitInv == Init => Inv
<1> SUFFICES ASSUME Init PROVE Inv
  OBVIOUS
<1> USE MaxIDAssumption, CallersAssumption DEF Init, IDs
<1>1. TypeOK
  <2>1. /\ bypass \in BOOLEAN
        /\ goalAutoApp \in BOOLEAN
        /\ ctxDone \in BOOLEAN
    OBVIOUS
  <2>2. /\ pc \in [Callers -> Labels]
        /\ op \in [Callers -> Ops]
        /\ id \in [Callers -> 0..MaxID]
    BY DEF Labels, Ops
  <2>3. /\ reply \in [IDs -> Replies \cup {"empty", "taken"}]
        /\ verdict \in [IDs -> Replies \cup {"empty"}]
        /\ promptOf \in [IDs -> Ops \cup {NoCaller}]
    OBVIOUS
  <2>4. sending \subseteq IDs \X Replies
    OBVIOUS
  <2> QED
    BY <2>1, <2>2, <2>3, <2>4 DEF TypeOK
<1>2. MutexInv
  BY DEF MutexInv, Holding
<1>3. OwnerInv
  BY DEF OwnerInv
<1>4. AnsweredInv
  BY DEF AnsweredInv
<1>5. VerdictInv
  BY DEF VerdictInv, Replies
<1>6. CallInv
  BY DEF CallInv, PromptInv, StoreInv, AutoInv, KeyInv, OpenInv
<1> QED
  BY <1>1, <1>2, <1>3, <1>4, <1>5, <1>6 DEF Inv

LEMMA StepTypeOK == Inv /\ [Next]_vars => TypeOK'
<1> SUFFICES ASSUME Inv, [Next]_vars PROVE TypeOK'
  OBVIOUS
<1> USE MaxIDAssumption, KeysAssumption DEF Inv, TypeOK, IDs, Ops, Labels, Replies
<1>1. ASSUME NEW t \in Callers, NEW o \in Ops, Start(t, o) PROVE TypeOK'
  <2>1. pc' \in [Callers -> Labels]
    BY <1>1 DEF Start, Goto
  <2>2. autoSeen' \subseteq Callers
    BY <1>1 DEF Start
  <2>3. /\ op' \in [Callers -> Ops]
        /\ id' \in [Callers -> 0..MaxID]
        /\ outcome' \in
             [Callers -> {"none", "allow", "deny", "cancelled", "answers"}]
    BY <1>1 DEF Start
  <2> QED
    BY <1>1, <2>1, <2>2, <2>3 DEF Start
<1>2. ASSUME NEW t \in Callers, GateCheck(t) PROVE TypeOK'
  BY <1>2 DEF GateCheck, Goto, Return
<1>3. ASSUME NEW t \in Callers, RequestCheck(t) PROVE TypeOK'
  BY <1>3 DEF RequestCheck, Goto, Return
<1>4. ASSUME NEW t \in Callers, LockPrompt(t) PROVE TypeOK'
  BY <1>4 DEF LockPrompt, Goto
<1>5. ASSUME NEW t \in Callers, Regranted(t) PROVE TypeOK'
  BY <1>5 DEF Regranted, Goto, Return, Unlock
<1>6. ASSUME NEW t \in Callers, Register(t) PROVE TypeOK'
  BY <1>6 DEF Register, Goto, IsQuestion, OwnerInv
<1>7. ASSUME NEW t \in Callers, Emit(t) PROVE TypeOK'
  BY <1>7 DEF Emit, Goto
<1>8. ASSUME NEW t \in Callers, TakeReply(t) PROVE TypeOK'
  <2>1. Result(t) \in {"allow", "deny", "answers"}
    BY DEF Result
  <2>2. CASE Remembers(reply[id[t]])
    BY <1>8, <2>2 DEF TakeReply, Goto
  <2>3. CASE ~Remembers(reply[id[t]])
    <3>1. /\ outcome' = [outcome EXCEPT ![t] = Result(t)]
          /\ pc' = [pc EXCEPT ![t] = "idle"]
          /\ promptMu' = NoCaller
      BY <1>8, <2>3 DEF TakeReply, Goto, Return, Unlock
    <3>2. outcome' \in
            [Callers -> {"none", "allow", "deny", "cancelled", "answers"}]
      BY <2>1, <3>1
    <3> QED
      BY <1>8, <3>1, <3>2 DEF TakeReply
  <2> QED
    BY <2>2, <2>3
<1>9. ASSUME NEW t \in Callers, StoreGrant(t) PROVE TypeOK'
  BY <1>9 DEF StoreGrant, Goto, Return, Unlock, CallInv, StoreInv
<1>10. ASSUME NEW t \in Callers, SeeCancel(t) PROVE TypeOK'
  BY <1>10 DEF SeeCancel, Goto
<1>11. ASSUME NEW t \in Callers, Cleanup(t) PROVE TypeOK'
  BY <1>11 DEF Cleanup, Goto, Return, Unlock, Unregister
<1>12. ASSUME NEW i \in IDs, NEW r \in Replies, Approve(i, r) PROVE TypeOK'
  BY <1>12 DEF Approve, Unregister
<1>13. ASSUME NEW i \in IDs, AnswerQuestion(i) PROVE TypeOK'
  BY <1>13 DEF AnswerQuestion, Unregister
<1>14. ASSUME NEW i \in IDs, NEW r \in Replies, Send(i, r) PROVE TypeOK'
  BY <1>14 DEF Send
<1>15. ASSUME NEW on \in BOOLEAN, SetBypass(on) PROVE TypeOK'
  BY <1>15 DEF SetBypass, NoteAuto, InFlight
<1>16. ASSUME NEW on \in BOOLEAN, SetGoalAutoApp(on) PROVE TypeOK'
  BY <1>16 DEF SetGoalAutoApp, Idle
<1>17. ASSUME Cancel PROVE TypeOK'
  BY <1>17 DEF Cancel
<1>18. ASSUME NewTurn PROVE TypeOK'
  BY <1>18 DEF NewTurn
<1>19. CASE UNCHANGED vars
  BY <1>19 DEF vars
<1> HIDE DEF Inv, TypeOK, IDs, Ops, Labels, Replies
<1> QED
  BY <1>1, <1>2, <1>3, <1>4, <1>5, <1>6, <1>7, <1>8, <1>9, <1>10, <1>11, <1>12, <1>13, <1>14,
     <1>15, <1>16, <1>17, <1>18, <1>19 DEF Next, CallerStep

LEMMA StepMutexInv == Inv /\ [Next]_vars => MutexInv'
<1> SUFFICES ASSUME Inv, [Next]_vars PROVE MutexInv'
  OBVIOUS
<1> USE CallersAssumption DEF Inv, TypeOK, MutexInv, Holding
<1>1. ASSUME NEW t \in Callers, NEW o \in Ops, Start(t, o) PROVE MutexInv'
  BY <1>1 DEF Start, Goto, IsQuestion
<1>2. ASSUME NEW t \in Callers, GateCheck(t) PROVE MutexInv'
  BY <1>2 DEF GateCheck, Goto, Return
<1>3. ASSUME NEW t \in Callers, RequestCheck(t) PROVE MutexInv'
  BY <1>3 DEF RequestCheck, Goto, Return
<1>4. ASSUME NEW t \in Callers, LockPrompt(t) PROVE MutexInv'
  BY <1>4 DEF LockPrompt, Goto, PromptFree
<1>5. ASSUME NEW t \in Callers, Regranted(t) PROVE MutexInv'
  BY <1>5 DEF Regranted, Goto, Return, Unlock
<1>6. ASSUME NEW t \in Callers, Register(t) PROVE MutexInv'
  BY <1>6 DEF Register, Goto
<1>7. ASSUME NEW t \in Callers, Emit(t) PROVE MutexInv'
  BY <1>7 DEF Emit, Goto
<1>8. ASSUME NEW t \in Callers, TakeReply(t) PROVE MutexInv'
  BY <1>8 DEF TakeReply, Goto, Return, Unlock
<1>9. ASSUME NEW t \in Callers, StoreGrant(t) PROVE MutexInv'
  BY <1>9 DEF StoreGrant, Goto, Return, Unlock
<1>10. ASSUME NEW t \in Callers, SeeCancel(t) PROVE MutexInv'
  BY <1>10 DEF SeeCancel, Goto
<1>11. ASSUME NEW t \in Callers, Cleanup(t) PROVE MutexInv'
  BY <1>11 DEF Cleanup, Goto, Return, Unlock, Unregister
<1>12. ASSUME NEW i \in IDs, NEW r \in Replies, Approve(i, r) PROVE MutexInv'
  BY <1>12 DEF Approve, Unregister
<1>13. ASSUME NEW i \in IDs, AnswerQuestion(i) PROVE MutexInv'
  BY <1>13 DEF AnswerQuestion, Unregister
<1>14. ASSUME NEW i \in IDs, NEW r \in Replies, Send(i, r) PROVE MutexInv'
  BY <1>14 DEF Send
<1>15. ASSUME NEW on \in BOOLEAN, SetBypass(on) PROVE MutexInv'
  BY <1>15 DEF SetBypass, NoteAuto, InFlight
<1>16. ASSUME NEW on \in BOOLEAN, SetGoalAutoApp(on) PROVE MutexInv'
  BY <1>16 DEF SetGoalAutoApp, Idle
<1>17. ASSUME Cancel PROVE MutexInv'
  BY <1>17 DEF Cancel
<1>18. ASSUME NewTurn PROVE MutexInv'
  BY <1>18 DEF NewTurn
<1>19. CASE UNCHANGED vars
  BY <1>19 DEF vars
<1> HIDE DEF Inv, TypeOK, MutexInv, Holding
<1> QED
  BY <1>1, <1>2, <1>3, <1>4, <1>5, <1>6, <1>7, <1>8, <1>9, <1>10, <1>11, <1>12, <1>13, <1>14,
     <1>15, <1>16, <1>17, <1>18, <1>19 DEF Next, CallerStep

LEMMA StepOwnerInv == Inv /\ [Next]_vars => OwnerInv'
<1> SUFFICES ASSUME Inv, [Next]_vars PROVE OwnerInv'
  OBVIOUS
<1> USE DEF Inv, TypeOK, OwnerInv, Prompting
<1>1. ASSUME NEW t \in Callers, NEW o \in Ops, Start(t, o) PROVE OwnerInv'
  BY <1>1 DEF Start, Goto
<1>2. ASSUME NEW t \in Callers, GateCheck(t) PROVE OwnerInv'
  BY <1>2 DEF GateCheck, Goto, Return
<1>3. ASSUME NEW t \in Callers, RequestCheck(t) PROVE OwnerInv'
  BY <1>3 DEF RequestCheck, Goto, Return, Ops
<1>4. ASSUME NEW t \in Callers, LockPrompt(t) PROVE OwnerInv'
  BY <1>4 DEF LockPrompt, Goto
<1>5. ASSUME NEW t \in Callers, Regranted(t) PROVE OwnerInv'
  BY <1>5 DEF Regranted, Goto, Return, Unlock
<1>6. ASSUME NEW t \in Callers, Register(t) PROVE OwnerInv'
  <2>1. promptMu = t /\ pc[t] = "register"
    BY <1>6 DEF Register, MutexInv, Holding
  <2>2. approvals \cup asks = {}
    BY <2>1 DEF MutexInv, Holding
  <2>3. /\ approvals' \cup asks' = {nextID + 1}
        /\ nextID' = nextID + 1
        /\ id'[t] = nextID + 1
        /\ pc'[t] = "emit"
    BY <1>6, <2>2 DEF Register, Goto
  <2> QED
    BY <2>3
<1>7. ASSUME NEW t \in Callers, Emit(t) PROVE OwnerInv'
  BY <1>7 DEF Emit, Goto
<1>8. ASSUME NEW t \in Callers, TakeReply(t) PROVE OwnerInv'
  <2>1. id[t] \notin approvals \cup asks
    BY <1>8 DEF TakeReply, CallInv, PromptInv, AnsweredInv, Replies
  <2>2. /\ UNCHANGED <<approvals, asks, nextID, id>>
        /\ \A u \in Callers \ {t} : pc'[u] = pc[u]
    BY <1>8 DEF TakeReply, Goto, Return
  <2> QED
    BY <2>1, <2>2
<1>9. ASSUME NEW t \in Callers, StoreGrant(t) PROVE OwnerInv'
  BY <1>9 DEF StoreGrant, Goto, Return, Unlock
<1>10. ASSUME NEW t \in Callers, SeeCancel(t) PROVE OwnerInv'
  BY <1>10 DEF SeeCancel, Goto
<1>11. ASSUME NEW t \in Callers, Cleanup(t) PROVE OwnerInv'
  BY <1>11 DEF Cleanup, Goto, Return, Unlock, Unregister
<1>12. ASSUME NEW i \in IDs, NEW r \in Replies, Approve(i, r) PROVE OwnerInv'
  BY <1>12 DEF Approve, Unregister
<1>13. ASSUME NEW i \in IDs, AnswerQuestion(i) PROVE OwnerInv'
  BY <1>13 DEF AnswerQuestion, Unregister
<1>14. ASSUME NEW i \in IDs, NEW r \in Replies, Send(i, r) PROVE OwnerInv'
  BY <1>14 DEF Send
<1>15. ASSUME NEW on \in BOOLEAN, SetBypass(on) PROVE OwnerInv'
  BY <1>15 DEF SetBypass, NoteAuto, InFlight
<1>16. ASSUME NEW on \in BOOLEAN, SetGoalAutoApp(on) PROVE OwnerInv'
  BY <1>16 DEF SetGoalAutoApp, Idle
<1>17. ASSUME Cancel PROVE OwnerInv'
  BY <1>17 DEF Cancel
<1>18. ASSUME NewTurn PROVE OwnerInv'
  BY <1>18 DEF NewTurn
<1>19. CASE UNCHANGED vars
  BY <1>19 DEF vars
<1> HIDE DEF Inv, TypeOK, OwnerInv, Prompting
<1> QED
  BY <1>1, <1>2, <1>3, <1>4, <1>5, <1>6, <1>7, <1>8, <1>9, <1>10, <1>11, <1>12, <1>13, <1>14,
     <1>15, <1>16, <1>17, <1>18, <1>19 DEF Next, CallerStep

LEMMA StepAnsweredInv == Inv /\ [Next]_vars => AnsweredInv'
<1> SUFFICES ASSUME Inv, [Next]_vars PROVE AnsweredInv'
  OBVIOUS
<1> USE KeysAssumption DEF Inv, TypeOK, OwnerInv, AnsweredInv, Replies, IDs
<1>1. ASSUME NEW t \in Callers, NEW o \in Ops, Start(t, o) PROVE AnsweredInv'
  BY <1>1 DEF Start, Goto
<1>2. ASSUME NEW t \in Callers, GateCheck(t) PROVE AnsweredInv'
  BY <1>2 DEF GateCheck, Goto, Return
<1>3. ASSUME NEW t \in Callers, RequestCheck(t) PROVE AnsweredInv'
  BY <1>3 DEF RequestCheck, Goto, Return
<1>4. ASSUME NEW t \in Callers, LockPrompt(t) PROVE AnsweredInv'
  BY <1>4 DEF LockPrompt, Goto
<1>5. ASSUME NEW t \in Callers, Regranted(t) PROVE AnsweredInv'
  BY <1>5 DEF Regranted, Goto, Return, Unlock
<1>6. ASSUME NEW t \in Callers, Register(t) PROVE AnsweredInv'
  BY <1>6 DEF Register, Goto
<1>7. ASSUME NEW t \in Callers, Emit(t) PROVE AnsweredInv'
  BY <1>7 DEF Emit, Goto
<1>8. ASSUME NEW t \in Callers, TakeReply(t) PROVE AnsweredInv'
  BY <1>8 DEF TakeReply, Goto, Return, Unlock
<1>9. ASSUME NEW t \in Callers, StoreGrant(t) PROVE AnsweredInv'
  BY <1>9 DEF StoreGrant, Goto, Return, Unlock
<1>10. ASSUME NEW t \in Callers, SeeCancel(t) PROVE AnsweredInv'
  BY <1>10 DEF SeeCancel, Goto
<1>11. ASSUME NEW t \in Callers, Cleanup(t) PROVE AnsweredInv'
  BY <1>11 DEF Cleanup, Goto, Return, Unlock, Unregister
<1>12. ASSUME NEW i \in IDs, NEW r \in Replies, Approve(i, r) PROVE AnsweredInv'
  <2>1. i \notin asks /\ i \in approvals /\ i <= nextID /\ reply[i] = "empty"
    BY <1>12 DEF Approve
  <2>2. sending' = sending \cup {<<i, r>>} /\ <<i, r>>[1] = i
    BY <1>12 DEF Approve
  <2>3. \A m \in sending : m[1] # i
    BY <2>1
  <2> QED
    BY <1>12, <2>1, <2>2, <2>3 DEF Approve, Unregister
<1>13. ASSUME NEW i \in IDs, AnswerQuestion(i) PROVE AnsweredInv'
  <2>1. i \notin approvals /\ i \in asks /\ i <= nextID /\ reply[i] = "empty"
    BY <1>13 DEF AnswerQuestion
  <2>2. /\ sending' = sending \cup {<<i, "answered">>}
        /\ <<i, "answered">>[1] = i
    BY <1>13 DEF AnswerQuestion
  <2>3. \A m \in sending : m[1] # i
    BY <2>1
  <2> QED
    BY <1>13, <2>1, <2>2, <2>3 DEF AnswerQuestion, Unregister
<1>14. ASSUME NEW i \in IDs, NEW r \in Replies, Send(i, r) PROVE AnsweredInv'
  <2>1. /\ <<i, r>> \in sending /\ <<i, r>>[1] = i
        /\ sending' = sending \ {<<i, r>>}
    BY <1>14 DEF Send
  <2>2. \A m \in sending' : m[1] # i /\ m \in sending
    BY <2>1
  <2>3. /\ \A j \in IDs : j # i => reply'[j] = reply[j]
        /\ UNCHANGED <<approvals, asks, nextID>>
    BY <1>14 DEF Send
  <2>4. i \notin approvals \cup asks /\ i <= nextID
    BY <2>1
  <2> QED
    BY <2>1, <2>2, <2>3, <2>4
<1>15. ASSUME NEW on \in BOOLEAN, SetBypass(on) PROVE AnsweredInv'
  BY <1>15 DEF SetBypass, NoteAuto, InFlight
<1>16. ASSUME NEW on \in BOOLEAN, SetGoalAutoApp(on) PROVE AnsweredInv'
  BY <1>16 DEF SetGoalAutoApp, Idle
<1>17. ASSUME Cancel PROVE AnsweredInv'
  BY <1>17 DEF Cancel
<1>18. ASSUME NewTurn PROVE AnsweredInv'
  BY <1>18 DEF NewTurn
<1>19. CASE UNCHANGED vars
  BY <1>19 DEF vars
<1> HIDE DEF Inv, TypeOK, OwnerInv, AnsweredInv, Replies, IDs
<1> QED
  BY <1>1, <1>2, <1>3, <1>4, <1>5, <1>6, <1>7, <1>8, <1>9, <1>10, <1>11, <1>12, <1>13, <1>14,
     <1>15, <1>16, <1>17, <1>18, <1>19 DEF Next, CallerStep

LEMMA StepVerdictInv == Inv /\ [Next]_vars => VerdictInv'
<1> SUFFICES ASSUME Inv, [Next]_vars PROVE VerdictInv'
  OBVIOUS
<1> USE KeysAssumption DEF Inv, TypeOK, OwnerInv, AnsweredInv, VerdictInv, Replies, IDs
<1>1. ASSUME NEW t \in Callers, NEW o \in Ops, Start(t, o) PROVE VerdictInv'
  BY <1>1 DEF Start, Goto
<1>2. ASSUME NEW t \in Callers, GateCheck(t) PROVE VerdictInv'
  BY <1>2 DEF GateCheck, Goto, Return
<1>3. ASSUME NEW t \in Callers, RequestCheck(t) PROVE VerdictInv'
  BY <1>3 DEF RequestCheck, Goto, Return
<1>4. ASSUME NEW t \in Callers, LockPrompt(t) PROVE VerdictInv'
  BY <1>4 DEF LockPrompt, Goto
<1>5. ASSUME NEW t \in Callers, Regranted(t) PROVE VerdictInv'
  BY <1>5 DEF Regranted, Goto, Return, Unlock
<1>6. ASSUME NEW t \in Callers, Register(t) PROVE VerdictInv'
  <2>1. /\ UNCHANGED <<verdict, sending, reply>>
        /\ nextID' = nextID + 1
        /\ approvals' \cup asks' = approvals \cup asks \cup {nextID + 1}
    BY <1>6 DEF Register
  <2>2. nextID + 1 \in IDs /\ verdict[nextID + 1] = "empty"
    BY <1>6, MaxIDAssumption DEF Register
  <2>3. \A i \in IDs : i # nextID + 1 => promptOf'[i] = promptOf[i]
    BY <1>6 DEF Register
  <2>4. /\ \A i \in IDs : verdict[i] # "empty" => i <= nextID'
        /\ \A i \in approvals' \cup asks' : verdict[i] = "empty"
    <3>1. nextID \in Nat /\ nextID' = nextID + 1 /\ IDs \subseteq Nat
      BY <2>1, MaxIDAssumption
    <3>2. \A i \in IDs : verdict[i] # "empty" => i <= nextID
      OBVIOUS
    <3>3. \A i \in IDs : i \in Nat /\ (i <= nextID => i <= nextID')
      BY <3>1
    <3>4. \A i \in approvals' \cup asks' :
            i \in approvals \cup asks \/ i = nextID + 1
      BY <2>1
    <3> QED
      BY <2>2, <3>2, <3>3, <3>4
  <2>5. \A i \in IDs : verdict[i] = "session" => promptOf'[i] \in Keys
    BY <2>2, <2>3
  <2> QED
    BY <2>1, <2>4, <2>5
<1>7. ASSUME NEW t \in Callers, Emit(t) PROVE VerdictInv'
  BY <1>7 DEF Emit, Goto
<1>8. ASSUME NEW t \in Callers, TakeReply(t) PROVE VerdictInv'
  BY <1>8 DEF TakeReply, Goto, Return, Unlock, CallInv
<1>9. ASSUME NEW t \in Callers, StoreGrant(t) PROVE VerdictInv'
  BY <1>9 DEF StoreGrant, Goto, Return, Unlock
<1>10. ASSUME NEW t \in Callers, SeeCancel(t) PROVE VerdictInv'
  BY <1>10 DEF SeeCancel, Goto
<1>11. ASSUME NEW t \in Callers, Cleanup(t) PROVE VerdictInv'
  BY <1>11 DEF Cleanup, Goto, Return, Unlock, Unregister
<1>12. ASSUME NEW i \in IDs, NEW r \in Replies, Approve(i, r) PROVE VerdictInv'
  BY <1>12 DEF Approve, Unregister
<1>13. ASSUME NEW i \in IDs, AnswerQuestion(i) PROVE VerdictInv'
  BY <1>13 DEF AnswerQuestion, Unregister
<1>14. ASSUME NEW i \in IDs, NEW r \in Replies, Send(i, r) PROVE VerdictInv'
  BY <1>14 DEF Send
<1>15. ASSUME NEW on \in BOOLEAN, SetBypass(on) PROVE VerdictInv'
  BY <1>15 DEF SetBypass, NoteAuto, InFlight
<1>16. ASSUME NEW on \in BOOLEAN, SetGoalAutoApp(on) PROVE VerdictInv'
  BY <1>16 DEF SetGoalAutoApp, Idle
<1>17. ASSUME Cancel PROVE VerdictInv'
  BY <1>17 DEF Cancel
<1>18. ASSUME NewTurn PROVE VerdictInv'
  BY <1>18 DEF NewTurn
<1>19. CASE UNCHANGED vars
  BY <1>19 DEF vars
<1> HIDE DEF Inv, TypeOK, OwnerInv, AnsweredInv, VerdictInv, Replies, IDs
<1> QED
  BY <1>1, <1>2, <1>3, <1>4, <1>5, <1>6, <1>7, <1>8, <1>9, <1>10, <1>11, <1>12, <1>13, <1>14,
     <1>15, <1>16, <1>17, <1>18, <1>19 DEF Next, CallerStep

LEMMA StepCallInv == Inv /\ [Next]_vars => CallInv'
<1> SUFFICES ASSUME Inv, [Next]_vars PROVE CallInv'
  OBVIOUS
<1> USE KeysAssumption DEF Inv, TypeOK, CallInv, PromptInv, StoreInv, AutoInv,
         KeyInv, OpenInv, AutoOn, OwnerInv, AnsweredInv, VerdictInv, IDs, Ops
<1>1. ASSUME NEW t \in Callers, NEW o \in Ops, Start(t, o) PROVE CallInv'
  <2>1. /\ pc'[t] \in {"lock", "gate"}
        /\ o = Ask => pc'[t] = "lock"
        /\ op'[t] = o
        /\ outcome'[t] = "none"
    BY <1>1 DEF Start, Goto, IsQuestion
  <2>2. \A u \in Callers \ {t} :
          /\ pc'[u] = pc[u] /\ op'[u] = op[u] /\ id'[u] = id[u]
          /\ outcome'[u] = outcome[u]
    BY <1>1 DEF Start, Goto
  <2>3. UNCHANGED <<bypass, goalAutoApp, nextID, promptOf, verdict>>
    BY <1>1 DEF Start
  <2>4. /\ AutoOn => t \in autoSeen'
        /\ autoSeen \ {t} \subseteq autoSeen'
    BY <1>1 DEF Start
  <2>11. PromptInv'
    BY <2>1, <2>2, <2>3, <2>4
  <2>12. StoreInv'
    BY <2>1, <2>2, <2>3, <2>4
  <2>13. AutoInv'
    BY <2>1, <2>2, <2>3, <2>4 DEF AutoOn
  <2>14. KeyInv'
    BY <2>1, <2>2, <2>3, <2>4
  <2>15. OpenInv'
    BY <2>1, <2>2, <2>3, <2>4
  <2> QED
    BY <2>11, <2>12, <2>13, <2>14, <2>15
<1>2. ASSUME NEW t \in Callers, GateCheck(t) PROVE CallInv'
  BY <1>2 DEF GateCheck, Goto, Return, AutoOn
<1>3. ASSUME NEW t \in Callers, RequestCheck(t) PROVE CallInv'
  <2>1. /\ pc'[t] \in {"idle", "lock"}
        /\ pc'[t] # "idle" => outcome'[t] = outcome[t]
        /\ pc[t] = "request"
    BY <1>3 DEF RequestCheck, Goto, Return
  <2>2. \A u \in Callers \ {t} : pc'[u] = pc[u] /\ outcome'[u] = outcome[u]
    BY <1>3 DEF RequestCheck, Goto, Return
  <2>3. UNCHANGED <<bypass, goalAutoApp, nextID, promptOf, verdict, id, op,
                    autoSeen>>
    BY <1>3 DEF RequestCheck
  <2>11. PromptInv'
    BY <2>1, <2>2, <2>3
  <2>12. StoreInv'
    BY <2>1, <2>2, <2>3
  <2>13. AutoInv'
    BY <2>1, <2>2, <2>3 DEF AutoOn
  <2>14. KeyInv'
    BY <2>1, <2>2, <2>3
  <2>15. OpenInv'
    BY <2>1, <2>2, <2>3
  <2> QED
    BY <2>11, <2>12, <2>13, <2>14, <2>15
<1>4. ASSUME NEW t \in Callers, LockPrompt(t) PROVE CallInv'
  BY <1>4 DEF LockPrompt, Goto
<1>5. ASSUME NEW t \in Callers, Regranted(t) PROVE CallInv'
  BY <1>5 DEF Regranted, Goto, Return, Unlock
<1>6. ASSUME NEW t \in Callers, Register(t) PROVE CallInv'
  <2>1. /\ pc'[t] = "emit" /\ id'[t] = nextID + 1 /\ nextID' = nextID + 1
        /\ nextID + 1 \in IDs /\ promptOf'[nextID + 1] = op[t]
        /\ pc[t] = "register"
    BY <1>6, MaxIDAssumption DEF Register, Goto
  <2>2. \A u \in Callers \ {t} : pc'[u] = pc[u] /\ id'[u] = id[u]
    BY <1>6 DEF Register, Goto
  <2>3. \A i \in IDs : i <= nextID => promptOf'[i] = promptOf[i]
    BY <1>6 DEF Register
  <2>4. UNCHANGED <<bypass, goalAutoApp, verdict, op, autoSeen, outcome>>
    BY <1>6 DEF Register
  <2>11. PromptInv'
    BY <2>1, <2>2, <2>3, <2>4
  <2>12. StoreInv'
    BY <2>1, <2>2, <2>3, <2>4
  <2>13. AutoInv'
    BY <2>1, <2>2, <2>3, <2>4 DEF AutoOn
  <2>14. KeyInv'
    BY <2>1, <2>2, <2>3, <2>4
  <2>15. OpenInv'
    BY <2>1, <2>2, <2>3, <2>4
  <2> QED
    BY <2>11, <2>12, <2>13, <2>14, <2>15
<1>7. ASSUME NEW t \in Callers, Emit(t) PROVE CallInv'
  BY <1>7 DEF Emit, Goto
<1>8. ASSUME NEW t \in Callers, TakeReply(t) PROVE CallInv'
  <2>1. /\ pc[t] = "wait" /\ pc'[t] \in {"store", "idle"}
        /\ pc'[t] = "store" =>
             /\ reply[id[t]] = "session"
             /\ outcome'[t] = outcome[t]
    BY <1>8 DEF TakeReply, Goto, Return, Remembers
  <2>2. pc'[t] = "store" => op[t] \in Keys /\ verdict[id[t]] = "session"
    BY <2>1 DEF Replies
  <2>3. \A u \in Callers \ {t} : pc'[u] = pc[u] /\ outcome'[u] = outcome[u]
    BY <1>8 DEF TakeReply, Goto, Return
  <2>4. UNCHANGED <<bypass, goalAutoApp, nextID, promptOf, verdict, id, op,
                    autoSeen>>
    BY <1>8 DEF TakeReply
  <2>11. PromptInv'
    BY <2>1, <2>2, <2>3, <2>4
  <2>12. StoreInv'
    BY <2>1, <2>2, <2>3, <2>4
  <2>13. AutoInv'
    BY <2>1, <2>2, <2>3, <2>4 DEF AutoOn
  <2>14. KeyInv'
    BY <2>1, <2>2, <2>3, <2>4
  <2>15. OpenInv'
    BY <2>1, <2>2, <2>3, <2>4
  <2> QED
    BY <2>11, <2>12, <2>13, <2>14, <2>15
<1>9. ASSUME NEW t \in Callers, StoreGrant(t) PROVE CallInv'
  BY <1>9 DEF StoreGrant, Goto, Return, Unlock
<1>10. ASSUME NEW t \in Callers, SeeCancel(t) PROVE CallInv'
  BY <1>10 DEF SeeCancel, Goto
<1>11. ASSUME NEW t \in Callers, Cleanup(t) PROVE CallInv'
  BY <1>11 DEF Cleanup, Goto, Return, Unlock, Unregister
<1>12. ASSUME NEW i \in IDs, NEW r \in Replies, Approve(i, r) PROVE CallInv'
  BY <1>12 DEF Approve, Unregister
<1>13. ASSUME NEW i \in IDs, AnswerQuestion(i) PROVE CallInv'
  BY <1>13 DEF AnswerQuestion, Unregister
<1>14. ASSUME NEW i \in IDs, NEW r \in Replies, Send(i, r) PROVE CallInv'
  BY <1>14 DEF Send
<1>15. ASSUME NEW on \in BOOLEAN, SetBypass(on) PROVE CallInv'
  BY <1>15 DEF SetBypass, NoteAuto, InFlight, AutoOn
<1>16. ASSUME NEW on \in BOOLEAN, SetGoalAutoApp(on) PROVE CallInv'
  BY <1>16 DEF SetGoalAutoApp, Idle, AutoOn
<1>17. ASSUME Cancel PROVE CallInv'
  BY <1>17 DEF Cancel
<1>18. ASSUME NewTurn PROVE CallInv'
  BY <1>18 DEF NewTurn
<1>19. CASE UNCHANGED vars
  BY <1>19 DEF vars
<1> HIDE DEF Inv, TypeOK, CallInv, PromptInv, StoreInv, AutoInv, KeyInv,
             OpenInv, AutoOn, OwnerInv, AnsweredInv, VerdictInv, IDs, Ops
<1> QED
  BY <1>1, <1>2, <1>3, <1>4, <1>5, <1>6, <1>7, <1>8, <1>9, <1>10, <1>11, <1>12, <1>13, <1>14,
     <1>15, <1>16, <1>17, <1>18, <1>19 DEF Next, CallerStep

LEMMA StepInv == Inv /\ [Next]_vars => Inv'
BY StepTypeOK, StepMutexInv, StepOwnerInv, StepAnsweredInv, StepVerdictInv,
   StepCallInv DEF Inv

(* The bridge keeps its strengthened invariant in every behaviour.         *)
THEOREM InvHolds == Safety => []Inv
<1> QED
  BY InitInv, StepInv, PTL DEF Safety

(* The state of the bridge is well-typed: ids stay within what was handed  *)
(* out and the two maps of controller.go hold approvals and questions only.*)
THEOREM TypeCorrect == Safety => []TypeOK
<1>1. Inv => TypeOK
  BY DEF Inv
<1> QED
  BY <1>1, InvHolds, PTL

(* promptMu makes prompts exclusive: two registered ids have owners that   *)
(* both hold the mutex, so they are one caller's one prompt.               *)
THEOREM OnePrompt == Safety => []AtMostOnePrompt
<1>1. Inv => AtMostOnePrompt
  BY DEF Inv, AtMostOnePrompt, OwnerInv, MutexInv, Holding, Prompting
<1> QED
  BY <1>1, InvHolds, PTL

(* No id outlives the call behind it.                                      *)
THEOREM NoOrphans == Safety => []NoOrphanPrompt
<1>1. Inv => NoOrphanPrompt
  BY DEF Inv, NoOrphanPrompt, OwnerInv, Prompting
<1> QED
  BY <1>1, InvHolds, PTL

(* Approve and AnswerQuestion find room in the reply channel: an id leaves *)
(* the map before its one reply is sent.                                   *)
THEOREM SendsDoNotBlock == Safety => []SendNeverBlocks
<1>1. Inv => SendNeverBlocks
  BY DEF Inv, SendNeverBlocks, AnsweredInv
<1> QED
  BY <1>1, InvHolds, PTL

(* One prompt at most, never without its caller, never answered twice.     *)
THEOREM PromptsStayTidy == Safety => []PromptsTidy
<1>1. AtMostOnePrompt /\ NoOrphanPrompt /\ SendNeverBlocks => PromptsTidy
  BY DEF PromptsTidy
<1> QED
  BY <1>1, OnePrompt, NoOrphans, SendsDoNotBlock, PTL

(* The user's answers are never overwritten, so a grant stays a grant.     *)
LEMMA VerdictsStay ==
  Inv /\ [Next]_vars =>
    \A i \in IDs : verdict[i] # "empty" =>
      verdict'[i] = verdict[i] /\ promptOf'[i] = promptOf[i]
<1> SUFFICES ASSUME Inv, [Next]_vars, NEW j \in IDs, verdict[j] # "empty"
             PROVE  verdict'[j] = verdict[j] /\ promptOf'[j] = promptOf[j]
  OBVIOUS
<1> USE DEF Inv, TypeOK, VerdictInv
<1>1. ASSUME NEW t \in Callers, Register(t)
      PROVE  verdict'[j] = verdict[j] /\ promptOf'[j] = promptOf[j]
  <2>1. j # nextID + 1
    BY MaxIDAssumption DEF IDs
  <2> QED
    BY <1>1, <2>1 DEF Register
<1>2. ASSUME NEW i \in IDs, NEW r \in Replies, Approve(i, r)
      PROVE  verdict'[j] = verdict[j] /\ promptOf'[j] = promptOf[j]
  BY <1>2 DEF Approve
<1>3. ASSUME NEW i \in IDs, AnswerQuestion(i)
      PROVE  verdict'[j] = verdict[j] /\ promptOf'[j] = promptOf[j]
  BY <1>3 DEF AnswerQuestion
<1>4. ASSUME NEW t \in Callers, CallerStep(t), ~Register(t)
      PROVE  UNCHANGED <<verdict, promptOf>>
  BY <1>4 DEF CallerStep, GateCheck, RequestCheck, LockPrompt, Regranted, Emit,
              TakeReply, StoreGrant, SeeCancel, Cleanup
<1>5. ASSUME NEW t \in Callers, NEW o \in Ops, Start(t, o)
      PROVE  UNCHANGED <<verdict, promptOf>>
  BY <1>5 DEF Start
<1>6. ASSUME NEW i \in IDs, NEW r \in Replies, Send(i, r)
      PROVE  UNCHANGED <<verdict, promptOf>>
  BY <1>6 DEF Send
<1>7. ASSUME NEW on \in BOOLEAN, SetBypass(on) \/ SetGoalAutoApp(on)
      PROVE  UNCHANGED <<verdict, promptOf>>
  BY <1>7 DEF SetBypass, SetGoalAutoApp
<1>8. CASE Cancel \/ NewTurn
  BY <1>8 DEF Cancel, NewTurn
<1>9. CASE UNCHANGED vars
  BY <1>9 DEF vars
<1> HIDE DEF Inv, TypeOK, VerdictInv
<1> QED
  BY <1>1, <1>2, <1>3, <1>4, <1>5, <1>6, <1>7, <1>8, <1>9 DEF Next

LEMMA GrantsStay ==
  Inv /\ [Next]_vars => \A k \in Keys : UserGranted(k) => UserGranted(k)'
<1> QED
  BY VerdictsStay DEF UserGranted

LEMMA StepReason ==
  Inv /\ AllowedForAReason /\ [Next]_vars => AllowedForAReason'
<1> SUFFICES ASSUME Inv, AllowedForAReason, [Next]_vars
             PROVE  AllowedForAReason'
  OBVIOUS
<1> DEFINE Reason(t) == \/ t \in autoSeen
                        \/ UserGranted(op[t])
                        \/ id[t] # 0 /\ verdict[id[t]] \in {"once", "session"}
<1>1. \A k \in Keys : UserGranted(k) => UserGranted(k)'
  BY GrantsStay
<1>2. \A i \in IDs : verdict[i] # "empty" => verdict'[i] = verdict[i]
  BY VerdictsStay
<1>3. \A k \in granted' : UserGranted(k)'
  <2>1. ASSUME NEW t \in Callers, StoreGrant(t) PROVE UserGranted(op[t])
    BY <2>1 DEF StoreGrant, Inv, CallInv, StoreInv, PromptInv, UserGranted
  <2>2. granted' = granted \/ \E t \in Callers : StoreGrant(t)
    BY DEF Next, CallerStep, Start, GateCheck, RequestCheck, LockPrompt,
           Regranted, Register, Emit, TakeReply, SeeCancel, Cleanup, Approve,
           AnswerQuestion, Send, SetBypass, SetGoalAutoApp, Cancel, NewTurn,
           vars
  <2>3. granted \subseteq Keys
    BY DEF Inv, TypeOK
  <2>4. CASE granted' = granted
    BY <1>1, <2>3, <2>4 DEF AllowedForAReason
  <2>5. ASSUME NEW t \in Callers, StoreGrant(t)
        PROVE  \A k \in granted' : UserGranted(k)'
    <3>1. granted' = granted \cup {op[t]} /\ op[t] \in Keys
      BY <2>5 DEF StoreGrant, Inv, CallInv, StoreInv
    <3> QED
      BY <1>1, <2>1, <2>3, <2>5, <3>1 DEF AllowedForAReason
  <2> QED
    BY <2>2, <2>4, <2>5
<1>4. ASSUME NEW u \in Callers, outcome'[u] = "allow" PROVE Reason(u)'
  <2> USE <1>4 DEF Inv, TypeOK, CallInv, OpenInv, PromptInv, StoreInv, AutoInv,
                   KeyInv
  <2>0. outcome[u] = "allow" => Reason(u)
    BY DEF AllowedForAReason
  <2>1. CASE /\ outcome[u] = "allow" /\ Reason(u)
             /\ op'[u] = op[u] /\ id'[u] = id[u]
             /\ u \in autoSeen => u \in autoSeen'
    <3>1. CASE u \in autoSeen
      BY <2>1, <3>1
    <3>2. CASE UserGranted(op[u])
      <4>1. op[u] \in Keys \/ op[u] = Ask
        BY DEF Ops
      <4> QED
        BY <2>1, <3>2, VerdictsStay DEF UserGranted
    <3>3. CASE id[u] # 0 /\ verdict[id[u]] \in {"once", "session"}
      <4>1. id[u] \in IDs
        BY <3>3, MaxIDAssumption DEF IDs
      <4> QED
        BY <1>2, <2>1, <3>3, <4>1
    <3> QED
      BY <2>1, <3>1, <3>2, <3>3
  <2>2. ASSUME NEW t \in Callers, NEW o \in Ops, Start(t, o) PROVE Reason(u)'
    <3>1. u # t
      BY <2>2 DEF Start
    <3> QED
      BY <2>0, <2>1, <2>2, <3>1 DEF Start, Goto
  <2>3. ASSUME NEW t \in Callers, GateCheck(t) PROVE Reason(u)'
    <3>1. u = t => AutoOn
      BY <2>3 DEF GateCheck, Goto, Return
    <3> QED
      BY <2>0, <2>1, <2>3, <3>1 DEF GateCheck, Goto, Return
  <2>4. ASSUME NEW t \in Callers, RequestCheck(t) PROVE Reason(u)'
    <3>1. u = t => AutoOn \/ op[t] \in granted
      BY <2>4 DEF RequestCheck, Goto, Return
    <3>2. UNCHANGED <<granted, op, autoSeen, id>>
      BY <2>4 DEF RequestCheck
    <3>3. CASE u = t
      BY <1>3, <2>4, <3>1, <3>2, <3>3 DEF RequestCheck
    <3>4. CASE u # t
      BY <2>0, <2>1, <2>4, <3>2, <3>4
         DEF RequestCheck, Goto, Return
    <3> QED
      BY <3>3, <3>4
  <2>5. ASSUME NEW t \in Callers, Regranted(t) PROVE Reason(u)'
    <3>1. op[t] \in granted /\ UNCHANGED <<granted, op, autoSeen, id>>
      BY <2>5 DEF Regranted, Recheck
    <3>2. CASE u = t
      BY <1>3, <3>1, <3>2
    <3>3. CASE u # t
      BY <2>0, <2>1, <2>5, <3>1, <3>3 DEF Regranted, Return
    <3> QED
      BY <3>2, <3>3
  <2>6. ASSUME NEW t \in Callers, TakeReply(t) PROVE Reason(u)'
    <3>1. UNCHANGED <<op, autoSeen, id, verdict>>
      BY <2>6 DEF TakeReply
    <3>2. CASE u = t
      <4>1. pc[t] = "wait" /\ reply[id[t]] \in Replies /\ id[t] # 0
        BY <2>6, MaxIDAssumption DEF TakeReply, IDs
      <4>2. verdict[id[t]] = reply[id[t]]
        BY <4>1, <2>6, MaxIDAssumption DEF VerdictInv, TakeReply
      <4>3. CASE Remembers(reply[id[t]])
        BY <2>6, <3>2, <4>1, <4>3 DEF TakeReply
      <4>4. CASE ~Remembers(reply[id[t]])
        <5>1. Result(t) = "allow"
          BY <2>6, <3>2, <4>4 DEF TakeReply, Return
        <5> QED
          BY <3>1, <3>2, <4>1, <4>2, <5>1 DEF Result, Allows
      <4> QED
        BY <4>3, <4>4
    <3>3. CASE u # t
      BY <2>0, <2>1, <2>6, <3>1, <3>3 DEF TakeReply, Return
    <3> QED
      BY <3>2, <3>3
  <2>7. ASSUME NEW t \in Callers, StoreGrant(t) PROVE Reason(u)'
    <3>1. op[t] \in granted' /\ UNCHANGED <<op, autoSeen, id>>
      BY <2>7 DEF StoreGrant
    <3>2. CASE u = t
      BY <1>3, <3>1, <3>2
    <3>3. CASE u # t
      BY <2>0, <2>1, <2>7, <3>1, <3>3 DEF StoreGrant, Return
    <3> QED
      BY <3>2, <3>3
  <2>8. ASSUME NEW t \in Callers, Register(t) PROVE Reason(u)'
    <3>1. u # t
      BY <2>8 DEF Register
    <3> QED
      BY <2>0, <2>1, <2>8, <3>1 DEF Register
  <2>9. ASSUME NEW t \in Callers, LockPrompt(t) \/ Emit(t) \/ SeeCancel(t)
        PROVE  Reason(u)'
    BY <2>0, <2>1, <2>9 DEF LockPrompt, Emit, SeeCancel
  <2>10. ASSUME NEW t \in Callers, Cleanup(t) PROVE Reason(u)'
    BY <2>0, <2>1, <2>10 DEF Cleanup, Return
  <2>11. ASSUME NEW i \in IDs, NEW r \in Replies, Approve(i, r) \/ Send(i, r)
         PROVE  Reason(u)'
    BY <2>0, <2>1, <2>11 DEF Approve, Send
  <2>12. ASSUME NEW i \in IDs, AnswerQuestion(i) PROVE Reason(u)'
    BY <2>0, <2>1, <2>12 DEF AnswerQuestion
  <2>13. ASSUME NEW on \in BOOLEAN, SetBypass(on) PROVE Reason(u)'
    BY <2>0, <2>1, <2>13 DEF SetBypass, NoteAuto
  <2>14. ASSUME NEW on \in BOOLEAN, SetGoalAutoApp(on) PROVE Reason(u)'
    BY <2>0, <2>1, <2>14 DEF SetGoalAutoApp
  <2>15. CASE Cancel \/ NewTurn
    BY <2>0, <2>1, <2>15 DEF Cancel, NewTurn
  <2>16. CASE UNCHANGED vars
    BY <2>0, <2>1, <2>16 DEF vars
  <2> QED
    BY <2>2, <2>3, <2>4, <2>5, <2>6, <2>7, <2>8, <2>9, <2>10, <2>11, <2>12,
       <2>13, <2>14, <2>15, <2>16 DEF Next, CallerStep
<1> QED
  BY <1>3, <1>4 DEF AllowedForAReason

(* Nothing runs without a reason: a gated call is allowed only when auto-  *)
(* approval was on during the call, the user allowed its own prompt, or    *)
(* the user granted its key for the session.                               *)
THEOREM NothingRunsUnasked == Safety => []AllowedForAReason
<1>1. Init => AllowedForAReason
  BY DEF Init, AllowedForAReason
<1> QED
  BY <1>1, StepReason, InvHolds, PTL DEF Safety

-----------------------------------------------------------------------------
(* Why prompts stay apart.  A call has no id before it registers one, the  *)
(* id behind promptMu is the newest one handed out, ...                    *)
FreshInv ==
  /\ \A t \in Callers :
       pc[t] \in {"gate", "request", "lock", "register"} => id[t] = 0
  /\ \A i \in IDs : promptOf[i] \in Keys => i <= nextID
NewestInv ==
  \A t \in Callers :
    pc[t] \in {"emit", "wait", "store", "cleanup"} => id[t] = nextID

(* ... approvals and questions get replies of their own kind, ...          *)
KindInv ==
  \A i \in IDs :
    verdict[i] # "empty" => (verdict[i] = "answered" <=> promptOf[i] = Ask)

(* ... and a session grant that was received is stored, or its caller is   *)
(* about to store it with promptMu still held.                             *)
TakenInv ==
  \A i \in IDs : (reply[i] = "taken" /\ verdict[i] = "session") =>
    \/ promptOf[i] \in granted
    \/ \E t \in Callers : pc[t] = "store" /\ id[t] = i

ApartInv ==
  FreshInv /\ NewestInv /\ KindInv /\ TakenInv /\ PromptsStayApart

LEMMA StepApart == Inv /\ ApartInv /\ [Next]_vars => ApartInv'
<1> SUFFICES ASSUME Inv, ApartInv, [Next]_vars PROVE ApartInv'
  OBVIOUS
<1> USE MaxIDAssumption, KeysAssumption DEF Inv, TypeOK, IDs, ApartInv,
        FreshInv, NewestInv, KindInv, TakenInv, PromptsStayApart,
        AnswersDoNotCross, NoRepromptAfterGrant
<1>0. \A i \in IDs : verdict[i] # "empty" =>
        verdict'[i] = verdict[i] /\ promptOf'[i] = promptOf[i]
  BY VerdictsStay
<1>1. ASSUME NEW t \in Callers, NEW o \in Ops, Start(t, o) PROVE ApartInv'
  <2>1. FreshInv' /\ NewestInv' /\ KindInv'
    BY <1>1 DEF Start, Goto
  <2>2. TakenInv' /\ NoRepromptAfterGrant'
    BY <1>1 DEF Start, Goto
  <2>3. AnswersDoNotCross'
    BY <1>1 DEF Start, Goto
  <2> QED
    BY <2>1, <2>2, <2>3
<1>2. ASSUME NEW t \in Callers, GateCheck(t) PROVE ApartInv'
  <2>1. FreshInv' /\ NewestInv' /\ KindInv'
    BY <1>2 DEF GateCheck, Goto, Return
  <2>2. TakenInv' /\ NoRepromptAfterGrant'
    BY <1>2 DEF GateCheck, Goto, Return
  <2>3. AnswersDoNotCross'
    <3>1. id'[t] = 0 /\ UNCHANGED <<id, verdict>>
      BY <1>2 DEF GateCheck
    <3>2. \A u \in Callers : u # t => outcome'[u] = outcome[u]
      BY <1>2 DEF GateCheck, Return
    <3>3. AnswersDoNotCross
      OBVIOUS
    <3> QED
      BY ONLY <3>1, <3>2, <3>3 DEF AnswersDoNotCross
  <2> QED
    BY <2>1, <2>2, <2>3
<1>3. ASSUME NEW t \in Callers, RequestCheck(t) PROVE ApartInv'
  <2>1. FreshInv' /\ NewestInv' /\ KindInv'
    BY <1>3 DEF RequestCheck, Goto, Return
  <2>2. TakenInv' /\ NoRepromptAfterGrant'
    BY <1>3 DEF RequestCheck, Goto, Return
  <2>3. AnswersDoNotCross'
    <3>1. id'[t] = 0 /\ UNCHANGED <<id, verdict>>
      BY <1>3 DEF RequestCheck
    <3>2. \A u \in Callers : u # t => outcome'[u] = outcome[u]
      BY <1>3 DEF RequestCheck, Return
    <3>3. AnswersDoNotCross
      OBVIOUS
    <3> QED
      BY ONLY <3>1, <3>2, <3>3 DEF AnswersDoNotCross
  <2> QED
    BY <2>1, <2>2, <2>3
<1>4. ASSUME NEW t \in Callers, LockPrompt(t) PROVE ApartInv'
  BY <1>4 DEF LockPrompt, Goto
<1>5. ASSUME NEW t \in Callers, Regranted(t) PROVE ApartInv'
  <2>1. FreshInv' /\ NewestInv' /\ KindInv'
    BY <1>5 DEF Regranted, Goto, Return, Unlock
  <2>2. TakenInv' /\ NoRepromptAfterGrant'
    BY <1>5 DEF Regranted, Goto, Return, Unlock
  <2>3. AnswersDoNotCross'
    BY <1>5 DEF Regranted, Goto, Return, Unlock
  <2> QED
    BY <2>1, <2>2, <2>3
<1>6. ASSUME NEW t \in Callers, Register(t) PROVE ApartInv'
  <2>1. /\ pc[t] = "register" /\ promptMu = t /\ op[t] \notin granted
        /\ nextID + 1 \in IDs /\ nextID' = nextID + 1
    BY <1>6 DEF Register, Recheck, MutexInv, Holding
  <2>2. \A u \in Callers : u # t => pc[u] \notin Holding
    BY <2>1 DEF MutexInv
  <2>3. /\ pc'[t] = "emit" /\ id'[t] = nextID + 1
        /\ \A u \in Callers : u # t => pc'[u] = pc[u] /\ id'[u] = id[u]
    BY <1>6 DEF Register, Goto
  <2>4. /\ promptOf'[nextID + 1] = op[t]
        /\ \A i \in IDs : i # nextID + 1 => promptOf'[i] = promptOf[i]
        /\ UNCHANGED <<granted, reply, verdict, op, outcome>>
    BY <1>6 DEF Register
  <2>5. verdict[nextID + 1] = "empty"
    BY <2>1 DEF VerdictInv
  <2>6. FreshInv'
    BY <2>1, <2>3, <2>4
  <2>7. NewestInv'
    BY <2>1, <2>2, <2>3 DEF Holding
  <2>8. KindInv'
    BY <2>4, <2>5
  <2>9. TakenInv'
    <3>1. SUFFICES ASSUME NEW i \in IDs, reply[i] = "taken",
                          verdict[i] = "session"
                   PROVE  \/ promptOf'[i] \in granted
                          \/ \E u \in Callers : pc'[u] = "store" /\ id'[u] = i
      BY <2>4
    <3>2. promptOf'[i] = promptOf[i]
      BY <1>0, <3>1
    <3>3. \A u \in Callers : pc[u] # "store"
      BY <2>1, <2>2 DEF Holding
    <3>4. promptOf[i] \in granted
      BY <3>1, <3>3
    <3> QED
      BY <3>2, <3>4
  <2>10. AnswersDoNotCross'
    <3>1. outcome[t] = "none"
      BY <2>1 DEF CallInv, OpenInv
    <3> QED
      BY <2>3, <2>4, <3>1
  <2>11. NoRepromptAfterGrant'
    <3>1. \A i \in IDs : (reply[i] = "taken" /\ verdict[i] = "session")
                        => promptOf[i] # op[t]
      BY <2>1, <2>2 DEF Holding
    <3> QED
      BY <2>1, <2>4, <2>5, <3>1
  <2> QED
    BY <2>6, <2>7, <2>8, <2>9, <2>10, <2>11
<1>7. ASSUME NEW t \in Callers, Emit(t) PROVE ApartInv'
  BY <1>7 DEF Emit, Goto
<1>8. ASSUME NEW t \in Callers, TakeReply(t) PROVE ApartInv'
  <2> DEFINE r == reply[id[t]]
  <2>1. /\ pc[t] = "wait" /\ id[t] \in IDs /\ id[t] = nextID
        /\ r \in Replies /\ verdict[id[t]] = r
        /\ promptOf[id[t]] = op[t]
    BY <1>8 DEF TakeReply, CallInv, PromptInv, VerdictInv
  <2>2. /\ reply'[id[t]] = "taken"
        /\ \A i \in IDs : i # id[t] => reply'[i] = reply[i]
        /\ UNCHANGED <<granted, nextID, verdict, promptOf, op, id>>
    BY <1>8, <2>1 DEF TakeReply
  <2>3. pc'[t] = IF r = "session" THEN "store" ELSE "idle"
    BY <1>8 DEF TakeReply, Goto, Return, Remembers
  <2>4. \A u \in Callers : u # t => pc'[u] = pc[u] /\ outcome'[u] = outcome[u]
    BY <1>8 DEF TakeReply, Goto, Return
  <2>5. r # "session" => outcome'[t] = Result(t)
    BY <1>8 DEF TakeReply, Return, Remembers
  <2>6. r = "session" => outcome'[t] = outcome[t]
    BY <1>8 DEF TakeReply, Remembers
  <2>7. FreshInv' /\ NewestInv' /\ KindInv'
    BY <2>1, <2>2, <2>3, <2>4
  <2>8. TakenInv'
    <3>1. \A i \in IDs : i # id[t] =>
            ((reply'[i] = "taken" /\ verdict'[i] = "session") =>
               \/ promptOf'[i] \in granted'
               \/ \E u \in Callers : pc'[u] = "store" /\ id'[u] = i)
      BY <2>1, <2>2, <2>4
    <3>2. verdict'[id[t]] = "session" => pc'[t] = "store" /\ id'[t] = id[t]
      BY <2>1, <2>2, <2>3
    <3> QED
      BY <3>1, <3>2
  <2>9. AnswersDoNotCross'
    <3>1. CASE r = "session"
      <4>1. outcome'[t] = "none"
        BY <2>1, <2>6, <3>1 DEF CallInv, OpenInv
      <4> QED
        BY <2>2, <2>4, <4>1
    <3>2. CASE r # "session"
      <4>1. \/ Result(t) = "allow" /\ r = "once"
            \/ Result(t) = "deny" /\ r \in {"deny", "denySession"}
            \/ Result(t) = "answers" /\ r = "answered"
        BY <2>1, <3>2 DEF Result, IsQuestion, Allows, Replies
      <4> QED
        BY <2>1, <2>2, <2>4, <2>5, <3>2, <4>1
    <3> QED
      BY <3>1, <3>2
  <2>10. NoRepromptAfterGrant'
    BY <2>1, <2>2
  <2> QED
    BY <2>7, <2>8, <2>9, <2>10
<1>9. ASSUME NEW t \in Callers, StoreGrant(t) PROVE ApartInv'
  <2>1. FreshInv' /\ NewestInv' /\ KindInv'
    BY <1>9 DEF StoreGrant, Goto, Return, Unlock, CallInv, StoreInv, PromptInv
  <2>2. TakenInv' /\ NoRepromptAfterGrant'
    BY <1>9 DEF StoreGrant, Goto, Return, Unlock, CallInv, StoreInv, PromptInv
  <2>3. AnswersDoNotCross'
    BY <1>9 DEF StoreGrant, Goto, Return, Unlock, CallInv, StoreInv, PromptInv
  <2> QED
    BY <2>1, <2>2, <2>3
<1>10. ASSUME NEW t \in Callers, SeeCancel(t) PROVE ApartInv'
  <2>1. FreshInv' /\ NewestInv' /\ KindInv'
    BY <1>10 DEF SeeCancel, Goto
  <2>2. TakenInv' /\ NoRepromptAfterGrant'
    BY <1>10 DEF SeeCancel, Goto
  <2>3. AnswersDoNotCross'
    BY <1>10 DEF SeeCancel, Goto
  <2> QED
    BY <2>1, <2>2, <2>3
<1>11. ASSUME NEW t \in Callers, Cleanup(t) PROVE ApartInv'
  <2>1. FreshInv' /\ NewestInv' /\ KindInv'
    BY <1>11 DEF Cleanup, Goto, Return, Unlock
  <2>2. TakenInv' /\ NoRepromptAfterGrant'
    BY <1>11 DEF Cleanup, Goto, Return, Unlock
  <2>3. AnswersDoNotCross'
    BY <1>11 DEF Cleanup, Goto, Return, Unlock
  <2> QED
    BY <2>1, <2>2, <2>3
<1>12. ASSUME NEW i \in IDs, NEW r \in Replies, Approve(i, r) PROVE ApartInv'
  <2>1. /\ verdict[i] = "empty" /\ reply[i] = "empty"
        /\ promptOf[i] # Ask /\ r # "answered"
    BY <1>12 DEF Approve, VerdictInv, AnsweredInv
  <2>2. /\ verdict'[i] = r
        /\ \A j \in IDs : j # i => verdict'[j] = verdict[j]
        /\ UNCHANGED <<nextID, granted, reply, callVars>>
    BY <1>12 DEF Approve
  <2>3. FreshInv' /\ NewestInv' /\ KindInv'
    <3>1. FreshInv' /\ NewestInv'
      BY <2>2
    <3>2. KindInv'
      BY <2>1, <2>2
    <3> QED
      BY <3>1, <3>2
  <2>6. NoRepromptAfterGrant'
    BY <2>1, <2>2
  <2>4. TakenInv'
    BY <2>1, <2>2
  <2>5. AnswersDoNotCross'
    BY <1>0, <2>2
  <2> QED
    BY <2>3, <2>4, <2>5, <2>6
<1>13. ASSUME NEW i \in IDs, AnswerQuestion(i) PROVE ApartInv'
  <2>1. FreshInv' /\ NewestInv' /\ KindInv'
    BY <1>13 DEF AnswerQuestion
  <2>2. TakenInv' /\ NoRepromptAfterGrant'
    BY <1>13 DEF AnswerQuestion
  <2>3. AnswersDoNotCross'
    BY <1>13 DEF AnswerQuestion
  <2> QED
    BY <2>1, <2>2, <2>3
<1>14. ASSUME NEW i \in IDs, NEW r \in Replies, Send(i, r) PROVE ApartInv'
  <2>1. /\ reply'[i] = r /\ r # "taken"
        /\ \A j \in IDs : j # i => reply'[j] = reply[j]
        /\ UNCHANGED <<nextID, granted, verdict, callVars>>
    BY <1>14 DEF Send, Replies
  <2>2. FreshInv' /\ NewestInv' /\ KindInv' /\ NoRepromptAfterGrant'
    BY <2>1
  <2>3. TakenInv'
    BY <2>1
  <2>4. AnswersDoNotCross'
    BY <2>1
  <2> QED
    BY <2>2, <2>3, <2>4
<1>15. ASSUME NEW on \in BOOLEAN, SetBypass(on) PROVE ApartInv'
  BY <1>15 DEF SetBypass
<1>16. ASSUME NEW on \in BOOLEAN, SetGoalAutoApp(on) PROVE ApartInv'
  BY <1>16 DEF SetGoalAutoApp
<1>17. ASSUME Cancel PROVE ApartInv'
  BY <1>17 DEF Cancel
<1>18. ASSUME NewTurn PROVE ApartInv'
  BY <1>18 DEF NewTurn
<1>19. CASE UNCHANGED vars
  BY <1>19 DEF vars
<1> HIDE DEF Inv, TypeOK, IDs, ApartInv, FreshInv, NewestInv, KindInv,
             TakenInv, PromptsStayApart, AnswersDoNotCross,
             NoRepromptAfterGrant
<1> QED
  BY <1>1, <1>2, <1>3, <1>4, <1>5, <1>6, <1>7, <1>8, <1>9, <1>10, <1>11,
     <1>12, <1>13, <1>14, <1>15, <1>16, <1>17, <1>18, <1>19
     DEF Next, CallerStep

(* Answers never cross between prompts, and once a session grant has been  *)
(* received no call that queued behind it asks again.                      *)
THEOREM PromptsApart == Safety => []PromptsStayApart
<1>1. Init => ApartInv
  BY KeysAssumption DEF Init, ApartInv, FreshInv, NewestInv, KindInv, TakenInv,
     PromptsStayApart, AnswersDoNotCross, NoRepromptAfterGrant
<1>2. ApartInv => PromptsStayApart
  BY DEF ApartInv
<1> QED
  BY <1>1, <1>2, StepApart, InvHolds, PTL DEF Safety

-----------------------------------------------------------------------------
(* The chat terminal (cli/chat_tui.go, chat_turn.go, chat_approval.go).    *)

Events == [turn : Nat \ {0}, kind : {"reply", "prompt", "done"}, id : Nat]
Entries == [turn : Nat, kind : Tui!Lines \cup {"echo", "reply"}, id : Nat]

(* The controller: the running turn is the latest line, and a prompt that  *)
(* waits was asked by it.                                                  *)
TuiTypes ==
  /\ line \in Seq(Tui!Lines) /\ Len(line) <= MaxTurns
  /\ running \in {0, Len(line)} /\ ending \in Nat
  /\ eventCh \in Seq(Events) /\ askedBy \in Seq(Nat \ {0})
  /\ waiting \in 0..Len(askedBy) /\ (waiting # 0 => running # 0)
  /\ prompt \in 0..Len(askedBy)
  /\ replies \in Nat /\ (running = 0 => replies = 0)
  /\ heard \in [1..MaxTurns -> Nat] /\ unsent \subseteq 1..Len(line)
  /\ turnDiscarded \in BOOLEAN /\ (bubble # Tui!NoBubble => Len(line) # 0)

(* A prompt is in the channel or on the screen, once; and while its turn   *)
(* is not cancelled, the run goroutine waits for it.                       *)
Asks(ch, i, p) == ch[i].kind = "prompt" /\ ch[i].id = p
AskedOnce(ch, p) == \A i, j \in DOMAIN ch : Asks(ch, i, p) /\ Asks(ch, j, p) => i = j
Waits(p, by, c, w, r) == by[p] \in c \/ (w = p /\ r = by[p])
Waited(p) == Waits(p, askedBy, cancelled, waiting, running)
TuiPrompts ==
  /\ \A i \in DOMAIN eventCh :
       eventCh[i].kind = "prompt" =>
         /\ eventCh[i].id \in 1..Len(askedBy) /\ eventCh[i].id # prompt
         /\ Waited(eventCh[i].id) /\ AskedOnce(eventCh, eventCh[i].id)
  /\ prompt # 0 => Waited(prompt)

(* Until a turn is begun behind the loop's back, the channel holds events  *)
(* of the latest turn only, its done last.                                 *)
Undone == running # 0 \/ Tui!DonePending
TuiTurns ==
  /\ state \in {"idle", "running"} /\ (state = "running" <=> Undone)
  /\ running # 0 => ~Tui!DonePending
  /\ ending \in {0, Len(line)}
  /\ ending # 0 => \A i \in DOMAIN eventCh : eventCh[i].kind # "done"
  /\ ~Undone => eventCh = <<>>
  /\ \A i \in DOMAIN eventCh :
       eventCh[i].turn = Len(line) /\ (eventCh[i].kind = "done" => i = Len(eventCh))

(* Its replies are those the loop has not heard yet, in order.             *)
Queued(ch, h, k) ==
  /\ h <= k
  /\ \A i \in DOMAIN ch : ch[i].kind = "reply" => ch[i].id \in (h + 1)..k
  /\ \A n \in (h + 1)..k : \E i \in DOMAIN ch : ch[i].kind = "reply" /\ ch[i].id = n
  /\ \A i, j \in DOMAIN ch :
       i < j /\ ch[i].kind = "reply" /\ ch[j].kind = "reply" => ch[i].id < ch[j].id
TuiQueue ==
  /\ \A t \in 1..MaxTurns : t > Len(line) => heard[t] = 0
  /\ Len(line) # 0 =>
       \E k \in Nat : Queued(eventCh, heard[Len(line)], k) /\ (running # 0 => k = replies)

(* A turn shows what was heard of it; a bubble that may be taken back has  *)
(* nothing but echoes behind it, and those before it are of other turns.   *)
ShownUpTo(tr, t, n) ==
  /\ \A i \in DOMAIN tr : tr[i].turn = t => tr[i].kind = "reply" /\ tr[i].id \in 1..n
  /\ \A m \in 1..n : \E i \in DOMAIN tr : tr[i].turn = t /\ tr[i].id = m
  /\ \A i, j \in DOMAIN tr : i < j /\ tr[i].turn = t /\ tr[j].turn = t => tr[i].id < tr[j].id
TuiShown ==
  /\ transcript \in Seq(Entries) /\ \A i \in DOMAIN transcript : transcript[i].turn <= Len(line)
  /\ \A t \in 1..Len(line) : ShownUpTo(transcript, t, IF t \in unsent THEN 0 ELSE heard[t])
TuiBubbles ==
  \A i \in DOMAIN transcript :
    transcript[i].turn = 0 /\ transcript[i].kind # "echo" =>
      \E u \in 1..Len(line) \ unsent :
        line[u] = transcript[i].kind /\ (bubble # Tui!NoBubble /\ i <= bubble.at => u # Len(line))
TuiRestore ==
  /\ bubble # Tui!NoBubble =>
       /\ Len(line) # 0 /\ heard[Len(line)] = 0 /\ ~turnDiscarded
       /\ bubble.at \in Nat /\ bubble.at < Len(transcript)
       /\ \A i \in DOMAIN transcript : i > bubble.at => transcript[i].turn = 0
  /\ turnDiscarded => Len(line) \in unsent
  /\ Len(line) \in unsent /\ Undone => turnDiscarded

(* The loop knows of a turn that overtook no TurnDone, and of a TurnDone    *)
(* to come when no turn runs.                                              *)
TuiKnown ==
  /\ running # 0 /\ running \notin overtaken => state = "running" /\ ~Tui!DonePending
  /\ state = "running" => running # 0 \/ Tui!DonePending

TuiInv ==
  /\ TuiTypes /\ TuiPrompts /\ TuiKnown
  /\ ~crossed => TuiTurns /\ TuiQueue /\ TuiShown /\ TuiBubbles /\ TuiRestore

LEMMA TuiInit == Tui!Init => TuiInv
<1> SUFFICES ASSUME Tui!Init PROVE TuiInv
  OBVIOUS
<1> USE FrontsAssumption DEF Tui!Init
<1>0. Len(line) = 0 /\ DOMAIN eventCh = {} /\ DOMAIN transcript = {}
  OBVIOUS
<1>1. TuiTypes
  <2>1. line \in Seq(Tui!Lines) /\ eventCh \in Seq(Events) /\ askedBy \in Seq(Nat \ {0}) /\
          Len(askedBy) = 0
    OBVIOUS
  <2>2. heard \in [1..MaxTurns -> Nat]
    OBVIOUS
  <2>3. /\ running = 0 /\ ending = 0 /\ waiting = 0 /\ prompt = 0 /\ replies = 0 /\ unsent = {}
        /\ turnDiscarded = FALSE /\ bubble = Tui!NoBubble /\ MaxTurns \in Nat
    OBVIOUS
  <2> QED
    <3>1. line \in Seq(Tui!Lines) /\ Len(line) <= MaxTurns /\ running \in {0, Len(line)} /\
            ending \in Nat
      BY ONLY <1>0, <2>1, <2>3
    <3>2. waiting \in 0..Len(askedBy) /\ prompt \in 0..Len(askedBy) /\ replies \in Nat
      BY ONLY <2>1, <2>3
    <3>3. unsent \subseteq 1..Len(line) /\ turnDiscarded \in BOOLEAN
      BY ONLY <2>3
    <3> QED
      BY ONLY <2>1, <2>2, <2>3, <3>1, <3>2, <3>3 DEF TuiTypes
<1>2. TuiPrompts
  BY <1>0 DEF TuiPrompts
<1>3. TuiTurns
  BY <1>0 DEF TuiTurns, Undone, Tui!DonePending
<1>4. TuiQueue
  BY <1>0 DEF TuiQueue
<1>5. TuiShown
  BY <1>0 DEF TuiShown
<1>6. TuiBubbles
  BY <1>0 DEF TuiBubbles
<1>7. TuiRestore
  BY <1>0 DEF TuiRestore
<1>8. TuiKnown
  BY DEF TuiKnown
<1> QED
  BY <1>1, <1>2, <1>3, <1>4, <1>5, <1>6, <1>7, <1>8 DEF TuiInv

(* The channel and the transcript as sequences.                            *)
LEMMA Appended ==
  ASSUME NEW S, NEW s \in Seq(S), NEW e \in S
  PROVE  /\ Append(s, e) \in Seq(S) /\ Len(s) \in Nat /\ Len(Append(s, e)) = Len(s) + 1
         /\ DOMAIN s = 1..Len(s) /\ DOMAIN Append(s, e) = 1..(Len(s) + 1)
         /\ Append(s, e)[Len(s) + 1] = e /\ \A i \in 1..Len(s) : Append(s, e)[i] = s[i]
OBVIOUS

LEMMA Taken ==
  ASSUME NEW S, NEW s \in Seq(S), s # <<>>
  PROVE  /\ Tail(s) \in Seq(S) /\ Head(s) = s[1] /\ s[1] \in S /\ Len(s) \in Nat \ {0}
         /\ Len(Tail(s)) = Len(s) - 1 /\ DOMAIN s = 1..Len(s) /\ DOMAIN Tail(s) = 1..(Len(s) - 1)
         /\ \A i \in 1..(Len(s) - 1) : Tail(s)[i] = s[i + 1]
OBVIOUS

LEMMA Cut ==
  ASSUME NEW S, NEW s \in Seq(S), NEW n \in Nat, n <= Len(s)
  PROVE  /\ SubSeq(s, 1, n) \in Seq(S) /\ DOMAIN SubSeq(s, 1, n) = 1..n /\ 1..n \subseteq DOMAIN s
         /\ DOMAIN s = 1..Len(s) /\ Len(s) \in Nat
         /\ \A i \in 1..n : SubSeq(s, 1, n)[i] = s[i]
OBVIOUS

LEMMA QueueAppend ==
  ASSUME NEW ch \in Seq(Events), NEW e \in Events, NEW h \in Nat, NEW k \in Nat, Queued(ch, h, k)
  PROVE  /\ e.kind # "reply" => Queued(Append(ch, e), h, k)
         /\ e.kind = "reply" /\ e.id = k + 1 => Queued(Append(ch, e), h, k + 1)
<1> DEFINE d == Append(ch, e)
<1>1. /\ DOMAIN ch = 1..Len(ch) /\ DOMAIN d = 1..(Len(ch) + 1) /\ Len(ch) \in Nat
      /\ d[Len(ch) + 1] = e /\ \A i \in 1..Len(ch) : d[i] = ch[i]
  BY Appended
<1> HIDE DEF d
<1>2. ASSUME e.kind # "reply" PROVE Queued(d, h, k)
  <2>1. \A i \in DOMAIN d : d[i].kind = "reply" => i \in DOMAIN ch /\ d[i] = ch[i]
    BY <1>1, <1>2
  <2>2. \A i \in DOMAIN ch : i \in DOMAIN d /\ d[i] = ch[i]
    BY <1>1
  <2> QED
    BY <2>1, <2>2 DEF Queued
<1>3. ASSUME e.kind = "reply", e.id = k + 1 PROVE Queued(d, h, k + 1)
  <2>1. \A i \in DOMAIN d : (i \in DOMAIN ch /\ d[i] = ch[i]) \/ (i = Len(ch) + 1 /\ d[i] = e)
    BY <1>1
  <2>2. \A i \in DOMAIN ch : i \in DOMAIN d /\ d[i] = ch[i] /\ i < Len(ch) + 1
    BY <1>1
  <2>3. \A i \in DOMAIN d : d[i].kind = "reply" => d[i].id \in (h + 1)..(k + 1)
    BY <1>3, <2>1 DEF Queued
  <2>4. \A n \in (h + 1)..(k + 1) : \E i \in DOMAIN d : d[i].kind = "reply" /\ d[i].id = n
    <3> SUFFICES ASSUME NEW n \in (h + 1)..(k + 1)
                 PROVE  \E i \in DOMAIN d : d[i].kind = "reply" /\ d[i].id = n
      OBVIOUS
    <3>1. CASE n = k + 1
      BY <1>1, <1>3, <3>1
    <3>2. CASE n \in (h + 1)..k
      BY <2>2, <3>2 DEF Queued
    <3> QED
      BY <3>1, <3>2
  <2>5. ASSUME NEW i \in DOMAIN d, NEW j \in DOMAIN d, i < j, d[i].kind = "reply", d[j].kind = "reply"
        PROVE  d[i].id < d[j].id
    <3>1. i \in DOMAIN ch /\ d[i] = ch[i]
      BY <1>1, <2>5
    <3>2. CASE j \in DOMAIN ch
      BY <2>2, <2>5, <3>1, <3>2 DEF Queued
    <3>3. CASE j = Len(ch) + 1
      BY <1>1, <1>3, <2>5, <3>1, <3>3 DEF Queued
    <3> QED
      BY <2>1, <3>2, <3>3
  <2> QED
    BY <2>3, <2>4, <2>5 DEF Queued
<1> QED
  BY <1>2, <1>3 DEF d

LEMMA QueueTail ==
  ASSUME NEW ch \in Seq(Events), ch # <<>>, NEW h \in Nat, NEW k \in Nat, Queued(ch, h, k)
  PROVE  /\ ch[1].kind # "reply" => Queued(Tail(ch), h, k)
         /\ ch[1].kind = "reply" => ch[1].id = h + 1 /\ Queued(Tail(ch), h + 1, k)
<1> DEFINE d == Tail(ch)
<1>1. /\ DOMAIN ch = 1..Len(ch) /\ DOMAIN d = 1..(Len(ch) - 1) /\ Len(ch) \in Nat \ {0}
      /\ \A i \in 1..(Len(ch) - 1) : d[i] = ch[i + 1]
      /\ \A i \in 1..Len(ch) : ch[i] \in Events
  BY Taken
<1> HIDE DEF d
<1>2. \A i \in DOMAIN d : i + 1 \in DOMAIN ch /\ d[i] = ch[i + 1] /\ i \in Nat \ {0}
  BY <1>1
<1>3. \A i \in DOMAIN ch : i = 1 \/ (i - 1 \in DOMAIN d /\ d[i - 1] = ch[i])
  BY <1>1
<1>4. \A i, j \in DOMAIN d : i < j /\ d[i].kind = "reply" /\ d[j].kind = "reply" => d[i].id < d[j].id
  BY <1>2 DEF Queued
<1>5. ASSUME ch[1].kind # "reply" PROVE Queued(d, h, k)
  <2>1. \A i \in DOMAIN d : d[i].kind = "reply" => d[i].id \in (h + 1)..k
    BY <1>2 DEF Queued
  <2>2. \A n \in (h + 1)..k : \E i \in DOMAIN d : d[i].kind = "reply" /\ d[i].id = n
    <3> SUFFICES ASSUME NEW n \in (h + 1)..k
                 PROVE  \E i \in DOMAIN d : d[i].kind = "reply" /\ d[i].id = n
      OBVIOUS
    <3>1. PICK i \in DOMAIN ch : ch[i].kind = "reply" /\ ch[i].id = n
      BY DEF Queued
    <3> QED
      BY <1>3, <1>5, <3>1
  <2> QED
    BY <1>4, <2>1, <2>2 DEF Queued
<1>6. ASSUME ch[1].kind = "reply" PROVE ch[1].id = h + 1 /\ Queued(d, h + 1, k)
  <2>1. 1 \in DOMAIN ch /\ ch[1].id \in (h + 1)..k
    BY <1>1, <1>6 DEF Queued
  <2>2. \A i \in DOMAIN ch : i # 1 /\ ch[i].kind = "reply" => ch[1].id < ch[i].id /\
          ch[i].id \in (h + 1)..k
    BY <1>1, <1>6 DEF Queued
  <2>3. ch[1].id = h + 1
    <3>1. PICK i \in DOMAIN ch : ch[i].kind = "reply" /\ ch[i].id = h + 1
      BY <2>1 DEF Queued
    <3> QED
      BY <2>1, <2>2, <3>1
  <2>4. h + 1 <= k
    BY <2>1
  <2>5. \A i \in DOMAIN d : d[i].kind = "reply" => d[i].id \in (h + 2)..k
    <3> SUFFICES ASSUME NEW i \in DOMAIN d, d[i].kind = "reply" PROVE d[i].id \in (h + 2)..k
      OBVIOUS
    <3>1. i + 1 \in DOMAIN ch /\ i + 1 # 1 /\ d[i] = ch[i + 1]
      BY <1>2
    <3> QED
      BY <2>2, <2>3, <3>1
  <2>6. \A n \in (h + 2)..k : \E i \in DOMAIN d : d[i].kind = "reply" /\ d[i].id = n
    <3> SUFFICES ASSUME NEW n \in (h + 2)..k PROVE \E i \in DOMAIN d : d[i].kind = "reply" /\
                          d[i].id = n
      OBVIOUS
    <3>1. PICK i \in DOMAIN ch : ch[i].kind = "reply" /\ ch[i].id = n
      BY DEF Queued
    <3>2. i # 1
      BY <2>3, <3>1
    <3> QED
      BY <1>3, <3>1, <3>2
  <2> QED
    BY <1>4, <2>3, <2>4, <2>5, <2>6 DEF Queued
<1> QED
  BY <1>5, <1>6 DEF d

LEMMA ShownAppend ==
  ASSUME NEW tr \in Seq(Entries), NEW e \in Entries, NEW t \in Nat, NEW n \in Nat, ShownUpTo(tr, t, n)
  PROVE  /\ e.turn # t => ShownUpTo(Append(tr, e), t, n)
         /\ e.turn = t /\ e.kind = "reply" /\ e.id = n + 1 => ShownUpTo(Append(tr, e), t, n + 1)
<1> DEFINE d == Append(tr, e)
<1>1. /\ DOMAIN tr = 1..Len(tr) /\ DOMAIN d = 1..(Len(tr) + 1) /\ Len(tr) \in Nat
      /\ d[Len(tr) + 1] = e /\ \A i \in 1..Len(tr) : d[i] = tr[i]
  BY Appended
<1> HIDE DEF d
<1>2. ASSUME e.turn # t PROVE ShownUpTo(d, t, n)
  <2>1. \A i \in DOMAIN d : d[i].turn = t => i \in DOMAIN tr /\ d[i] = tr[i]
    BY <1>1, <1>2
  <2>2. \A i \in DOMAIN tr : i \in DOMAIN d /\ d[i] = tr[i]
    BY <1>1
  <2> QED
    BY <2>1, <2>2 DEF ShownUpTo
<1>3. ASSUME e.turn = t, e.kind = "reply", e.id = n + 1 PROVE ShownUpTo(d, t, n + 1)
  <2>1. \A i \in DOMAIN d : (i \in DOMAIN tr /\ d[i] = tr[i]) \/ (i = Len(tr) + 1 /\ d[i] = e)
    BY <1>1
  <2>2. \A i \in DOMAIN tr : i \in DOMAIN d /\ d[i] = tr[i] /\ i < Len(tr) + 1
    BY <1>1
  <2>3. \A i \in DOMAIN d : d[i].turn = t => d[i].kind = "reply" /\ d[i].id \in 1..(n + 1)
    BY <1>3, <2>1 DEF ShownUpTo
  <2>4. \A m \in 1..(n + 1) : \E i \in DOMAIN d : d[i].turn = t /\ d[i].id = m
    <3> SUFFICES ASSUME NEW m \in 1..(n + 1) PROVE \E i \in DOMAIN d : d[i].turn = t /\ d[i].id = m
      OBVIOUS
    <3>1. CASE m = n + 1
      BY <1>1, <1>3, <3>1
    <3>2. CASE m \in 1..n
      BY <2>2, <3>2 DEF ShownUpTo
    <3> QED
      BY <3>1, <3>2
  <2>5. ASSUME NEW i \in DOMAIN d, NEW j \in DOMAIN d, i < j, d[i].turn = t, d[j].turn = t
        PROVE  d[i].id < d[j].id
    <3>1. i \in DOMAIN tr /\ d[i] = tr[i]
      BY <1>1, <2>5
    <3>2. CASE j \in DOMAIN tr
      BY <2>2, <2>5, <3>1, <3>2 DEF ShownUpTo
    <3>3. CASE j = Len(tr) + 1
      BY <1>1, <1>3, <2>5, <3>1, <3>3 DEF ShownUpTo
    <3> QED
      BY <2>1, <3>2, <3>3
  <2> QED
    BY <2>3, <2>4, <2>5 DEF ShownUpTo
<1> QED
  BY <1>2, <1>3 DEF d

LEMMA ShownCut ==
  ASSUME NEW tr \in Seq(Entries), NEW c \in Nat, c <= Len(tr), NEW t \in Nat, NEW n \in Nat,
         ShownUpTo(tr, t, n), \A i \in DOMAIN tr : i > c => tr[i].turn # t
  PROVE  ShownUpTo(SubSeq(tr, 1, c), t, n)
<1> DEFINE d == SubSeq(tr, 1, c)
<1>1. /\ DOMAIN tr = 1..Len(tr) /\ DOMAIN d = 1..c /\ 1..c \subseteq DOMAIN tr /\ Len(tr) \in Nat
      /\ \A i \in 1..c : d[i] = tr[i]
  BY Cut
<1> HIDE DEF d
<1>2. \A i \in DOMAIN d : i \in DOMAIN tr /\ d[i] = tr[i]
  BY <1>1
<1>3. \A i \in DOMAIN tr : tr[i].turn = t => i \in DOMAIN d /\ d[i] = tr[i]
  BY <1>1
<1>4. ShownUpTo(d, t, n)
  BY <1>2, <1>3 DEF ShownUpTo
<1> QED
  BY <1>4 DEF d

(* What the keys and the goroutine do, as far as the invariant can tell.   *)
Echoed ==
  /\ transcript' = Append(transcript, Tui!Echo)
  /\ UNCHANGED <<state, bubble, turnDiscarded, prompt, Tui!controller, eventCh, heard, unsent, crossed, overtaken>>
Quiet ==
  /\ UNCHANGED <<state, transcript, bubble, turnDiscarded, running, ending, waiting, line, replies,
                 askedBy, eventCh, heard, unsent, crossed, overtaken>>
  /\ cancelled \subseteq cancelled' /\ prompt' \in {prompt, 0}
Answered ==
  /\ UNCHANGED <<state, transcript, bubble, turnDiscarded, running, ending, line, replies, askedBy,
                 eventCh, heard, unsent, crossed, overtaken>>
  /\ cancelled \subseteq cancelled' /\ prompt # 0 /\ prompt' = 0
  /\ waiting' = waiting \/ (waiting = prompt /\ waiting' = 0)

LEMMA TuiSteps ==
  [Tui!Next]_(Tui!vars) =>
    \/ Tui!Reply \/ Tui!AskUser \/ Tui!Finish \/ Tui!TurnDone
    \/ (\E l \in Tui!Lines : Tui!StartTurn(l)) /\ UNCHANGED prompt
    \/ Echoed \/ Quiet \/ Tui!UnsendPending \/ Answered \/ Tui!Ingest
<1> SUFFICES ASSUME [Tui!Next]_(Tui!vars),
                    ~(Tui!Reply \/ Tui!AskUser \/ Tui!Finish \/ Tui!TurnDone \/
                      Tui!UnsendPending \/ Tui!Ingest)
             PROVE  ((\E l \in Tui!Lines : Tui!StartTurn(l)) /\ UNCHANGED prompt) \/ Echoed \/ Quiet
                    \/ Answered
  OBVIOUS
<1>1. ASSUME NEW l \in Tui!Lines, Tui!RefsResolved(l) PROVE Tui!StartTurn(l) /\ UNCHANGED prompt
  BY <1>1 DEF Tui!RefsResolved
<1>2. ASSUME NEW l \in Tui!Lines, Tui!Type(l) PROVE Quiet
  BY <1>2 DEF Tui!Type, Quiet, Tui!controller
<1>3. CASE Tui!Enter
  BY <1>3 DEF Tui!Enter, Quiet, Echoed, Tui!controller, Tui!Lines
<1>4. CASE Tui!CancelTurn
  BY <1>4 DEF Tui!CancelTurn, Quiet, Tui!Cancel, Tui!loop
<1>5. CASE Tui!IdleEsc \/ Tui!RewindKey
  BY <1>5 DEF Tui!IdleEsc, Tui!RewindKey, Quiet, Tui!controller
<1>6. CASE Tui!CancelKey
  BY <1>6 DEF Tui!CancelKey, Tui!Cancel, Tui!Decides, Answered
<1>8. CASE Tui!AnswerKey
  BY <1>8 DEF Tui!AnswerKey, Tui!Decides, Answered
<1>7. CASE UNCHANGED Tui!vars
  BY <1>7 DEF Tui!vars, Tui!loop, Tui!controller, Quiet
<1> QED
  BY <1>1, <1>2, <1>3, <1>4, <1>5, <1>6, <1>7, <1>8 DEF Tui!Next, Tui!Keys

LEMMA StepTuiTypes == TuiInv /\ [Tui!Next]_(Tui!vars) => TuiTypes'
<1> SUFFICES ASSUME TuiInv, [Tui!Next]_(Tui!vars) PROVE TuiTypes'
  OBVIOUS
<1>t. TuiTypes
  BY DEF TuiInv
<1>n. Len(line) \in Nat /\ Len(askedBy) \in Nat /\ running \in Nat
  BY <1>t DEF TuiTypes
<1>1. CASE Tui!Reply
  <2>1. Tui!Ev(running, "reply", replies + 1) \in Events
    BY <1>1, <1>t, <1>n DEF Tui!Reply, Tui!Ev, Events, TuiTypes
  <2> HIDE DEF Events
  <2>2. eventCh' \in Seq(Events)
    BY <1>1, <1>t, <2>1, Appended DEF Tui!Reply, Tui!Emit, TuiTypes
  <2> QED
    BY <1>1, <1>t, <2>2 DEF Tui!Reply, Tui!loop, TuiTypes
<1>2. CASE Tui!AskUser
  <2>1. Tui!Ev(running, "prompt", Len(askedBy) + 1) \in Events /\ running \in Nat \ {0}
    BY <1>2, <1>t, <1>n DEF Tui!AskUser, Tui!Ev, Events, TuiTypes
  <2>2. eventCh' \in Seq(Events)
    BY <1>2, <1>t, <2>1, Appended DEF Tui!AskUser, Tui!Emit, TuiTypes
  <2>3. askedBy' \in Seq(Nat \ {0}) /\ Len(askedBy') = Len(askedBy) + 1
    BY <1>2, <1>t, <2>1, Appended DEF Tui!AskUser, TuiTypes
  <2> QED
    BY <1>2, <1>t, <1>n, <2>1, <2>2, <2>3 DEF Tui!AskUser, Tui!loop, TuiTypes
<1>3. CASE Tui!Finish
  BY <1>3, <1>t, <1>n DEF Tui!Finish, Tui!loop, TuiTypes
<1>4. CASE Tui!TurnDone
  <2>1. Tui!Ev(ending, "done", 0) \in Events
    BY <1>4, <1>t DEF Tui!TurnDone, Tui!Ev, Events, TuiTypes
  <2>2. eventCh' \in Seq(Events)
    BY <1>4, <1>t, <2>1, Appended DEF Tui!TurnDone, Tui!Emit, TuiTypes
  <2> QED
    BY <1>4, <1>t, <2>2 DEF Tui!TurnDone, Tui!loop, TuiTypes
<1>5. ASSUME NEW l \in Tui!Lines, Tui!StartTurn(l), UNCHANGED prompt PROVE TuiTypes'
  <2>1. Append(line, l) \in Seq(Tui!Lines) /\ Len(Append(line, l)) = Len(line) + 1
    BY <1>5, <1>t, Appended DEF TuiTypes
  <2>2. CASE running = 0
    <3>1. line' = Append(line, l) /\ running' = Len(line) + 1 /\ Len(line) < MaxTurns
          /\ UNCHANGED <<eventCh, ending, waiting, replies, askedBy, heard, unsent, prompt>>
          /\ turnDiscarded' = FALSE
      BY <1>5, <2>2 DEF Tui!StartTurn
    <3>2. 1..Len(line) \subseteq 1..(Len(line) + 1)
      BY <1>n
    <3>3. Len(line') = Len(line) + 1 /\ Len(line') <= MaxTurns
      BY <1>n, <2>1, <3>1, FrontsAssumption
    <3>4. unsent' \subseteq 1..Len(line')
      BY <1>t, <3>1, <3>2, <3>3 DEF TuiTypes
    <3>5. line' \in Seq(Tui!Lines) /\ running' \in {0, Len(line')} /\ running' # 0 /\ Len(line') # 0
      BY <1>n, <2>1, <3>1, <3>3
    <3> QED
      BY <1>t, <3>1, <3>3, <3>4, <3>5 DEF TuiTypes
  <2>3. CASE running # 0
    BY <1>5, <1>t, <2>3 DEF Tui!StartTurn, TuiTypes
  <2> QED
    BY <2>2, <2>3
<1>6. CASE Echoed \/ Quiet
  <2>1. /\ UNCHANGED <<running, ending, waiting, line, replies, askedBy, eventCh, heard, unsent>>
        /\ UNCHANGED <<bubble, turnDiscarded>> /\ prompt' \in {prompt, 0}
    BY <1>6 DEF Echoed, Quiet, Tui!controller
  <2> QED
    BY <1>t, <1>n, <2>1 DEF TuiTypes
<1>7. CASE Tui!UnsendPending
  <2>1. /\ UNCHANGED <<running, ending, waiting, line, replies, askedBy, eventCh, heard, prompt>>
        /\ turnDiscarded' = TRUE /\ unsent' = unsent \cup {Len(line)}
        /\ bubble # Tui!NoBubble /\ bubble' = Tui!NoBubble
    BY <1>7 DEF Tui!UnsendPending, Tui!Discarding
  <2>2. Len(line) \in 1..Len(line)
    BY <1>t, <1>n, <2>1 DEF TuiTypes
  <2>3. unsent' \subseteq 1..Len(line')
    BY <1>t, <2>1, <2>2 DEF TuiTypes
  <2> QED
    BY <1>t, <2>1, <2>3 DEF TuiTypes
<1>8. CASE Answered
  BY <1>8, <1>t, <1>n DEF Answered, TuiTypes
<1>9. CASE Tui!Ingest
  <2>1. /\ eventCh # <<>> /\ eventCh' = Tail(eventCh) /\ UNCHANGED <<running, ending, waiting, line>>
        /\ UNCHANGED <<replies, askedBy, unsent>> /\ turnDiscarded' \in BOOLEAN
        /\ bubble' \in {bubble, Tui!NoBubble}
        /\ prompt' \in {prompt, Head(eventCh).id}
        /\ prompt' # prompt => Head(eventCh).kind = "prompt"
    BY <1>9 DEF Tui!Ingest, Tui!controller
  <2>2. eventCh' \in Seq(Events) /\ Head(eventCh) = eventCh[1] /\ 1 \in DOMAIN eventCh
    BY <1>t, <2>1, Taken DEF TuiTypes
  <2>3. prompt' \in 0..Len(askedBy)
    BY <1>t, <1>n, <2>1, <2>2 DEF TuiTypes, TuiInv, TuiPrompts
  <2>4. heard' \in [1..MaxTurns -> Nat]
    <3> DEFINE n == IF Head(eventCh).kind = "reply" THEN 1 ELSE 0
               t == Head(eventCh).turn
    <3>1. heard' = [heard EXCEPT ![t] = heard[t] + n] /\ n \in Nat
      BY <1>9 DEF Tui!Ingest
    <3> HIDE DEF n, t
    <3>2. t \in 1..MaxTurns => heard[t] + n \in Nat
      BY <1>t, <3>1 DEF TuiTypes
    <3> QED
      BY <1>t, <3>1, <3>2 DEF TuiTypes
  <2> QED
    BY <1>t, <2>1, <2>2, <2>3, <2>4 DEF TuiTypes
<1> QED
  BY <1>1, <1>2, <1>3, <1>4, <1>5, <1>6, <1>7, <1>8, <1>9, TuiSteps

LEMMA StepTuiPrompts == TuiInv /\ [Tui!Next]_(Tui!vars) => TuiPrompts'
<1> SUFFICES ASSUME TuiInv, [Tui!Next]_(Tui!vars) PROVE TuiPrompts'
  OBVIOUS
<1> DEFINE Now(p) == Waits(p, askedBy', cancelled', waiting', running')
<1>t. TuiTypes /\ TuiPrompts /\ TuiTypes'
  BY StepTuiTypes DEF TuiInv
<1>n. /\ Len(line) \in Nat /\ Len(askedBy) \in Nat /\ running \in Nat /\
           DOMAIN askedBy = 1..Len(askedBy)
      /\ \A p \in 1..Len(askedBy) : askedBy[p] \in Nat \ {0}
      /\ eventCh \in Seq(Events) /\ DOMAIN eventCh = 1..Len(eventCh)
  BY <1>t DEF TuiTypes
<1>p. /\ \A i \in DOMAIN eventCh :
           eventCh[i].kind = "prompt" =>
             /\ eventCh[i].id \in 1..Len(askedBy) /\ eventCh[i].id # prompt
             /\ Waited(eventCh[i].id) /\ AskedOnce(eventCh, eventCh[i].id)
      /\ prompt # 0 => Waited(prompt) /\ prompt \in 1..Len(askedBy)
  BY <1>t, <1>n DEF TuiPrompts, TuiTypes
<1>k. ASSUME UNCHANGED <<askedBy, eventCh>>, prompt' \in {prompt, 0},
             \A p \in 1..Len(askedBy) :
               Waited(p) /\ (prompt' = p \/ \E i \in DOMAIN eventCh : Asks(eventCh, i, p)) => Now(p)
      PROVE  TuiPrompts'
  <2>1. prompt' # 0 => Now(prompt')
    BY <1>k, <1>p DEF Waited, Waits
  <2>2. ASSUME NEW i \in DOMAIN eventCh, eventCh[i].kind = "prompt"
        PROVE  /\ eventCh[i].id \in 1..Len(askedBy) /\ eventCh[i].id # prompt'
               /\ Now(eventCh[i].id) /\ AskedOnce(eventCh, eventCh[i].id)
    <3>1. /\ eventCh[i].id \in 1..Len(askedBy) /\ eventCh[i].id # prompt /\ Waited(eventCh[i].id)
          /\ AskedOnce(eventCh, eventCh[i].id) /\ Asks(eventCh, i, eventCh[i].id)
      BY <1>p, <2>2 DEF Asks
    <3>2. eventCh[i].id # prompt'
      BY <1>k, <1>n, <3>1
    <3>3. Now(eventCh[i].id)
      BY <1>k, <3>1 DEF Waited, Waits
    <3> QED
      BY <3>1, <3>2, <3>3
  <2>3. \A i \in DOMAIN eventCh : (eventCh[i].kind = "prompt")' <=> eventCh[i].kind = "prompt"
    BY <1>k
  <2> QED
    BY <1>k, <2>1, <2>2 DEF TuiPrompts, Waited, Waits
<1>a. ASSUME NEW e \in Events, eventCh' = Append(eventCh, e), UNCHANGED prompt,
             askedBy' \in Seq(Nat \ {0}), Len(askedBy') >= Len(askedBy),
             \A p \in 1..Len(askedBy) : Waited(p) => Now(p),
             e.kind = "prompt" =>
               e.id \in 1..Len(askedBy') /\ e.id \notin 1..Len(askedBy) /\ Now(e.id)
      PROVE  TuiPrompts'
  <2>1. /\ DOMAIN eventCh' = 1..(Len(eventCh) + 1) /\ eventCh'[Len(eventCh) + 1] = e
        /\ \A i \in 1..Len(eventCh) : eventCh'[i] = eventCh[i]
    <3> HIDE DEF Events
    <3> QED
      BY <1>a, <1>n, Appended
  <2>2. \A i \in DOMAIN eventCh' :
          (i \in DOMAIN eventCh /\ eventCh'[i] = eventCh[i]) \/ (i = Len(eventCh) + 1 /\
            eventCh'[i] = e)
    BY <1>n, <2>1
  <2>3. ASSUME NEW i \in DOMAIN eventCh', eventCh'[i].kind = "prompt"
        PROVE  /\ eventCh'[i].id \in 1..Len(askedBy') /\ eventCh'[i].id # prompt'
               /\ Now(eventCh'[i].id) /\ AskedOnce(eventCh', eventCh'[i].id)
    <3>1. CASE i \in DOMAIN eventCh /\ eventCh'[i] = eventCh[i]
      <4>1. /\ eventCh[i].id \in 1..Len(askedBy) /\ eventCh[i].id # prompt
            /\ Waited(eventCh[i].id) /\ AskedOnce(eventCh, eventCh[i].id)
        BY <1>p, <2>3, <3>1
      <4>2. e.kind # "prompt" \/ e.id # eventCh[i].id
        BY <1>a, <4>1
      <4>3. AskedOnce(eventCh', eventCh[i].id)
        BY <2>2, <4>1, <4>2 DEF AskedOnce, Asks
      <4>4. eventCh[i].id \in 1..Len(askedBy')
        BY <1>a, <1>n, <4>1
      <4>5. Now(eventCh[i].id)
        BY <1>a, <3>1, <4>1 DEF Waited, Waits
      <4> QED
        BY <1>a, <3>1, <4>1, <4>3, <4>4, <4>5 DEF Waited, Waits
    <3>2. CASE i = Len(eventCh) + 1 /\ eventCh'[i] = e
      <4>1. e.id \in 1..Len(askedBy') /\ e.id \notin 1..Len(askedBy) /\ Now(e.id)
        BY <1>a, <2>3, <3>2
      <4>2. \A j \in DOMAIN eventCh : ~Asks(eventCh, j, e.id)
        BY <1>p, <4>1 DEF Asks
      <4>3. AskedOnce(eventCh', e.id)
        BY <2>2, <4>2 DEF AskedOnce, Asks
      <4>4. e.id # prompt'
        BY <1>a, <1>p, <1>n, <4>1
      <4> QED
        BY <3>2, <4>1, <4>3, <4>4 DEF Waited, Waits
    <3> QED
      BY <2>2, <3>1, <3>2
  <2>4. prompt' # 0 => Now(prompt')
    BY <1>a, <1>p DEF Waited, Waits
  <2> QED
    BY <2>3, <2>4 DEF TuiPrompts, Waited, Waits
<1>1. CASE Tui!Reply
  <2>1. Tui!Ev(running, "reply", replies + 1) \in Events
    BY <1>1, <1>t, <1>n DEF Tui!Reply, Tui!Ev, Events, TuiTypes
  <2>2. UNCHANGED <<prompt, askedBy, waiting, running, cancelled>>
        /\ eventCh' = Append(eventCh, Tui!Ev(running, "reply", replies + 1))
    BY <1>1 DEF Tui!Reply, Tui!Emit, Tui!loop
  <2>3. Tui!Ev(running, "reply", replies + 1).kind # "prompt"
    BY DEF Tui!Ev
  <2> HIDE DEF Events
  <2>4. \A p \in 1..Len(askedBy) : Waited(p) => Now(p)
    BY <2>2 DEF Waited, Waits
  <2>5. askedBy' \in Seq(Nat \ {0}) /\ Len(askedBy') >= Len(askedBy)
    BY <1>t, <1>n, <2>2 DEF TuiTypes
  <2> QED
    BY <1>a, <2>1, <2>2, <2>3, <2>4, <2>5
<1>2. CASE Tui!AskUser
  <2> DEFINE e == Tui!Ev(running, "prompt", Len(askedBy) + 1)
  <2>1. e \in Events /\ running \in Nat \ {0} /\ e.id = Len(askedBy) + 1
    BY <1>2, <1>t, <1>n DEF Tui!AskUser, Tui!Ev, Events, TuiTypes
  <2>2. /\ UNCHANGED <<prompt, running, cancelled>> /\ eventCh' = Append(eventCh, e)
        /\ askedBy' = Append(askedBy, running) /\ waiting = 0 /\ waiting' = Len(askedBy) + 1
    BY <1>2 DEF Tui!AskUser, Tui!Emit, Tui!loop
  <2>3. /\ Len(askedBy') = Len(askedBy) + 1 /\ askedBy'[Len(askedBy) + 1] = running
        /\ \A p \in 1..Len(askedBy) : askedBy'[p] = askedBy[p]
    BY <1>t, <2>1, <2>2, Appended DEF TuiTypes
  <2> HIDE DEF e
  <2>4. \A p \in 1..Len(askedBy) : Waited(p) => Now(p)
    BY <1>n, <2>2, <2>3 DEF Waited, Waits
  <2>5. askedBy' \in Seq(Nat \ {0}) /\ Len(askedBy') >= Len(askedBy)
    BY <1>t, <1>n, <2>3 DEF TuiTypes
  <2>6. e.id \in 1..Len(askedBy') /\ e.id \notin 1..Len(askedBy) /\ Now(e.id)
    BY <1>n, <2>1, <2>2, <2>3 DEF Waited, Waits
  <2> QED
    BY <1>a, <2>1, <2>2, <2>4, <2>5, <2>6
<1>3. CASE Tui!Finish
  <2>1. UNCHANGED <<prompt, askedBy, eventCh, cancelled>> /\ (waiting = 0 \/ running \in cancelled)
    BY <1>3 DEF Tui!Finish, Tui!loop
  <2>2. \A p \in 1..Len(askedBy) : Waited(p) => Now(p)
    BY <1>n, <2>1 DEF Waited, Waits
  <2> QED
    BY <1>k, <2>1, <2>2
<1>4. CASE Tui!TurnDone
  <2>1. Tui!Ev(ending, "done", 0) \in Events
    BY <1>4, <1>t, <1>n DEF Tui!TurnDone, Tui!Ev, Events, TuiTypes
  <2>2. UNCHANGED <<prompt, askedBy, waiting, running, cancelled>>
        /\ eventCh' = Append(eventCh, Tui!Ev(ending, "done", 0))
    BY <1>4 DEF Tui!TurnDone, Tui!Emit, Tui!loop
  <2>3. Tui!Ev(ending, "done", 0).kind # "prompt"
    BY DEF Tui!Ev
  <2> HIDE DEF Events
  <2>4. \A p \in 1..Len(askedBy) : Waited(p) => Now(p)
    BY <2>2 DEF Waited, Waits
  <2>5. askedBy' \in Seq(Nat \ {0}) /\ Len(askedBy') >= Len(askedBy)
    BY <1>t, <1>n, <2>2 DEF TuiTypes
  <2> QED
    BY <1>a, <2>1, <2>2, <2>3, <2>4, <2>5
<1>5. ASSUME NEW l \in Tui!Lines, Tui!StartTurn(l), UNCHANGED prompt PROVE TuiPrompts'
  <2>1. UNCHANGED <<prompt, askedBy, eventCh, cancelled, waiting>> /\ (running # 0 =>
          running' = running)
    BY <1>5 DEF Tui!StartTurn
  <2>2. \A p \in 1..Len(askedBy) : Waited(p) => Now(p)
    BY <1>n, <2>1 DEF Waited, Waits
  <2> QED
    BY <1>k, <2>1, <2>2
<1>6. CASE Echoed \/ Quiet \/ Tui!UnsendPending
  <2>1. /\ UNCHANGED <<askedBy, eventCh, waiting, running>> /\ prompt' \in {prompt, 0}
        /\ cancelled \subseteq cancelled'
    BY <1>6 DEF Echoed, Quiet, Tui!UnsendPending, Tui!Cancel, Tui!controller
  <2>2. \A p \in 1..Len(askedBy) : Waited(p) => Now(p)
    BY <2>1 DEF Waited, Waits
  <2> QED
    BY <1>k, <2>1, <2>2
<1>8. CASE Answered
  <2>1. /\ UNCHANGED <<askedBy, eventCh, running>> /\ prompt # 0 /\ prompt' = 0
        /\ cancelled \subseteq cancelled'
        /\ waiting' = waiting \/ (waiting = prompt /\ waiting' = 0)
    BY <1>8 DEF Answered
  <2>2. \A p \in 1..Len(askedBy) :
          Waited(p) /\ (prompt' = p \/ \E i \in DOMAIN eventCh : Asks(eventCh, i, p)) => Now(p)
    BY <1>p, <2>1 DEF Waited, Waits, Asks
  <2> QED
    BY <1>k, <2>1, <2>2
<1>9. CASE Tui!Ingest
  <2>1. /\ eventCh # <<>> /\ eventCh' = Tail(eventCh) /\
             UNCHANGED <<askedBy, cancelled, waiting, running>>
        /\ prompt' = prompt \/ (Head(eventCh).kind = "prompt" /\ prompt' = Head(eventCh).id)
    BY <1>9 DEF Tui!Ingest, Tui!controller
  <2>2. /\ Head(eventCh) = eventCh[1] /\ Len(eventCh) \in Nat \ {0} /\
             DOMAIN eventCh' = 1..(Len(eventCh) - 1)
        /\ \A i \in 1..(Len(eventCh) - 1) : eventCh'[i] = eventCh[i + 1]
    <3> HIDE DEF Events
    <3> QED
      BY <1>n, <2>1, Taken
  <2>3. \A p : Now(p) <=> Waited(p)
    BY <2>1 DEF Waited, Waits
  <2>4. ASSUME NEW i \in DOMAIN eventCh', eventCh'[i].kind = "prompt"
        PROVE  /\ eventCh'[i].id \in 1..Len(askedBy') /\ eventCh'[i].id # prompt'
               /\ Now(eventCh'[i].id) /\ AskedOnce(eventCh', eventCh'[i].id)
    <3>1. i + 1 \in DOMAIN eventCh /\ i + 1 # 1 /\ 1 \in DOMAIN eventCh /\
            eventCh'[i] = eventCh[i + 1]
      BY <1>n, <2>2
    <3>2. /\ eventCh'[i].id \in 1..Len(askedBy) /\ eventCh'[i].id # prompt
          /\ Waited(eventCh'[i].id) /\ AskedOnce(eventCh, eventCh'[i].id)
      BY <1>p, <2>4, <3>1
    <3>3. eventCh'[i].id # prompt'
      BY <2>1, <2>2, <2>4, <3>1, <3>2 DEF AskedOnce, Asks
    <3>4. AskedOnce(eventCh', eventCh'[i].id)
      <4> SUFFICES ASSUME NEW j \in DOMAIN eventCh', NEW k \in DOMAIN eventCh',
                          Asks(eventCh', j, eventCh'[i].id), Asks(eventCh', k, eventCh'[i].id)
                   PROVE  j = k
        BY DEF AskedOnce
      <4>1. /\ j + 1 \in DOMAIN eventCh /\ k + 1 \in DOMAIN eventCh /\ j \in Nat /\ k \in Nat
            /\ eventCh'[j] = eventCh[j + 1] /\ eventCh'[k] = eventCh[k + 1]
        BY <1>n, <2>2
      <4>2. j + 1 = k + 1
        BY <3>2, <4>1 DEF AskedOnce, Asks
      <4> QED
        BY <4>1, <4>2
    <3>5. Now(eventCh'[i].id)
      BY <2>1, <3>2 DEF Waited, Waits
    <3> QED
      BY <2>1, <3>2, <3>3, <3>4, <3>5
  <2>5. prompt' # 0 => Now(prompt')
    <3>1. CASE prompt' = prompt
      BY <1>p, <2>1, <3>1 DEF Waited, Waits
    <3>2. CASE eventCh[1].kind = "prompt" /\ prompt' = eventCh[1].id
      BY <1>n, <1>p, <2>1, <2>2, <3>2 DEF Waited, Waits
    <3> QED
      BY <2>1, <2>2, <3>1, <3>2
  <2> QED
    BY <2>4, <2>5 DEF TuiPrompts, Waited, Waits
<1> QED
  BY <1>1, <1>2, <1>3, <1>4, <1>5, <1>6, <1>8, <1>9, TuiSteps

(* While no turn is begun behind the loop's back: what each step is.       *)
LEMMA Uncrossed ==
  ASSUME TuiInv, [Tui!Next]_(Tui!vars), ~crossed'
  PROVE  /\ ~crossed /\ TuiTypes /\ TuiTurns /\ TuiQueue /\ TuiShown /\ TuiBubbles /\ TuiRestore
         /\ Len(line) \in Nat /\ eventCh \in Seq(Events) /\ DOMAIN eventCh = 1..Len(eventCh)
         /\ Len(eventCh) \in Nat
         /\ \A l \in Tui!Lines : Tui!StartTurn(l) =>
              running = 0 /\ ~Undone /\ eventCh = <<>> /\ Len(line') = Len(line) + 1
              /\ \A t \in 1..Len(line) : line'[t] = line[t]
<1>1. ~crossed
  BY TuiSteps DEF Tui!Reply, Tui!AskUser, Tui!Finish, Tui!TurnDone, Tui!StartTurn, Echoed, Quiet,
     Tui!UnsendPending, Answered,
                  Tui!Ingest
<1>2. TuiTypes /\ TuiTurns /\ TuiQueue /\ TuiShown /\ TuiBubbles /\ TuiRestore
  BY <1>1 DEF TuiInv
<1>3. Len(line) \in Nat /\ eventCh \in Seq(Events) /\ DOMAIN eventCh = 1..Len(eventCh)
      /\ Len(eventCh) \in Nat
  BY <1>2 DEF TuiTypes
<1>4. ASSUME NEW l \in Tui!Lines, Tui!StartTurn(l)
      PROVE  running = 0 /\ ~Undone /\ eventCh = <<>> /\ Len(line') = Len(line) + 1
             /\ \A t \in 1..Len(line) : line'[t] = line[t]
  <2>1. running = 0 /\ ~Tui!DonePending /\ line' = Append(line, l)
    BY <1>4 DEF Tui!StartTurn
  <2>2. eventCh = <<>>
    BY <1>2, <2>1 DEF TuiTurns, Undone
  <2>3. line \in Seq(Tui!Lines)
    BY <1>2 DEF TuiTypes
  <2> QED
    BY <2>1, <2>2, <2>3, Appended DEF Undone
<1> QED
  BY <1>1, <1>2, <1>3, <1>4

LEMMA StepTuiTurns == TuiInv /\ [Tui!Next]_(Tui!vars) /\ ~crossed' => TuiTurns'
<1> SUFFICES ASSUME TuiInv, [Tui!Next]_(Tui!vars), ~crossed' PROVE TuiTurns'
  OBVIOUS
<1>t. TuiTypes /\ TuiTurns /\ TuiRestore
  BY Uncrossed
<1>n. Len(line) \in Nat /\ eventCh \in Seq(Events) /\ DOMAIN eventCh = 1..Len(eventCh) /\
        Len(eventCh) \in Nat
      /\ \A i \in DOMAIN eventCh : eventCh[i] \in Events
  BY Uncrossed
<1>u. /\ running \in Nat /\ ending \in Nat
      /\ Undone <=> running # 0 \/ ending # 0 \/ \E i \in DOMAIN eventCh : eventCh[i].kind = "done"
      /\ Undone' <=> running' # 0 \/ ending' # 0 \/
           \E i \in DOMAIN eventCh' : eventCh'[i].kind = "done"
      /\ Tui!DonePending <=> ending # 0 \/ \E i \in DOMAIN eventCh : eventCh[i].kind = "done"
      /\ Tui!DonePending' <=> ending' # 0 \/ \E i \in DOMAIN eventCh' : eventCh'[i].kind = "done"
  BY <1>t, <1>n DEF Undone, Tui!DonePending, TuiTypes
<1>a. ASSUME NEW e \in Events, eventCh' = Append(eventCh, e)
      PROVE  /\ DOMAIN eventCh' = 1..(Len(eventCh) + 1) /\ Len(eventCh') = Len(eventCh) + 1
             /\ eventCh'[Len(eventCh) + 1] = e
             /\ \A i \in DOMAIN eventCh : i \in DOMAIN eventCh' /\ eventCh'[i] = eventCh[i]
             /\ \A i \in DOMAIN eventCh' : (i \in DOMAIN eventCh /\ eventCh'[i] = eventCh[i])
                                           \/ (i = Len(eventCh) + 1 /\ eventCh'[i] = e)
  <2> HIDE DEF Events
  <2>1. /\ DOMAIN eventCh' = 1..(Len(eventCh) + 1) /\ Len(eventCh') = Len(eventCh) + 1
        /\ eventCh'[Len(eventCh) + 1] = e /\ \A i \in 1..Len(eventCh) : eventCh'[i] = eventCh[i]
    BY <1>a, <1>n, Appended
  <2> QED
    BY <1>n, <2>1
<1>1. ASSUME Tui!Reply \/ Tui!AskUser PROVE TuiTurns'
  <2>1. PICK e \in Events : e.turn = running /\ e.kind # "done" /\ eventCh' = Append(eventCh, e)
    <3>1. CASE Tui!Reply
      <4>1. Tui!Ev(running, "reply", replies + 1) \in Events
        BY <3>1, <1>t, <1>u DEF Tui!Reply, Tui!Ev, Events, TuiTypes
      <4>2. eventCh' = Append(eventCh, Tui!Ev(running, "reply", replies + 1))
        BY <3>1 DEF Tui!Reply, Tui!Emit
      <4>3. Tui!Ev(running, "reply", replies + 1).turn = running /\
              Tui!Ev(running, "reply", replies + 1).kind # "done"
        BY DEF Tui!Ev
      <4> QED
        BY <4>1, <4>2, <4>3
    <3>2. CASE Tui!AskUser
      <4>1. Tui!Ev(running, "prompt", Len(askedBy) + 1) \in Events
        BY <3>2, <1>t, <1>u DEF Tui!AskUser, Tui!Ev, Events, TuiTypes
      <4>2. eventCh' = Append(eventCh, Tui!Ev(running, "prompt", Len(askedBy) + 1))
        BY <3>2 DEF Tui!AskUser, Tui!Emit
      <4>3. /\ Tui!Ev(running, "prompt", Len(askedBy) + 1).turn = running
            /\ Tui!Ev(running, "prompt", Len(askedBy) + 1).kind # "done"
        BY DEF Tui!Ev
      <4> QED
        BY <4>1, <4>2, <4>3
    <3> QED
      BY <1>1, <3>1, <3>2
  <2>2. running # 0 /\ UNCHANGED <<running, ending, line, state>>
    BY <1>1 DEF Tui!Reply, Tui!AskUser, Tui!loop
  <2>3. running = Len(line) /\ ~Tui!DonePending /\ ending = 0 /\ state = "running"
        /\ \A i \in DOMAIN eventCh : eventCh[i].turn = Len(line) /\ eventCh[i].kind # "done"
    BY <1>t, <1>u, <2>2 DEF TuiTurns, TuiTypes
  <2>4. \A i \in DOMAIN eventCh' : eventCh'[i].turn = Len(line) /\ eventCh'[i].kind # "done"
    BY <1>a, <2>1, <2>3
  <2> HIDE DEF Events
  <2> QED
    BY <1>u, <2>2, <2>3, <2>4 DEF TuiTurns
<1>3. CASE Tui!Finish
  <2>1. running # 0 /\ running' = 0 /\ ending' = running /\ UNCHANGED <<eventCh, line, state>>
    BY <1>3 DEF Tui!Finish, Tui!loop
  <2>2. running = Len(line) /\ ~Tui!DonePending /\ state = "running"
    BY <1>t, <1>u, <2>1 DEF TuiTurns, TuiTypes
  <2> QED
    BY <1>t, <1>u, <2>1, <2>2 DEF TuiTurns
<1>4. CASE Tui!TurnDone
  <2> DEFINE e == Tui!Ev(ending, "done", 0)
  <2>1. e \in Events /\ e.turn = ending /\ e.kind = "done"
    BY <1>4, <1>u DEF Tui!TurnDone, Tui!Ev, Events
  <2>2. ending # 0 /\ ending' = 0 /\ UNCHANGED <<running, line, state>> /\
          eventCh' = Append(eventCh, e)
    BY <1>4 DEF Tui!TurnDone, Tui!Emit, Tui!loop
  <2>3. running = 0 /\ ending = Len(line) /\ state = "running"
        /\ \A i \in DOMAIN eventCh : eventCh[i].turn = Len(line) /\ eventCh[i].kind # "done"
    BY <1>t, <1>u, <2>2 DEF TuiTurns, TuiTypes
  <2> HIDE DEF e, Events
  <2>4. /\ \A i \in DOMAIN eventCh' : eventCh'[i].turn = Len(line)
                                      /\ (eventCh'[i].kind = "done" => i = Len(eventCh'))
        /\ \E i \in DOMAIN eventCh' : eventCh'[i].kind = "done"
    <3>1. Len(eventCh) + 1 \in DOMAIN eventCh'
      BY <1>a, <1>n, <2>1, <2>2
    <3> QED
      BY <1>a, <2>1, <2>2, <2>3, <3>1
  <2> QED
    BY <1>u, <2>2, <2>3, <2>4 DEF TuiTurns
<1>5. ASSUME NEW l \in Tui!Lines, Tui!StartTurn(l) PROVE TuiTurns'
  <2>1. /\ running = 0 /\ ~Undone /\ eventCh = <<>> /\ Len(line') = Len(line) + 1
        /\ running' = Len(line) + 1 /\ state' = "running" /\ UNCHANGED <<eventCh, ending>>
    BY <1>5, Uncrossed DEF Tui!StartTurn
  <2>2. ending = 0 /\ DOMAIN eventCh' = {} /\ running' # 0 /\ running' = Len(line')
    BY <1>n, <1>u, <2>1
  <2> QED
    BY <1>u, <2>1, <2>2 DEF TuiTurns
<1>6. CASE Echoed \/ Quiet \/ Tui!UnsendPending \/ Answered
  <2>1. UNCHANGED <<running, ending, line, eventCh, state>>
    BY <1>6 DEF Echoed, Quiet, Tui!UnsendPending, Answered, Tui!controller
  <2> QED
    BY <1>t, <1>u, <2>1 DEF TuiTurns
<1>9. CASE Tui!Ingest
  <2>1. /\ eventCh # <<>> /\ eventCh' = Tail(eventCh) /\ UNCHANGED <<running, ending, line>>
        /\ state' = IF Head(eventCh).kind = "done" THEN "idle" ELSE state
    BY <1>9 DEF Tui!Ingest, Tui!controller, Tui!Settles
  <2>2. /\ Head(eventCh) = eventCh[1] /\ Len(eventCh) \in Nat \ {0} /\
             DOMAIN eventCh' = 1..(Len(eventCh) - 1)
        /\ Len(eventCh') = Len(eventCh) - 1 /\ eventCh' \in Seq(Events)
        /\ \A i \in 1..(Len(eventCh) - 1) : eventCh'[i] = eventCh[i + 1]
    <3> HIDE DEF Events
    <3> QED
      BY <1>n, <2>1, Taken
  <2>3. /\ \A i \in DOMAIN eventCh' : i + 1 \in DOMAIN eventCh /\ i \in Nat \ {0}
                                      /\ eventCh'[i] = eventCh[i + 1]
        /\ \A i \in DOMAIN eventCh : i = 1 \/ (i - 1 \in DOMAIN eventCh' /\
             eventCh'[i - 1] = eventCh[i])
        /\ 1 \in DOMAIN eventCh
    BY <1>n, <2>2
  <2>4. Undone /\ state = "running"
    BY <1>t, <2>1 DEF TuiTurns
  <2>5. \A i \in DOMAIN eventCh' : eventCh'[i].turn = Len(line)
                                   /\ (eventCh'[i].kind = "done" => i = Len(eventCh'))
    BY <1>t, <2>2, <2>3 DEF TuiTurns
  <2>6. CASE eventCh[1].kind = "done"
    <3>1. Len(eventCh) = 1 /\ running = 0 /\ ending = 0
      BY <1>t, <1>u, <2>3, <2>6 DEF TuiTurns
    <3>2. DOMAIN eventCh' = {} /\ eventCh' = <<>>
      BY <2>2, <3>1
    <3> QED
      BY <1>u, <2>1, <2>2, <2>6, <3>1, <3>2 DEF TuiTurns
  <2>7. CASE eventCh[1].kind # "done"
    <3>1. (\E i \in DOMAIN eventCh : eventCh[i].kind = "done")
          <=> (\E i \in DOMAIN eventCh' : eventCh'[i].kind = "done")
      BY <2>3, <2>7
    <3>2. Undone' /\ (Tui!DonePending' <=> Tui!DonePending) /\ state' = "running"
      BY <1>u, <2>1, <2>2, <2>4, <2>7, <3>1
    <3> QED
      BY <1>t, <1>u, <2>1, <2>5, <3>1, <3>2 DEF TuiTurns
  <2> QED
    BY <2>6, <2>7
<1> QED
  BY <1>1, <1>3, <1>4, <1>5, <1>6, <1>9, TuiSteps

LEMMA StepTuiQueue == TuiInv /\ [Tui!Next]_(Tui!vars) /\ ~crossed' => TuiQueue'
<1> SUFFICES ASSUME TuiInv, [Tui!Next]_(Tui!vars), ~crossed' PROVE TuiQueue'
  OBVIOUS
<1>t. TuiTypes /\ TuiTurns /\ TuiQueue
  BY Uncrossed
<1>n. Len(line) \in Nat /\ eventCh \in Seq(Events) /\ DOMAIN eventCh = 1..Len(eventCh)
      /\ MaxTurns \in Nat /\ Len(line) <= MaxTurns
      /\ \A t \in 1..MaxTurns : heard[t] \in Nat
  BY <1>t, Uncrossed, FrontsAssumption DEF TuiTypes
<1>k. ASSUME Len(line) # 0
      PROVE  \E k \in Nat : Queued(eventCh, heard[Len(line)], k) /\ (running # 0 => k = replies)
  BY <1>k, <1>t DEF TuiQueue
<1>h. Len(line) # 0 => heard[Len(line)] \in Nat
  BY <1>n
<1>1. CASE Tui!Reply
  <2> DEFINE e == Tui!Ev(running, "reply", replies + 1)
  <2>1. e \in Events /\ e.kind = "reply" /\ e.id = replies + 1
    BY <1>1, <1>t, <1>n DEF Tui!Reply, Tui!Ev, Events, TuiTypes
  <2>2. running # 0 /\ eventCh' = Append(eventCh, e) /\ UNCHANGED <<line, heard, running>>
        /\ replies' = replies + 1 /\ replies \in Nat /\ Len(line) # 0
    BY <1>1, <1>t DEF Tui!Reply, Tui!Emit, TuiTypes
  <2> HIDE DEF e, Events
  <2>3. Queued(eventCh, heard[Len(line)], replies)
    BY <1>k, <2>2
  <2>4. Queued(eventCh', heard[Len(line)], replies + 1)
    BY <1>n, <1>h, <2>1, <2>2, <2>3, QueueAppend
  <2> QED
    BY <1>t, <2>2, <2>4 DEF TuiQueue
<1>2. CASE Tui!AskUser \/ Tui!TurnDone
  <2>1. PICK e \in Events : e.kind # "reply" /\ eventCh' = Append(eventCh, e)
    <3>1. CASE Tui!AskUser
      <4>1. Tui!Ev(running, "prompt", Len(askedBy) + 1) \in Events
        BY <3>1, <1>t, <1>n DEF Tui!AskUser, Tui!Ev, Events, TuiTypes
      <4>2. eventCh' = Append(eventCh, Tui!Ev(running, "prompt", Len(askedBy) + 1))
        BY <3>1 DEF Tui!AskUser, Tui!Emit
      <4>3. Tui!Ev(running, "prompt", Len(askedBy) + 1).kind # "reply"
        BY DEF Tui!Ev
      <4> QED
        BY <4>1, <4>2, <4>3
    <3>2. CASE Tui!TurnDone
      <4>1. Tui!Ev(ending, "done", 0) \in Events
        BY <3>2, <1>t, <1>n DEF Tui!TurnDone, Tui!Ev, Events, TuiTypes
      <4>2. eventCh' = Append(eventCh, Tui!Ev(ending, "done", 0))
        BY <3>2 DEF Tui!TurnDone, Tui!Emit
      <4>3. Tui!Ev(ending, "done", 0).kind # "reply"
        BY DEF Tui!Ev
      <4> QED
        BY <4>1, <4>2, <4>3
    <3> QED
      BY <1>2, <3>1, <3>2
  <2>2. UNCHANGED <<line, heard, running, replies>>
    BY <1>2 DEF Tui!AskUser, Tui!TurnDone
  <2> HIDE DEF Events
  <2>3. ASSUME NEW k \in Nat, Len(line) # 0, Queued(eventCh, heard[Len(line)], k)
        PROVE  Queued(eventCh', heard[Len(line)], k)
    BY <1>n, <1>h, <2>1, <2>3, QueueAppend
  <2> QED
    BY <1>t, <1>k, <2>2, <2>3 DEF TuiQueue
<1>3. CASE Tui!Finish
  <2>1. UNCHANGED <<line, heard, eventCh>> /\ running' = 0
    BY <1>3 DEF Tui!Finish
  <2> QED
    BY <1>t, <2>1 DEF TuiQueue
<1>5. ASSUME NEW l \in Tui!Lines, Tui!StartTurn(l) PROVE TuiQueue'
  <2>1. /\ running = 0 /\ eventCh = <<>> /\ Len(line') = Len(line) + 1 /\ Len(line) < MaxTurns
        /\ UNCHANGED <<eventCh, heard, replies>>
    BY <1>5, Uncrossed DEF Tui!StartTurn
  <2>2. DOMAIN eventCh' = {} /\ replies' = 0
    BY <1>t, <2>1 DEF TuiTypes
  <2>3. heard'[Len(line')] = 0
    BY <1>n, <1>t, <2>1 DEF TuiQueue
  <2>4. Queued(eventCh', 0, 0)
    BY <2>2 DEF Queued
  <2>5. \A t \in 1..MaxTurns : t > Len(line') => heard'[t] = 0
    BY <1>n, <1>t, <2>1 DEF TuiQueue
  <2> QED
    BY <2>2, <2>3, <2>4, <2>5 DEF TuiQueue
<1>6. CASE Echoed \/ Quiet \/ Tui!UnsendPending \/ Answered
  <2>1. UNCHANGED <<running, line, eventCh, heard, replies>>
    BY <1>6 DEF Echoed, Quiet, Tui!UnsendPending, Answered, Tui!controller
  <2> QED
    BY <1>t, <2>1 DEF TuiQueue
<1>9. CASE Tui!Ingest
  <2> DEFINE N == Len(line)
  <2>1. /\ eventCh # <<>> /\ eventCh' = Tail(eventCh) /\ UNCHANGED <<running, replies, line>>
        /\ heard' = [heard EXCEPT ![Head(eventCh).turn] =
                       heard[Head(eventCh).turn] + (IF Head(eventCh).kind = "reply" THEN 1 ELSE 0)]
    BY <1>9 DEF Tui!Ingest, Tui!controller
  <2>2. Head(eventCh) = eventCh[1] /\ 1 \in DOMAIN eventCh /\ eventCh[1] \in Events
    <3> HIDE DEF Events
    <3> QED
      BY <1>n, <2>1, Taken
  <2>3. eventCh[1].turn = N /\ N \in 1..MaxTurns
    <3>1. eventCh[1].turn = N /\ N # 0
      BY <1>t, <2>2 DEF TuiTurns, Events
    <3> QED
      BY <1>n, <3>1
  <2>4. /\ heard'[N] = heard[N] + (IF eventCh[1].kind = "reply" THEN 1 ELSE 0)
        /\ \A t \in 1..MaxTurns : t # N => heard'[t] = heard[t]
    BY <1>t, <2>1, <2>2, <2>3 DEF TuiTypes
  <2>5. PICK k \in Nat : Queued(eventCh, heard[N], k) /\ (running # 0 => k = replies)
    BY <1>k, <1>n, <2>3
  <2>6. Queued(eventCh', heard'[N], k)
    <3> HIDE DEF Events
    <3>1. /\ eventCh[1].kind # "reply" => Queued(Tail(eventCh), heard[N], k)
          /\ eventCh[1].kind = "reply" => Queued(Tail(eventCh), heard[N] + 1, k)
      BY <1>n, <2>1, <2>3, <2>5, QueueTail
    <3> QED
      BY <1>n, <2>1, <2>3, <2>4, <3>1
  <2>7. \A t \in 1..MaxTurns : t > N => heard'[t] = 0
    BY <1>t, <1>n, <2>4 DEF TuiQueue
  <2> QED
    BY <2>1, <2>5, <2>6, <2>7 DEF TuiQueue
<1> QED
  BY <1>1, <1>2, <1>3, <1>5, <1>6, <1>9, TuiSteps

(* What the loop reads next: an event of the latest turn, and, when it is  *)
(* a reply, the first the loop has not heard.                              *)
LEMMA NextEvent ==
  ASSUME TuiInv, ~crossed, eventCh # <<>>
  PROVE  LET e == eventCh[1]
             N == Len(line)
         IN  /\ e \in Events /\ Head(eventCh) = e /\ e.turn = N /\ N \in 1..MaxTurns /\ Undone
             /\ e.kind = "reply" => e.id = heard[N] + 1
<1>1. TuiTypes /\ TuiTurns /\ TuiQueue
  BY DEF TuiInv
<1>2. eventCh \in Seq(Events) /\ Len(line) \in Nat /\ MaxTurns \in Nat /\ Len(line) <= MaxTurns
      /\ \A t \in 1..MaxTurns : heard[t] \in Nat
  BY <1>1, FrontsAssumption DEF TuiTypes
<1>3. Head(eventCh) = eventCh[1] /\ 1 \in DOMAIN eventCh /\ eventCh[1] \in Events
  <2> HIDE DEF Events
  <2> QED
    BY <1>2, Taken
<1>4. eventCh[1].turn = Len(line) /\ Len(line) # 0 /\ Undone
  BY <1>1, <1>3 DEF TuiTurns, Events
<1>5. Len(line) \in 1..MaxTurns /\ heard[Len(line)] \in Nat
  BY <1>2, <1>4
<1>6. PICK k \in Nat : Queued(eventCh, heard[Len(line)], k)
  BY <1>1, <1>4 DEF TuiQueue
<1>7. eventCh[1].kind = "reply" => eventCh[1].id = heard[Len(line)] + 1
  <2> HIDE DEF Events
  <2> QED
    BY <1>2, <1>5, <1>6, QueueTail
<1> QED
  BY <1>3, <1>4, <1>5, <1>7

LEMMA StepTuiShown == TuiInv /\ [Tui!Next]_(Tui!vars) /\ ~crossed' => TuiShown'
<1> SUFFICES ASSUME TuiInv, [Tui!Next]_(Tui!vars), ~crossed' PROVE TuiShown'
  OBVIOUS
<1>t. TuiTypes /\ TuiTurns /\ TuiShown /\ TuiRestore
  BY Uncrossed
<1>n. /\ Len(line) \in Nat /\ transcript \in Seq(Entries) /\ Len(transcript) \in Nat
      /\ DOMAIN transcript = 1..Len(transcript)
      /\ MaxTurns \in Nat /\ Len(line) <= MaxTurns /\ \A t \in 1..MaxTurns : heard[t] \in Nat
      /\ \A t \in 1..Len(line) : t \in 1..MaxTurns /\ t \in Nat \ {0}
      /\ \A i \in DOMAIN transcript : transcript[i].turn <= Len(line) /\ transcript[i] \in Entries
  BY <1>t, Uncrossed, FrontsAssumption DEF TuiTypes, TuiShown
<1> DEFINE n(t) == IF t \in unsent THEN 0 ELSE heard[t]
<1>s. \A t \in 1..Len(line) : n(t) \in Nat /\ ShownUpTo(transcript, t, n(t))
  BY <1>n, <1>t DEF TuiShown
<1>a. ASSUME NEW e \in Entries, e.turn = 0, transcript' = Append(transcript, e),
             UNCHANGED <<heard, unsent>>, Len(line') \in {Len(line), Len(line) + 1},
             Len(line') = Len(line) + 1 => heard[Len(line')] = 0
      PROVE  TuiShown'
  <2> HIDE DEF Entries
  <2>1. /\ transcript' \in Seq(Entries) /\ DOMAIN transcript' = 1..(Len(transcript) + 1)
        /\ transcript'[Len(transcript) + 1] = e
        /\ \A i \in 1..Len(transcript) : transcript'[i] = transcript[i]
    BY <1>a, <1>n, Appended
  <2>2. \A i \in DOMAIN transcript' :
          (i \in DOMAIN transcript /\ transcript'[i] = transcript[i]) \/ transcript'[i] = e
    BY <1>n, <2>1
  <2>3. \A i \in DOMAIN transcript' : transcript'[i].turn <= Len(line)
    BY <1>a, <1>n, <2>2
  <2>4. ASSUME NEW t \in 1..Len(line) PROVE ShownUpTo(transcript', t, n(t))
    <3>1. e.turn # t /\ t \in Nat /\ n(t) \in Nat /\ ShownUpTo(transcript, t, n(t))
      BY <1>a, <1>n, <1>s
    <3> HIDE DEF n
    <3> QED
      BY <1>a, <1>n, <3>1, ShownAppend
  <2>5. ASSUME Len(line') = Len(line) + 1
        PROVE  ShownUpTo(transcript', Len(line) + 1,
                         IF Len(line) + 1 \in unsent THEN 0 ELSE heard[Len(line) + 1])
    <3>1. \A i \in DOMAIN transcript' : transcript'[i].turn # Len(line) + 1
      BY <1>n, <2>3, <1>a, <2>2 DEF Entries
    <3>2. heard[Len(line) + 1] = 0
      BY <1>a, <2>5
    <3> QED
      BY <3>1, <3>2 DEF ShownUpTo
  <2>6. ASSUME NEW t \in 1..Len(line') PROVE ShownUpTo(transcript', t, IF t \in unsent THEN 0 ELSE heard[t])
    <3>1. t \in 1..Len(line) \/ (t = Len(line) + 1 /\ Len(line') = Len(line) + 1)
      BY <1>a, <1>n
    <3> QED
      BY <2>4, <2>5, <3>1
  <2>7. \A i \in DOMAIN transcript' : transcript'[i].turn <= Len(line')
    <3>1. \A i \in DOMAIN transcript' : transcript'[i].turn \in Nat
      BY <1>a, <1>n, <2>2 DEF Entries
    <3>2. Len(line) <= Len(line') /\ Len(line') \in Nat
      BY <1>a, <1>n
    <3> QED
      BY <1>n, <2>3, <3>1, <3>2
  <2> QED
    BY <1>a, <2>1, <2>6, <2>7 DEF TuiShown
<1>1. CASE Tui!Reply \/ Tui!AskUser \/ Tui!Finish \/ Tui!TurnDone \/ Quiet \/ Answered
  <2>1. UNCHANGED <<transcript, line, heard, unsent>>
    BY <1>1 DEF Tui!Reply, Tui!AskUser, Tui!Finish, Tui!TurnDone, Quiet, Answered, Tui!loop
  <2> QED
    BY <1>t, <2>1 DEF TuiShown
<1>5. ASSUME NEW l \in Tui!Lines, Tui!StartTurn(l) PROVE TuiShown'
  <2>1. Tui!Bubble(l) \in Entries /\ Tui!Bubble(l).turn = 0
    BY DEF Tui!Bubble, Entries
  <2>2. /\ transcript' = Append(transcript, Tui!Bubble(l)) /\ UNCHANGED <<heard, unsent>>
        /\ Len(line') = Len(line) + 1 /\ Len(line) < MaxTurns
    BY <1>5, Uncrossed DEF Tui!StartTurn
  <2>3. heard[Len(line')] = 0
    BY <1>n, <2>2, Uncrossed DEF TuiQueue
  <2> HIDE DEF Entries
  <2> QED
    BY <1>a, <2>1, <2>2, <2>3
<1>6. CASE Echoed
  <2>1. Tui!Echo \in Entries /\ Tui!Echo.turn = 0
    BY DEF Tui!Echo, Tui!Bubble, Entries
  <2>2. transcript' = Append(transcript, Tui!Echo) /\ UNCHANGED <<heard, unsent, line>>
    BY <1>6 DEF Echoed, Tui!controller
  <2>3. Len(line') = Len(line) /\ Len(line') # Len(line) + 1
    BY <1>n, <2>2
  <2> HIDE DEF Entries
  <2> QED
    BY <1>a, <2>1, <2>2, <2>3
<1>7. CASE Tui!UnsendPending
  <2>1. /\ transcript' = SubSeq(transcript, 1, bubble.at) /\ bubble # Tui!NoBubble
        /\ unsent' = unsent \cup {Len(line)} /\ UNCHANGED <<line, heard>>
    BY <1>7 DEF Tui!UnsendPending
  <2>2. /\ Len(line) # 0 /\ heard[Len(line)] = 0 /\ bubble.at \in Nat /\ bubble.at <= Len(transcript)
        /\ \A i \in DOMAIN transcript : i > bubble.at => transcript[i].turn = 0
    BY <1>t, <1>n, <2>1 DEF TuiRestore
  <2> HIDE DEF Entries
  <2>3. /\ transcript' \in Seq(Entries) /\ DOMAIN transcript' \subseteq DOMAIN transcript
        /\ \A i \in DOMAIN transcript' : transcript'[i] = transcript[i]
    BY <1>n, <2>1, <2>2, Cut
  <2>4. ASSUME NEW t \in 1..Len(line) PROVE ShownUpTo(transcript', t, n(t))
    <3>1. t \in Nat /\ t # 0 /\ n(t) \in Nat /\ ShownUpTo(transcript, t, n(t))
      BY <1>n, <1>s
    <3>2. \A i \in DOMAIN transcript : i > bubble.at => transcript[i].turn # t
      BY <2>2, <3>1
    <3> HIDE DEF n
    <3> QED
      BY <1>n, <2>1, <2>2, <3>1, <3>2, ShownCut
  <2>5. \A t \in 1..Len(line) : (IF t \in unsent' THEN 0 ELSE heard'[t]) = n(t)
    BY <2>1, <2>2
  <2>6. \A i \in DOMAIN transcript' : transcript'[i].turn <= Len(line')
    BY <1>n, <2>1, <2>3
  <2> HIDE DEF n
  <2> QED
    BY <2>1, <2>3, <2>4, <2>5, <2>6 DEF TuiShown
<1>9. CASE Tui!Ingest
  <2> DEFINE N == Len(line)
             e == eventCh[1]
  <2>1. /\ eventCh # <<>> /\ UNCHANGED <<line, unsent>> /\ Head(eventCh) = eventCh[1] /\
             eventCh[1] \in Events
        /\ heard' = [heard EXCEPT ![e.turn] = heard[e.turn] + (IF e.kind = "reply" THEN 1 ELSE 0)]
        /\ transcript' = IF ~turnDiscarded /\
             e.kind = "reply" THEN Append(transcript, e) ELSE transcript
    BY <1>9, NextEvent, Uncrossed DEF Tui!Ingest, Tui!controller
  <2>2. /\ e.turn = N /\ N \in 1..MaxTurns /\ Undone
        /\ e.kind = "reply" => e.id = heard[N] + 1
    BY <2>1, NextEvent, Uncrossed
  <2>3. /\ heard'[N] = heard[N] + (IF e.kind = "reply" THEN 1 ELSE 0)
        /\ \A t \in 1..MaxTurns : t # N => heard'[t] = heard[t]
    BY <1>t, <2>1, <2>2 DEF TuiTypes
  <2>4. turnDiscarded <=> N \in unsent
    BY <1>t, <2>2 DEF TuiRestore
  <2>5. CASE ~turnDiscarded /\ e.kind = "reply"
    <3>1. e \in Entries /\ transcript' = Append(transcript, e) /\ e.turn = N /\ e.id = n(N) + 1
      BY <2>1, <2>2, <2>4, <2>5 DEF Events, Entries
    <3>2. N \in 1..Len(line) /\ n(N) \in Nat /\ heard'[N] = n(N) + 1 /\ N \notin unsent /\ N \in Nat
      BY <1>n, <1>s, <2>2, <2>3, <2>4, <2>5
    <3>3. ShownUpTo(transcript', N, n(N) + 1)
      <4> HIDE DEF Entries, n, e
      <4> QED
        BY <1>n, <1>s, <2>5, <3>1, <3>2, ShownAppend
    <3>4. ASSUME NEW t \in 1..Len(line), t # N PROVE ShownUpTo(transcript', t, n(t))
      <4>1. n(t) \in Nat /\ t \in Nat /\ ShownUpTo(transcript, t, n(t)) /\ e.turn # t
        BY <1>n, <1>s, <3>1, <3>4
      <4> HIDE DEF Entries, n, e
      <4> QED
        BY <1>n, <3>1, <4>1, ShownAppend
    <3>5. \A t \in 1..Len(line) : (IF t \in unsent THEN 0 ELSE heard'[t]) = IF t = N THEN n(N) + 1 ELSE n(t)
      BY <1>n, <2>3, <3>2
    <3>6. transcript' \in Seq(Entries) /\ \A i \in DOMAIN transcript' : transcript'[i].turn <= N
      <4> HIDE DEF Entries, e
      <4>1. /\ transcript' \in Seq(Entries) /\ DOMAIN transcript' = 1..(Len(transcript) + 1)
            /\ transcript'[Len(transcript) + 1] = e
            /\ \A i \in 1..Len(transcript) : transcript'[i] = transcript[i]
        BY <1>n, <3>1, Appended
      <4>2. \A i \in DOMAIN transcript' : (i \in DOMAIN transcript /\ transcript'[i] = transcript[i])
                                          \/ transcript'[i] = e
        BY <1>n, <4>1
      <4> QED
        BY <1>n, <3>1, <4>1, <4>2
    <3> HIDE DEF n
    <3>7. \A t \in 1..Len(line) : ShownUpTo(transcript', t, IF t \in unsent THEN 0 ELSE heard'[t])
      BY <3>3, <3>4, <3>5
    <3> QED
      BY <2>1, <3>6, <3>7 DEF TuiShown
  <2>6. CASE ~(~turnDiscarded /\ e.kind = "reply")
    <3>1. transcript' = transcript
      BY <2>1, <2>6
    <3>2. \A t \in 1..Len(line) : (IF t \in unsent THEN 0 ELSE heard'[t]) = n(t)
      BY <1>n, <2>3, <2>4, <2>6
    <3>3. \A t \in 1..Len(line) : ShownUpTo(transcript, t, IF t \in unsent THEN 0 ELSE heard'[t])
      BY <1>s, <3>2
    <3> QED
      BY <1>t, <2>1, <3>1, <3>3 DEF TuiShown
  <2> QED
    BY <2>5, <2>6
<1> QED
  BY <1>1, <1>5, <1>6, <1>7, <1>9, TuiSteps

LEMMA StepTuiBubbles == TuiInv /\ [Tui!Next]_(Tui!vars) /\ ~crossed' => TuiBubbles'
<1> SUFFICES ASSUME TuiInv, [Tui!Next]_(Tui!vars), ~crossed' PROVE TuiBubbles'
  OBVIOUS
<1>t. TuiTypes /\ TuiTurns /\ TuiShown /\ TuiRestore /\ TuiBubbles
  BY Uncrossed
<1>n. /\ Len(line) \in Nat /\ transcript \in Seq(Entries) /\ Len(transcript) \in Nat
      /\ DOMAIN transcript = 1..Len(transcript) /\ unsent \subseteq 1..Len(line)
      /\ Len(line) \notin unsent \/ Len(line) \in 1..Len(line)
  BY <1>t, Uncrossed DEF TuiTypes, TuiShown
<1>b. ASSUME NEW i \in DOMAIN transcript, transcript[i].turn = 0, transcript[i].kind # "echo"
      PROVE  \E u \in 1..Len(line) \ unsent :
               line[u] = transcript[i].kind /\ (bubble # Tui!NoBubble /\ i <= bubble.at =>
                 u # Len(line))
  BY <1>b, <1>t DEF TuiBubbles
<1>1. CASE Tui!Reply \/ Tui!AskUser \/ Tui!Finish \/ Tui!TurnDone \/ Quiet \/ Answered
  <2>1. UNCHANGED <<transcript, line, unsent, bubble>>
    BY <1>1 DEF Tui!Reply, Tui!AskUser, Tui!Finish, Tui!TurnDone, Quiet, Answered, Tui!loop
  <2> QED
    BY <1>t, <2>1 DEF TuiBubbles
<1>5. ASSUME NEW l \in Tui!Lines, Tui!StartTurn(l) PROVE TuiBubbles'
  <2>1. /\ Tui!Bubble(l) \in Entries /\ Tui!Bubble(l).kind = l
        /\ transcript' = Append(transcript, Tui!Bubble(l)) /\ UNCHANGED unsent
        /\ Len(line') = Len(line) + 1 /\ \A t \in 1..Len(line) : line'[t] = line[t]
        /\ line' = Append(line, l) /\ bubble' = [restore |-> l, at |-> Len(transcript)]
    BY <1>5, Uncrossed DEF Tui!StartTurn, Tui!Bubble, Entries
  <2>2. line'[Len(line) + 1] = l
    BY <1>t, <2>1, Appended DEF TuiTypes
  <2> HIDE DEF Entries
  <2>3. /\ DOMAIN transcript' = 1..(Len(transcript) + 1)
        /\ transcript'[Len(transcript) + 1] = Tui!Bubble(l)
        /\ \A i \in 1..Len(transcript) : transcript'[i] = transcript[i]
    BY <1>n, <2>1, Appended
  <2>4. SUFFICES ASSUME NEW i \in DOMAIN transcript', transcript'[i].turn = 0,
                          transcript'[i].kind # "echo"
                 PROVE  \E u \in 1..Len(line') \ unsent' :
                          line'[u] = transcript'[i].kind
                          /\ (bubble' # Tui!NoBubble /\ i <= bubble'.at => u # Len(line'))
    BY DEF TuiBubbles, Tui!NoBubble
  <2>5. CASE i \in 1..Len(transcript)
    <3>1. PICK u \in 1..Len(line) \ unsent : line[u] = transcript[i].kind
      BY <1>b, <1>n, <2>3, <2>4, <2>5
    <3>2. u \in 1..Len(line') \ unsent' /\ line'[u] = transcript'[i].kind /\ u # Len(line')
      BY <1>n, <2>1, <2>3, <2>5, <3>1
    <3> QED
      BY <3>2
  <2>6. CASE i = Len(transcript) + 1
    <3>1. Len(line) + 1 \in 1..Len(line') \ unsent' /\ line'[Len(line) + 1] = transcript'[i].kind
      BY <1>n, <2>1, <2>2, <2>3, <2>6
    <3>2. ~(i <= bubble'.at)
      BY <1>n, <2>1, <2>6
    <3> QED
      BY <3>1, <3>2
  <2> QED
    BY <1>n, <2>3, <2>5, <2>6
<1>6. CASE Echoed \/ Tui!Ingest
  <2>1. PICK e \in Entries :
          /\ transcript' = transcript \/ transcript' = Append(transcript, e)
          /\ e.turn # 0 \/ e.kind = "echo"
    <3>1. CASE Echoed
      BY <3>1 DEF Echoed, Tui!Echo, Tui!Bubble, Entries
    <3>2. CASE Tui!Ingest
      <4>1. eventCh # <<>> /\ (transcript' = transcript \/
              (transcript' = Append(transcript, Head(eventCh))
                                                            /\ Head(eventCh).kind = "reply"))
        BY <3>2 DEF Tui!Ingest
      <4>2. Head(eventCh) \in Events
        BY <4>1, NextEvent, Uncrossed
      <4>3. Head(eventCh).kind = "reply" => Head(eventCh) \in Entries /\ Head(eventCh).turn # 0
        BY <4>2 DEF Events, Entries
      <4>4. Tui!Echo \in Entries /\ Tui!Echo.kind = "echo"
        BY DEF Tui!Echo, Tui!Bubble, Entries
      <4> QED
        BY <4>1, <4>3, <4>4
    <3> QED
      BY <1>6, <3>1, <3>2
  <2>2. UNCHANGED <<line, unsent>> /\ bubble' \in {bubble, Tui!NoBubble}
    BY <1>6 DEF Echoed, Tui!Ingest, Tui!controller
  <2> HIDE DEF Entries
  <2>3. \A i \in DOMAIN transcript' :
          (i \in DOMAIN transcript /\ transcript'[i] = transcript[i]) \/ transcript'[i] = e
    <3>1. CASE transcript' = transcript
      BY <3>1
    <3>2. CASE transcript' = Append(transcript, e)
      <4>1. /\ DOMAIN transcript' = 1..(Len(transcript) + 1) /\ transcript'[Len(transcript) + 1] = e
            /\ \A i \in 1..Len(transcript) : transcript'[i] = transcript[i]
        BY <1>n, <3>2, Appended
      <4> QED
        BY <1>n, <4>1
    <3> QED
      BY <2>1, <3>1, <3>2
  <2>4. ASSUME NEW i \in DOMAIN transcript', transcript'[i].turn = 0, transcript'[i].kind # "echo"
        PROVE  \E u \in 1..Len(line) \ unsent :
                 line[u] = transcript'[i].kind
                 /\ (bubble' # Tui!NoBubble /\ i <= bubble'.at => u # Len(line))
    <3>1. i \in DOMAIN transcript /\ transcript'[i] = transcript[i]
      BY <2>1, <2>3, <2>4
    <3> QED
      BY <1>b, <2>2, <2>4, <3>1
  <2> QED
    BY <2>2, <2>4 DEF TuiBubbles, Tui!NoBubble
<1>7. CASE Tui!UnsendPending
  <2>1. /\ transcript' = SubSeq(transcript, 1, bubble.at) /\ bubble # Tui!NoBubble /\
             bubble' = Tui!NoBubble
        /\ unsent' = unsent \cup {Len(line)} /\ UNCHANGED line
    BY <1>7 DEF Tui!UnsendPending
  <2>2. bubble.at \in Nat /\ bubble.at <= Len(transcript)
    BY <1>t, <1>n, <2>1 DEF TuiRestore
  <2> HIDE DEF Entries
  <2>3. \A i \in DOMAIN transcript' : /\ i \in DOMAIN transcript /\ transcript'[i] = transcript[i]
                                      /\ i <= bubble.at
    <3>1. /\ DOMAIN transcript' = 1..bubble.at /\ 1..bubble.at \subseteq DOMAIN transcript
          /\ \A i \in 1..bubble.at : transcript'[i] = transcript[i]
      BY <1>n, <2>1, <2>2, Cut
    <3> QED
      BY <2>2, <3>1
  <2>4. ASSUME NEW i \in DOMAIN transcript', transcript'[i].turn = 0, transcript'[i].kind # "echo"
        PROVE  \E u \in 1..Len(line) \ unsent' : line[u] = transcript'[i].kind
    <3>1. PICK u \in 1..Len(line) \ unsent : line[u] = transcript[i].kind /\ u # Len(line)
      BY <1>b, <2>1, <2>3, <2>4
    <3> QED
      BY <2>1, <2>3, <3>1
  <2> QED
    BY <2>1, <2>4 DEF TuiBubbles, Tui!NoBubble
<1> QED
  BY <1>1, <1>5, <1>6, <1>7, TuiSteps

LEMMA StepTuiRestore == TuiInv /\ [Tui!Next]_(Tui!vars) /\ ~crossed' => TuiRestore'
<1> SUFFICES ASSUME TuiInv, [Tui!Next]_(Tui!vars), ~crossed' PROVE TuiRestore'
  OBVIOUS
<1>t. TuiTypes /\ TuiTurns /\ TuiShown /\ TuiRestore /\ TuiTurns'
  BY Uncrossed, StepTuiTurns
<1>n. /\ Len(line) \in Nat /\ transcript \in Seq(Entries) /\ Len(transcript) \in Nat
      /\ DOMAIN transcript = 1..Len(transcript) /\ unsent \subseteq 1..Len(line)
      /\ Len(line) + 1 \notin unsent
  BY <1>t, Uncrossed DEF TuiTypes, TuiShown
<1>1. CASE Tui!Reply \/ Tui!AskUser \/ Tui!Finish \/ Tui!TurnDone \/ Quiet \/ Answered
  <2>1. UNCHANGED <<transcript, line, unsent, bubble, heard, turnDiscarded, state>>
    BY <1>1 DEF Tui!Reply, Tui!AskUser, Tui!Finish, Tui!TurnDone, Quiet, Answered, Tui!loop
  <2>2. Undone' <=> Undone
    BY <1>t, <2>1 DEF TuiTurns
  <2> QED
    BY <1>t, <2>1, <2>2 DEF TuiRestore, Tui!NoBubble
<1>5. ASSUME NEW l \in Tui!Lines, Tui!StartTurn(l) PROVE TuiRestore'
  <2>1. /\ Tui!Bubble(l) \in Entries /\ Tui!Bubble(l).turn = 0 /\ turnDiscarded' = FALSE
        /\ transcript' = Append(transcript, Tui!Bubble(l)) /\ UNCHANGED <<unsent, heard>>
        /\ Len(line') = Len(line) + 1 /\ Len(line) < MaxTurns
        /\ bubble' = [restore |-> l, at |-> Len(transcript)]
    BY <1>5, Uncrossed DEF Tui!StartTurn, Tui!Bubble, Entries
  <2>2. heard'[Len(line')] = 0
    BY <1>n, <2>1, Uncrossed, FrontsAssumption DEF TuiQueue
  <2> HIDE DEF Entries
  <2>3. /\ DOMAIN transcript' = 1..(Len(transcript) + 1) /\ Len(transcript') = Len(transcript) + 1
        /\ transcript'[Len(transcript) + 1] = Tui!Bubble(l)
    BY <1>n, <2>1, Appended
  <2>4. bubble'.at = Len(transcript)
    BY <2>1
  <2>5. \A i \in DOMAIN transcript' : i > bubble'.at => transcript'[i].turn = 0
    BY <1>n, <2>1, <2>3, <2>4
  <2>6. Len(line') \notin unsent' /\ Len(line') # 0 /\ bubble'.at \in Nat /\
          bubble'.at < Len(transcript')
    BY <1>n, <2>1, <2>3, <2>4
  <2> QED
    BY <2>1, <2>2, <2>5, <2>6 DEF TuiRestore
<1>6. CASE Echoed
  <2>1. /\ Tui!Echo \in Entries /\ Tui!Echo.turn = 0 /\ transcript' = Append(transcript, Tui!Echo)
        /\ UNCHANGED <<line, unsent, bubble, heard, turnDiscarded, state>>
    BY <1>6 DEF Echoed, Tui!Echo, Tui!Bubble, Entries, Tui!controller
  <2>2. Undone' <=> Undone
    BY <1>t, <2>1 DEF TuiTurns
  <2> HIDE DEF Entries
  <2>3. /\ DOMAIN transcript' = 1..(Len(transcript) + 1) /\ Len(transcript') = Len(transcript) + 1
        /\ transcript'[Len(transcript) + 1] = Tui!Echo
        /\ \A i \in 1..Len(transcript) : transcript'[i] = transcript[i]
    BY <1>n, <2>1, Appended
  <2>4. \A i \in DOMAIN transcript' : (i \in DOMAIN transcript /\ transcript'[i] = transcript[i])
                                      \/ transcript'[i] = Tui!Echo
    BY <1>n, <2>3
  <2>5. bubble # Tui!NoBubble => /\ bubble.at \in Nat /\ bubble.at < Len(transcript')
                             /\ \A i \in DOMAIN transcript' : i > bubble.at => transcript'[i].turn = 0
    BY <1>t, <1>n, <2>1, <2>3, <2>4 DEF TuiRestore
  <2> QED
    BY <1>t, <2>1, <2>2, <2>5 DEF TuiRestore, Tui!NoBubble
<1>7. CASE Tui!UnsendPending
  <2>1. /\ bubble' = Tui!NoBubble /\ turnDiscarded' = TRUE
        /\ unsent' = unsent \cup {Len(line)} /\ UNCHANGED line
    BY <1>7 DEF Tui!UnsendPending, Tui!Discarding
  <2> QED
    BY <2>1 DEF TuiRestore, Tui!NoBubble
<1>9. CASE Tui!Ingest
  <2> DEFINE N == Len(line)
             e == eventCh[1]
  <2>1. /\ eventCh # <<>> /\ UNCHANGED <<line, unsent>> /\ Head(eventCh) = e
        /\ state' = IF e.kind = "done" THEN "idle" ELSE state
        /\ turnDiscarded' = (turnDiscarded /\ e.kind # "done")
        /\ bubble' = IF turnDiscarded THEN bubble ELSE Tui!NoBubble
    BY <1>9, <1>t, NextEvent, Uncrossed DEF Tui!Ingest, Tui!controller, Tui!Settles, TuiTypes
  <2>2. Undone /\ state = "running" /\ (Undone' <=> e.kind # "done")
    BY <1>t, <2>1 DEF TuiTurns
  <2>3. bubble' = Tui!NoBubble
    BY <1>t, <2>1 DEF TuiRestore
  <2> QED
    BY <1>t, <2>1, <2>2, <2>3 DEF TuiRestore, Tui!NoBubble
<1> QED
  BY <1>1, <1>5, <1>6, <1>7, <1>9, TuiSteps

LEMMA StepTuiKnown == TuiInv /\ [Tui!Next]_(Tui!vars) => TuiKnown'
<1> SUFFICES ASSUME TuiInv, [Tui!Next]_(Tui!vars) PROVE TuiKnown'
  OBVIOUS
<1>t. TuiTypes /\ TuiKnown
  BY DEF TuiInv
<1> DEFINE InChannel(ch) == \E i \in DOMAIN ch : ch[i].kind = "done"
<1>n. /\ Len(line) \in Nat /\ running \in Nat /\ ending \in Nat /\ eventCh \in Seq(Events)
      /\ (Tui!DonePending <=> ending # 0 \/ InChannel(eventCh))
      /\ (Tui!DonePending' <=> ending' # 0 \/ InChannel(eventCh'))
  BY <1>t DEF TuiTypes, Tui!DonePending
<1>a. ASSUME NEW e, eventCh' = Append(eventCh, e)
      PROVE  InChannel(eventCh') <=> InChannel(eventCh) \/ e.kind = "done"
  <2>1. /\ DOMAIN eventCh = 1..Len(eventCh) /\ DOMAIN eventCh' = 1..(Len(eventCh) + 1)
        /\ eventCh'[Len(eventCh) + 1] = e /\ Len(eventCh) \in Nat
        /\ \A i \in 1..Len(eventCh) : eventCh'[i] = eventCh[i]
    BY <1>a, <1>n
  <2> QED
    BY <2>1
<1> HIDE DEF InChannel
<1>1. CASE Tui!Reply \/ Tui!AskUser
  <2>1. UNCHANGED <<state, running, ending, overtaken>>
    BY <1>1 DEF Tui!Reply, Tui!AskUser, Tui!loop
  <2>2. PICK e : eventCh' = Append(eventCh, e) /\ e.kind # "done"
    BY <1>1 DEF Tui!Reply, Tui!AskUser, Tui!Emit, Tui!Ev
  <2> QED
    BY <1>a, <1>n, <1>t, <2>1, <2>2 DEF TuiKnown
<1>2. CASE Tui!Finish
  <2>1. running' = 0 /\ ending' # 0
    BY <1>2 DEF Tui!Finish
  <2> QED
    BY <1>n, <2>1 DEF TuiKnown
<1>3. CASE Tui!TurnDone
  <2>1. UNCHANGED <<state, running, overtaken>> /\ ending # 0
    BY <1>3 DEF Tui!TurnDone, Tui!loop
  <2>2. PICK e : eventCh' = Append(eventCh, e) /\ e.kind = "done"
    BY <1>3 DEF Tui!TurnDone, Tui!Emit, Tui!Ev
  <2> QED
    BY <1>a, <1>n, <1>t, <2>1, <2>2 DEF TuiKnown
<1>4. ASSUME NEW l \in Tui!Lines, Tui!StartTurn(l) PROVE TuiKnown'
  <2>1. state' = "running" /\ UNCHANGED <<eventCh, ending>>
    BY <1>4 DEF Tui!StartTurn
  <2>2. CASE running = 0
    <3>1. running' = Len(line) + 1 /\ (Tui!DonePending => Len(line) + 1 \in overtaken')
      BY <1>4, <2>2 DEF Tui!StartTurn
    <3> QED
      BY <1>n, <2>1, <3>1 DEF TuiKnown
  <2>3. CASE running # 0
    BY <1>4, <1>n, <1>t, <2>1, <2>3 DEF Tui!StartTurn, TuiKnown
  <2> QED
    BY <2>2, <2>3
<1>5. CASE Echoed \/ Quiet \/ Answered \/ Tui!UnsendPending
  <2>1. UNCHANGED <<state, running, ending, eventCh, overtaken>>
    BY <1>5 DEF Echoed, Quiet, Answered, Tui!UnsendPending, Tui!controller
  <2> QED
    BY <1>n, <1>t, <2>1 DEF TuiKnown
<1>6. CASE Tui!Ingest
  <2>1. /\ eventCh # <<>> /\ eventCh' = Tail(eventCh) /\ UNCHANGED <<running, ending, overtaken>>
        /\ state' = IF eventCh[1].kind = "done" THEN "idle" ELSE state
    BY <1>6, <1>n DEF Tui!Ingest, Tui!Settles, Tui!controller
  <2>2. /\ InChannel(eventCh') => InChannel(eventCh)
        /\ InChannel(eventCh) => InChannel(eventCh') \/ eventCh[1].kind = "done"
        /\ eventCh[1].kind = "done" => InChannel(eventCh)
    <3>1. /\ Len(eventCh) \in Nat \ {0} /\ DOMAIN eventCh = 1..Len(eventCh)
          /\ DOMAIN eventCh' = 1..(Len(eventCh) - 1)
          /\ \A i \in 1..(Len(eventCh) - 1) : eventCh'[i] = eventCh[i + 1]
      <4> HIDE DEF Events
      <4> QED
        BY <1>n, <2>1, Taken
    <3>2. \A i \in DOMAIN eventCh : i = 1 \/ (i - 1 \in DOMAIN eventCh' /\ eventCh'[i - 1] = eventCh[i])
      BY <3>1
    <3>3. \A i \in DOMAIN eventCh' : i + 1 \in DOMAIN eventCh /\ eventCh'[i] = eventCh[i + 1]
      BY <3>1
    <3>4. 1 \in DOMAIN eventCh
      BY <3>1
    <3> QED
      BY <3>2, <3>3, <3>4 DEF InChannel
  <2> QED
    BY <1>n, <1>t, <2>1, <2>2 DEF TuiKnown
<1> QED
  BY <1>1, <1>2, <1>3, <1>4, <1>5, <1>6, TuiSteps

LEMMA TuiStep == TuiInv /\ [Tui!Next]_(Tui!vars) => TuiInv'
BY StepTuiTypes, StepTuiPrompts, StepTuiKnown, StepTuiTurns, StepTuiQueue, StepTuiShown, StepTuiBubbles,
   StepTuiRestore DEF TuiInv

(* The invariant gives what the run checks.                                *)
LEMMA TuiHolds ==
  TuiInv => Tui!TranscriptTrue /\ Tui!IdleMeansIdle /\ Tui!BusyMeansBusy /\ Tui!PromptIsLive
<1> SUFFICES ASSUME TuiInv
             PROVE  Tui!TranscriptTrue /\ Tui!IdleMeansIdle /\ Tui!BusyMeansBusy /\ Tui!PromptIsLive
  OBVIOUS
<1>1. Tui!IdleMeansIdle /\ Tui!BusyMeansBusy
  BY DEF TuiInv, TuiKnown, Tui!IdleMeansIdle, Tui!BusyMeansBusy
<1>2. Tui!PromptIsLive
  BY DEF TuiInv, TuiPrompts, Waited, Waits, Tui!PromptIsLive
<1>3. ASSUME ~crossed, NEW t \in DOMAIN line
      PROVE  /\ {transcript[i] : i \in Tui!Shown(t)} = IF t \in unsent THEN {} ELSE Tui!Heard(t)
             /\ \A i, j \in Tui!Shown(t) : i < j => transcript[i].id < transcript[j].id
             /\ t \in unsent => \A i \in DOMAIN transcript : transcript[i] # Tui!Bubble(line[t])
                                 \/ \E u \in DOMAIN line : u # t /\ line[u] = line[t]
  <2>1. TuiTypes /\ TuiShown /\ TuiBubbles
    BY <1>3 DEF TuiInv
  <2>2. /\ DOMAIN line = 1..Len(line) /\ line[t] \in Tui!Lines /\ unsent \subseteq DOMAIN line
        /\ \A i \in DOMAIN transcript : transcript[i] \in Entries
    BY <2>1 DEF TuiTypes, TuiShown
  <2> DEFINE n == IF t \in unsent THEN 0 ELSE heard[t]
  <2>3. ShownUpTo(transcript, t, n)
    BY <2>1, <2>2 DEF TuiShown
  <2>4. (IF t \in unsent THEN {} ELSE Tui!Heard(t)) = {Tui!Ev(t, "reply", m) : m \in 1..n}
    BY DEF Tui!Heard
  <2> HIDE DEF n
  <2>5. \A i \in Tui!Shown(t) : transcript[i] \in {Tui!Ev(t, "reply", m) : m \in 1..n}
    <3> SUFFICES ASSUME NEW i \in Tui!Shown(t) PROVE transcript[i] \in {Tui!Ev(t, "reply", m) : m \in 1..n}
      OBVIOUS
    <3>1. /\ i \in DOMAIN transcript /\ transcript[i].turn = t /\ transcript[i].kind = "reply"
          /\ transcript[i].id \in 1..n /\ transcript[i] \in Entries
      BY <2>2, <2>3 DEF Tui!Shown, ShownUpTo
    <3>2. transcript[i] = [turn |-> t, kind |-> "reply", id |-> transcript[i].id]
      BY <3>1 DEF Entries
    <3> QED
      BY <3>1, <3>2 DEF Tui!Ev
  <2>6. ASSUME NEW m \in 1..n PROVE \E i \in Tui!Shown(t) : transcript[i] = Tui!Ev(t, "reply", m)
    <3>1. PICK i \in DOMAIN transcript : transcript[i].turn = t /\ transcript[i].id = m
      BY <2>3 DEF ShownUpTo
    <3>2. transcript[i].kind = "reply" /\ transcript[i] \in Entries
      BY <2>2, <2>3, <3>1 DEF ShownUpTo
    <3>3. transcript[i] = [turn |-> t, kind |-> "reply", id |-> m]
      BY <3>1, <3>2 DEF Entries
    <3> QED
      BY <3>1, <3>3 DEF Tui!Ev, Tui!Shown
  <2>7. {transcript[i] : i \in Tui!Shown(t)} = {Tui!Ev(t, "reply", m) : m \in 1..n}
    BY <2>5, <2>6
  <2>8. \A i, j \in Tui!Shown(t) : i < j => transcript[i].id < transcript[j].id
    BY <2>3 DEF ShownUpTo, Tui!Shown
  <2>9. ASSUME t \in unsent, NEW i \in DOMAIN transcript, transcript[i] = Tui!Bubble(line[t])
        PROVE  \E u \in DOMAIN line : u # t /\ line[u] = line[t]
    <3>1. transcript[i].turn = 0 /\ transcript[i].kind = line[t] /\ line[t] # "echo"
      <4>1. line[t] # "echo"
        BY <2>2, FrontsAssumption DEF Tui!Lines
      <4>2. Tui!Bubble(line[t]).turn = 0 /\ Tui!Bubble(line[t]).kind = line[t]
        BY DEF Tui!Bubble
      <4> QED
        BY <2>9, <4>1, <4>2
    <3>2. PICK u \in 1..Len(line) \ unsent : line[u] = transcript[i].kind
      BY <2>1, <3>1 DEF TuiBubbles
    <3> QED
      BY <2>2, <2>9, <3>1, <3>2
  <2> QED
    BY <2>4, <2>7, <2>8, <2>9
<1> QED
  BY <1>1, <1>2, <1>3 DEF Tui!TranscriptTrue

-----------------------------------------------------------------------------
(* The requests of the HTTP server (serve/serve.go).                       *)

(* The instance counts as this module does.                                *)
LEMMA Counting == \A S : Http!Cardinality(S) = Cardinality(S)
BY DEF Cardinality, Http!Cardinality

(* A switch builds one controller at most, and no controller is used that  *)
(* has not been built.                                                     *)
ServePlaces == {"new", "has", "carry", "snap", "build", "swap", "done"}
Built == {r \in Switches : req[r] \in {"swap", "done"}}
ServeRequests ==
  /\ built \in Nat \ {0} /\ built <= Cardinality(Built) + 1
  /\ ctrl \in 1..built /\ closed \subseteq 1..built /\ retiring \subseteq 1..built
  /\ req \in [Http!Requests -> ServePlaces] /\ has \in [Http!Requests -> 0..built]
  /\ \A r \in Http!Requests : req[r] # "new" => has[r] # 0
ServeSessions ==
  /\ history \in [Http!Controllers -> SUBSET Submits] /\ raced \subseteq Submits
  /\ turn \in [Http!Controllers -> Submits \cup {Http!Idle}] /\ carry \in [Switches -> SUBSET Submits]

(* An answer carries the prompt that was shown where it was clicked.       *)
Prompts == [c : Int, id : Int]
ServePrompts ==
  /\ asked \in [Http!Controllers -> Nat] /\ hWaiting \in [Http!Controllers -> BOOLEAN]
  /\ shown \subseteq Prompts /\ click \in [Approvals -> Prompts]
  /\ Http!DecidedAsShown

(* What a switch goes by holds every conversation but what raced with it,  *)
(* and what it carries is a part of the one it was taken from.             *)
Carried(h) == \A c \in 1..built : history[c] \subseteq h \cup raced
ServeCarries ==
  /\ Carried(history[ctrl])
  /\ \A r \in Switches :
       /\ req[r] \in {"has", "carry", "swap"} => Carried(history[has[r]])
       /\ req[r] \in {"snap", "build"} => Carried(carry[r]) /\ carry[r] \subseteq history[has[r]]

(* A controller about to be swapped in is new, and of one switch only.     *)
ServeSwaps ==
  /\ Http!OneCurrent
  /\ \A r \in Switches : req[r] = "swap" => has[r] \notin {ctrl} \cup closed \cup retiring
  /\ \A r, q \in Switches : req[r] = "swap" /\ req[q] = "swap" /\ has[r] = has[q] => r = q

ServeInv == ServeRequests /\ ServeSessions /\ ServePrompts /\ ServeCarries /\ ServeSwaps

LEMMA BuiltCount ==
  /\ IsFiniteSet(Switches) /\ Cardinality(Switches) \in Nat
  /\ IsFiniteSet(Built) /\ Cardinality(Built) \in Nat /\ Cardinality(Built) <= Cardinality(Switches)
<1>1. Built \subseteq Switches
  BY DEF Built
<1> QED
  BY <1>1, FrontsAssumption, FS_Subset, FS_CardinalityType

LEMMA BuiltControllers == ServeRequests => 1..built \subseteq Http!Controllers
  BY BuiltCount, Counting DEF ServeRequests, Http!Controllers

LEMMA ServeInit == Http!Init => ServeInv
<1> SUFFICES ASSUME Http!Init PROVE ServeInv
  OBVIOUS
<1>1. ServeRequests
  BY BuiltCount DEF Http!Init, ServeRequests, ServePlaces
<1>2. 1 \in Http!Controllers /\ Switches \subseteq Http!Requests
  BY BuiltCount, Counting DEF Http!Controllers, Http!Requests
<1>3. ServeSessions
  BY DEF Http!Init, ServeSessions
<1>4. ServePrompts
  BY DEF Http!Init, ServePrompts, Http!DecidedAsShown, Prompts, Http!NoPrompt
<1>5. ServeCarries
  BY <1>2 DEF Http!Init, ServeCarries, Carried
<1>6. ServeSwaps
  BY <1>2 DEF Http!Init, ServeSwaps, Http!OneCurrent
<1> QED
  BY <1>1, <1>3, <1>4, <1>5, <1>6 DEF ServeInv

LEMMA StepServeRequests == ServeInv /\ [Http!Next]_(Http!vars) => ServeRequests'
<1> SUFFICES ASSUME ServeInv, [Http!Next]_(Http!vars) PROVE ServeRequests'
  OBVIOUS
<1>t. ServeRequests
  BY DEF ServeInv
<1>a. ASSUME NEW r \in Http!Requests, NEW l \in ServePlaces, Http!Goto(r, l),
               req[r] \notin {"swap", "done"} \/ l = "done",
             l # "new", has[r] # 0, UNCHANGED has, UNCHANGED <<built, ctrl, closed, retiring>>
      PROVE  ServeRequests'
  <2>1. \A q \in Http!Requests : req'[q] = IF q = r THEN l ELSE req[q]
    BY <1>a, <1>t DEF Http!Goto, ServeRequests
  <2>2. Built \subseteq Built'
    BY <1>a, <2>1 DEF Built, Http!Requests
  <2>3. Cardinality(Built) <= Cardinality(Built') /\ Cardinality(Built') \in Nat
    <3>1. Built' \subseteq Switches
      BY DEF Built
    <3> QED
      BY <2>2, <3>1, BuiltCount, FS_Subset, FS_CardinalityType
  <2>4. Cardinality(Built) \in Nat
    BY BuiltCount
  <2>5. req' \in [Http!Requests -> ServePlaces]
    BY <1>a, <1>t DEF Http!Goto, ServeRequests
  <2> QED
    BY <1>a, <1>t, <2>1, <2>3, <2>4, <2>5 DEF ServeRequests
<1>1. ASSUME NEW r \in Http!Requests, Http!GetCtrl(r) PROVE ServeRequests'
  <2>1. req[r] = "new" /\ has' = [has EXCEPT ![r] = ctrl] /\ req' = [req EXCEPT ![r] = "has"]
        /\ UNCHANGED <<built, ctrl, closed, retiring>>
    BY <1>1 DEF Http!GetCtrl, Http!Goto, Http!server
  <2>2. Built' = Built
    BY <1>t, <2>1 DEF Built, Http!Requests, ServeRequests
  <2>3. ctrl # 0 /\ ctrl \in 0..built
    BY <1>t DEF ServeRequests
  <2> QED
    BY <1>t, <2>1, <2>2, <2>3 DEF ServeRequests, ServePlaces
<1>2. ASSUME NEW r \in Http!Requests, Http!Submit(r) \/ Http!Approve(r) \/ Http!Check(r) \/
               (r \in Switches /\ (Http!Carry(r) \/ Http!Snapshot(r)))
      PROVE  ServeRequests'
  <2>1. /\ req[r] \in {"has", "carry", "snap"} /\ UNCHANGED <<has, built, ctrl, closed, retiring>>
        /\ \E l \in {"done", "carry", "snap", "build"} : Http!Goto(r, l)
    BY <1>2 DEF Http!Submit, Http!Approve, Http!Check, Http!Carry, Http!Snapshot, Http!server
  <2> QED
    BY <1>a, <1>t, <2>1 DEF ServeRequests, ServePlaces
<1>3. ASSUME NEW r \in Switches, Http!Build(r) PROVE ServeRequests'
  <2>0. r \in Http!Requests /\ req[r] = "build" /\ UNCHANGED <<ctrl, closed, retiring>> /\ has[r] # 0
    BY <1>3, <1>t DEF Http!Build, Http!Requests, ServeRequests
  <2>1. CASE Http!Goto(r, "done") /\ UNCHANGED <<built, has>>
    BY <1>a, <2>0, <2>1 DEF ServePlaces
  <2>2. CASE built' = built + 1 /\ has' = [has EXCEPT ![r] = built + 1] /\ Http!Goto(r, "swap")
    <3>1. \A q \in Http!Requests : req'[q] = IF q = r THEN "swap" ELSE req[q]
      BY <1>t, <2>0, <2>2 DEF Http!Goto, ServeRequests
    <3>2. Built' = Built \cup {r} /\ r \notin Built
      BY <2>0, <3>1 DEF Built, Http!Requests
    <3>3. Cardinality(Built') = Cardinality(Built) + 1
      BY <3>2, BuiltCount, FS_AddElement
    <3>4. built \in Nat /\ built + 1 \in 0..built' /\ built + 1 # 0 /\ 0..built \subseteq 0..built'
          /\ 1..built \subseteq 1..built' /\ Cardinality(Built) \in Nat
      BY <1>t, <2>2, BuiltCount DEF ServeRequests
    <3>5. req' \in [Http!Requests -> ServePlaces]
      BY <1>t, <2>2 DEF ServeRequests, Http!Goto, ServePlaces
    <3>6. has' \in [Http!Requests -> 0..built']
      BY <1>t, <2>2, <3>4 DEF ServeRequests
    <3>7. \A q \in Http!Requests : req'[q] # "new" => has'[q] # 0
      BY <1>t, <2>0, <2>2, <3>1, <3>4 DEF ServeRequests
    <3>8. built' \in Nat \ {0} /\ built' <= Cardinality(Built') + 1
      BY <1>t, <2>2, <3>3, <3>4 DEF ServeRequests
    <3> QED
      BY <1>t, <2>0, <3>4, <3>5, <3>6, <3>7, <3>8 DEF ServeRequests
  <2> QED
    BY <1>3, <2>1, <2>2 DEF Http!Build
<1>4. ASSUME NEW r \in Switches, Http!Swap(r) PROVE ServeRequests'
  <2>1. /\ r \in Http!Requests /\ req[r] = "swap" /\ req' = [req EXCEPT ![r] = "done"]
        /\ ctrl' = has[r] /\ retiring' = retiring \cup {ctrl} /\ UNCHANGED <<built, has, closed>>
    BY <1>4 DEF Http!Swap, Http!Requests, Http!Goto, Http!Retire
  <2>2. Built' = Built
    BY <1>t, <2>1 DEF Built, ServeRequests, Http!Requests
  <2>3. has[r] \in 1..built
    BY <1>t, <2>1 DEF ServeRequests
  <2>4. req' \in [Http!Requests -> ServePlaces]
    BY <1>t, <2>1 DEF ServeRequests, ServePlaces
  <2> QED
    BY <1>t, <2>1, <2>2, <2>3, <2>4 DEF ServeRequests
<1>5. ASSUME NEW c \in Http!Controllers, Http!Record(c) \/ Http!Ask(c) \/ Http!EndTurn(c)
      PROVE  ServeRequests'
  BY <1>5, <1>t DEF Http!Record, Http!Ask, Http!EndTurn, ServeRequests, Built, Http!server, Http!requests
<1>6. ASSUME NEW c \in Http!Controllers, Http!CloseOld(c) PROVE ServeRequests'
  BY <1>6, <1>t DEF Http!CloseOld, ServeRequests, Built, Http!requests
<1>7. CASE UNCHANGED Http!vars
  BY <1>7, <1>t DEF ServeRequests, Built, Http!vars, Http!server, Http!requests
<1> QED
  BY <1>1, <1>2, <1>3, <1>4, <1>5, <1>6, <1>7 DEF Http!Next, Http!Handler, Http!Requests

LEMMA StepServeSessions == ServeInv /\ [Http!Next]_(Http!vars) => ServeSessions'
<1> SUFFICES ASSUME ServeInv, [Http!Next]_(Http!vars) PROVE ServeSessions'
  OBVIOUS
<1>t. ServeRequests /\ ServeSessions
  BY DEF ServeInv
<1>c. 1..built \subseteq Http!Controllers
  BY <1>t, BuiltControllers
<1>1. ASSUME NEW r \in Http!Requests, Http!GetCtrl(r) \/ Http!Approve(r) \/
               Http!Check(r) PROVE ServeSessions'
  BY <1>1, <1>t DEF Http!GetCtrl, Http!Approve, Http!Check, ServeSessions, Http!session
<1>2. ASSUME NEW r \in Http!Requests, Http!Submit(r) PROVE ServeSessions'
  <2>1. r \in Submits /\ UNCHANGED carry
    BY <1>2 DEF Http!Submit
  <2> QED
    BY <1>2, <2>1, <1>t DEF Http!Submit, ServeSessions
<1>7. ASSUME NEW c \in Http!Controllers, Http!Record(c) PROVE ServeSessions'
  <2>1. turn[c] \in Submits /\ UNCHANGED <<turn, carry>>
    BY <1>7, <1>t DEF Http!Record, ServeSessions, Http!requests
  <2> QED
    BY <1>7, <2>1, <1>t DEF Http!Record, ServeSessions
<1>8. ASSUME NEW r \in Switches, Http!Snapshot(r) PROVE ServeSessions'
  BY <1>8, <1>t DEF Http!Snapshot, ServeSessions
<1>3. ASSUME NEW r \in Switches, Http!Carry(r) PROVE ServeSessions'
  <2>1. r \in Http!Requests /\ has[r] \in Http!Controllers
    BY <1>3, <1>t, <1>c DEF Http!Carry, Http!Requests, ServeRequests
  <2> QED
    BY <1>3, <2>1, <1>t DEF Http!Carry, ServeSessions, Http!session
<1>4. ASSUME NEW r \in Switches, Http!Build(r) \/ Http!Swap(r) PROVE ServeSessions'
  BY <1>4, <1>t DEF Http!Build, Http!Swap, ServeSessions, Http!session
<1>5. ASSUME NEW c \in Http!Controllers, Http!Ask(c) \/ Http!EndTurn(c) \/
               Http!CloseOld(c) PROVE ServeSessions'
  BY <1>5, <1>t DEF Http!Ask, Http!EndTurn, Http!CloseOld, ServeSessions, Http!session,
     Http!requests
<1>6. CASE UNCHANGED Http!vars
  BY <1>6, <1>t DEF ServeSessions, Http!vars, Http!session, Http!requests
<1> QED
  BY <1>1, <1>2, <1>3, <1>4, <1>5, <1>6, <1>7, <1>8 DEF Http!Next, Http!Handler

LEMMA StepServePrompts == ServeInv /\ [Http!Next]_(Http!vars) => ServePrompts'
<1> SUFFICES ASSUME ServeInv, [Http!Next]_(Http!vars) PROVE ServePrompts'
  OBVIOUS
<1>t. ServeRequests /\ ServePrompts
  BY DEF ServeInv
<1>c. 1..built \subseteq Http!Controllers /\ Http!Controllers \subseteq Int
  BY <1>t, BuiltControllers, BuiltCount DEF Http!Controllers
<1>1. ASSUME NEW r \in Http!Requests, Http!GetCtrl(r) PROVE ServePrompts'
  <2>1. UNCHANGED <<asked, hWaiting, shown, decided>>
        /\ (click' = click \/ \E p \in Prompts : click' = [click EXCEPT ![r] = p])
    BY <1>1, <1>t DEF Http!GetCtrl, ServePrompts
  <2> QED
    BY <1>t, <2>1 DEF ServePrompts, Http!DecidedAsShown
<1>2. ASSUME NEW r \in Http!Requests, Http!Approve(r) PROVE ServePrompts'
  <2>1. r \in Approvals /\ req[r] = "has" /\ UNCHANGED <<asked, shown, click>> /\
          has[r] \in Http!Controllers
    BY <1>2, <1>t, <1>c DEF Http!Approve, ServeRequests
  <2>2. CASE UNCHANGED <<hWaiting, decided>>
    BY <1>t, <2>1, <2>2 DEF ServePrompts, Http!DecidedAsShown
  <2>3. CASE /\ asked[has[r]] = click[r].id /\ hWaiting' = [hWaiting EXCEPT ![has[r]] = FALSE]
             /\ decided' = decided \cup
                  {[prompt |-> [c |-> has[r], id |-> asked[has[r]]], click |-> click[r]]}
    <3>1. click[r] \in Prompts
      BY <1>t, <2>1 DEF ServePrompts
    <3>2. click[r] = [c |-> click[r].c, id |-> click[r].id]
      BY <3>1 DEF Prompts
    <3>3. Http!DecidedAsShown'
      <4> SUFFICES ASSUME NEW d \in decided', d.click.c = d.prompt.c PROVE d.click = d.prompt
        BY DEF Http!DecidedAsShown
      <4>1. CASE d \in decided
        BY <1>t, <4>1 DEF ServePrompts, Http!DecidedAsShown
      <4>2. CASE d = [prompt |-> [c |-> has[r], id |-> asked[has[r]]], click |-> click[r]]
        BY <2>3, <3>2, <4>2
      <4> QED
        BY <2>3, <4>1, <4>2
    <3> QED
      BY <1>t, <2>1, <2>3, <3>3 DEF ServePrompts
  <2> QED
    BY <1>2, <2>2, <2>3 DEF Http!Approve, Http!Pending
<1>3. ASSUME NEW r \in Http!Requests, Http!Submit(r) \/ Http!Check(r) \/ (r \in Switches /\
               (Http!Carry(r) \/ Http!Snapshot(r) \/ Http!Build(r) \/ Http!Swap(r)))
      PROVE  ServePrompts'
  <2>1. UNCHANGED Http!prompts
    BY <1>3 DEF Http!Submit, Http!Check, Http!Carry, Http!Snapshot, Http!Build, Http!Swap
  <2> QED
    BY <1>t, <2>1 DEF ServePrompts, Http!DecidedAsShown, Http!prompts
<1>4. ASSUME NEW c \in Http!Controllers, Http!Ask(c) PROVE ServePrompts'
  <2>1. /\ asked' = [asked EXCEPT ![c] = asked[c] + 1] /\ hWaiting' = [hWaiting EXCEPT ![c] = TRUE]
        /\ shown' = shown \cup {[c |-> c, id |-> asked[c] + 1]} /\ UNCHANGED <<click, decided>>
        /\ asked[c] \in Nat
    BY <1>4, <1>t DEF Http!Ask, ServePrompts
  <2>2. [c |-> c, id |-> asked[c] + 1] \in Prompts
    BY <2>1, <1>c DEF Prompts
  <2> QED
    BY <1>t, <2>1, <2>2 DEF ServePrompts, Http!DecidedAsShown
<1>5. ASSUME NEW c \in Http!Controllers, Http!Record(c) \/ Http!EndTurn(c) \/ Http!CloseOld(c)
      PROVE  ServePrompts'
  <2>1. /\ UNCHANGED <<asked, shown, click, decided>>
        /\ hWaiting' = hWaiting \/ hWaiting' = [hWaiting EXCEPT ![c] = FALSE]
    BY <1>5 DEF Http!Record, Http!EndTurn, Http!CloseOld, Http!prompts
  <2> QED
    BY <1>t, <2>1 DEF ServePrompts, Http!DecidedAsShown
<1>6. CASE UNCHANGED Http!vars
  BY <1>6, <1>t DEF ServePrompts, Http!DecidedAsShown, Http!vars, Http!prompts
<1> QED
  BY <1>1, <1>2, <1>3, <1>4, <1>5, <1>6 DEF Http!Next, Http!Handler

LEMMA StepServeCarries == ServeInv /\ [Http!Next]_(Http!vars) => ServeCarries'
<1> SUFFICES ASSUME ServeInv, [Http!Next]_(Http!vars) PROVE ServeCarries'
  OBVIOUS
<1>t. ServeRequests /\ ServeSessions /\ ServeCarries
  BY DEF ServeInv
<1>c. 1..built \subseteq Http!Controllers /\ built \in Nat /\ ctrl \in 1..built /\
        Switches \subseteq Http!Requests
      /\ \A r \in Switches : req[r] # "new" => has[r] \in 1..built
  BY <1>t, BuiltControllers DEF ServeRequests, Http!Requests
<1>1. ASSUME NEW r \in Http!Requests, Http!GetCtrl(r) PROVE ServeCarries'
  <2>1. /\ \A q \in Http!Requests : req'[q] = (IF q = r THEN "has" ELSE req[q])
        /\ \A q \in Http!Requests : has'[q] = (IF q = r THEN ctrl ELSE has[q])
        /\ UNCHANGED <<ctrl, built, history, raced, carry>>
    BY <1>1, <1>t DEF Http!GetCtrl, Http!Goto, ServeRequests, Http!server, Http!session
  <2> QED
    BY <1>t, <1>c, <2>1 DEF ServeCarries, Carried
<1>2. ASSUME NEW c \in Http!Controllers, Http!Record(c) PROVE ServeCarries'
  <2> DEFINE p == turn[c]
  <2>1. /\ UNCHANGED <<ctrl, built, carry, has, req>>
        /\ history' = [history EXCEPT ![c] = history[c] \cup {p}]
        /\ raced' = IF Http!Missed(c) THEN raced \cup {p} ELSE raced
    BY <1>2 DEF Http!Record, Http!server, Http!requests
  <2> HIDE DEF p
  <2>2. \A d \in Http!Controllers : history'[d] = IF d = c THEN history[d] \cup {p} ELSE history[d]
    BY <1>t, <2>1 DEF ServeSessions
  <2>3. CASE Http!Missed(c)
    <3>1. raced' = raced \cup {p}
      BY <2>1, <2>3
    <3>2. ASSUME NEW h, NEW g, h \subseteq g, Carried(h) PROVE Carried(g)'
      BY <1>c, <2>1, <2>2, <3>1, <3>2 DEF Carried
    <3>3. \A d \in 1..built : history[d] \subseteq history'[d]
      BY <1>c, <2>2
    <3>4. Carried(history[ctrl])'
      BY <1>t, <1>c, <2>1, <3>2, <3>3 DEF ServeCarries
    <3>5. ASSUME NEW q \in Switches
          PROVE  /\ req'[q] \in {"has", "carry", "swap"} => Carried(history[has[q]])'
                 /\ req'[q] \in {"snap", "build"} =>
                      Carried(carry[q])' /\ carry'[q] \subseteq history'[has'[q]]
      <4>1. req'[q] # "new" => req[q] = req'[q] /\ has[q] \in 1..built
        BY <1>c, <2>1
      <4> QED
        BY <1>t, <2>1, <3>2, <3>3, <4>1 DEF ServeCarries
    <3> QED
      BY <3>4, <3>5 DEF ServeCarries
  <2>4. CASE ~Http!Missed(c)
    <3>1. /\ raced' = raced /\ c = ctrl
          /\ \A q \in Switches : req[q] \notin {"snap", "build", "swap"}
                                 /\ (req[q] \in {"has", "carry"} => has[q] = ctrl)
      BY <2>1, <2>4 DEF Http!Missed
    <3>2. Carried(history[ctrl])'
      <4>1. history'[ctrl] = history[ctrl] \cup {p} /\ ctrl' = ctrl /\ built' = built
        BY <1>c, <2>1, <2>2, <3>1
      <4>2. ASSUME NEW d \in 1..built PROVE history'[d] \subseteq history[ctrl] \cup {p} \cup raced
        <5>1. history[d] \subseteq history[ctrl] \cup raced
          BY <1>t DEF ServeCarries, Carried
        <5>2. history'[d] \subseteq history[d] \cup {p}
          BY <1>c, <2>2
        <5> QED
          BY <5>1, <5>2
      <4> QED
        BY <3>1, <4>1, <4>2 DEF Carried
    <3>3. \A q \in Switches : req'[q] \notin {"snap", "build", "swap"}
                               /\ (req'[q] \in {"has", "carry"} => has'[q] = ctrl')
      BY <2>1, <3>1
    <3> QED
      BY <3>2, <3>3 DEF ServeCarries
  <2> QED
    BY <2>3, <2>4
<1>3. ASSUME NEW r \in Http!Requests, Http!Submit(r) \/ Http!Approve(r) \/ Http!Check(r)
      PROVE  ServeCarries'
  <2>1. /\ req[r] = "has" /\ UNCHANGED <<ctrl, built, history, raced, carry, has>>
        /\ \E l \in {"carry", "done"} : req' = [req EXCEPT ![r] = l]
    BY <1>3 DEF Http!Submit, Http!Approve, Http!Check, Http!Goto, Http!server, Http!session
  <2>2. \A q \in Http!Requests : req'[q] = req[q] \/ (req[q] = "has" /\ req'[q] \in {"carry", "done"})
    BY <1>t, <2>1 DEF ServeRequests
  <2> QED
    BY <1>t, <1>c, <2>1, <2>2 DEF ServeCarries, Carried
<1>4. ASSUME NEW r \in Switches, Http!Carry(r) PROVE ServeCarries'
  <2>1. /\ req[r] = "carry" /\ UNCHANGED <<ctrl, built, history, raced, has>>
        /\ \A q \in Http!Requests : req'[q] = (IF q = r THEN "snap" ELSE req[q])
        /\ \A q \in Switches : carry'[q] = (IF q = r THEN history[has[r]] ELSE carry[q])
    BY <1>4, <1>t DEF Http!Carry, Http!Goto, Http!server, Http!session, ServeRequests, ServeSessions
  <2> QED
    BY <1>t, <1>c, <2>1 DEF ServeCarries, Carried
<1>9. ASSUME NEW r \in Switches, Http!Snapshot(r) PROVE ServeCarries'
  <2>1. /\ req[r] = "snap" /\ UNCHANGED <<ctrl, built, history, raced, has, carry>>
        /\ \A q \in Http!Requests : req'[q] = (IF q = r THEN "build" ELSE req[q])
    BY <1>9, <1>t DEF Http!Snapshot, Http!Goto, Http!server, ServeRequests
  <2> QED
    BY <1>t, <1>c, <2>1 DEF ServeCarries, Carried
<1>5. ASSUME NEW r \in Switches, Http!Build(r) PROVE ServeCarries'
  <2>1. req[r] = "build" /\ UNCHANGED <<ctrl, raced, carry>>
    BY <1>5 DEF Http!Build, Http!session
  <2>2. CASE Http!Goto(r, "done") /\ UNCHANGED <<built, history, has>>
    <3>1. \A q \in Http!Requests : req'[q] = (IF q = r THEN "done" ELSE req[q])
      BY <1>t, <2>2 DEF Http!Goto, ServeRequests
    <3> QED
      BY <1>t, <1>c, <2>1, <2>2, <3>1 DEF ServeCarries, Carried
  <2>3. CASE /\ built' = built + 1 /\ history' = [history EXCEPT ![built + 1] = carry[r]]
             /\ has' = [has EXCEPT ![r] = built + 1] /\ Http!Goto(r, "swap")
    <3>0. r \in Http!Requests
      BY <1>c
    <3>1. /\ \A q \in Http!Requests : req'[q] = (IF q = r THEN "swap" ELSE req[q])
          /\ \A q \in Http!Requests : has'[q] = (IF q = r THEN built + 1 ELSE has[q])
      BY <1>t, <2>3 DEF Http!Goto, ServeRequests
    <3>2. built + 1 \in Http!Controllers
      <4>1. ServeRequests' /\ 1..built' \subseteq Http!Controllers
        <5>1. ServeRequests' => (1..built \subseteq Http!Controllers)'
          BY BuiltControllers, PTL
        <5>2. ServeRequests'
          BY StepServeRequests
        <5> QED
          BY <5>1, <5>2 DEF Http!Controllers
      <4> QED
        BY <1>c, <2>3, <4>1
    <3>3. history'[built + 1] = carry[r] /\ \A c \in 1..built : history'[c] = history[c]
      BY <1>t, <1>c, <2>3, <3>2 DEF ServeSessions
    <3>4. has[r] \in 1..built /\ carry[r] \subseteq history[has[r]] /\ Carried(carry[r])
      BY <1>t, <1>c, <2>1 DEF ServeCarries
    <3>5. ASSUME NEW h, Carried(h) PROVE Carried(h)'
      <4> SUFFICES ASSUME NEW c \in 1..(built + 1) PROVE history'[c] \subseteq h \cup raced
        BY <2>1, <2>3 DEF Carried
      <4>1. CASE c = built + 1
        BY <3>3, <3>4, <3>5, <4>1 DEF Carried
      <4>2. CASE c # built + 1
        <5>1. c \in 1..built
          BY <1>c, <4>2
        <5> QED
          BY <3>3, <3>5, <5>1 DEF Carried
      <4> QED
        BY <4>1, <4>2
    <3>6. Carried(history[ctrl])'
      BY <1>t, <1>c, <2>1, <3>3, <3>5 DEF ServeCarries
    <3>7. ASSUME NEW q \in Switches
          PROVE  /\ req'[q] \in {"has", "carry", "swap"} => Carried(history[has[q]])'
                 /\ req'[q] \in {"snap", "build"} =>
                      Carried(carry[q])' /\ carry'[q] \subseteq history'[has'[q]]
      <4>1. CASE q = r
        BY <3>0, <3>1, <3>3, <3>4, <3>5, <4>1
      <4>2. CASE q # r
        <5>1. req'[q] = req[q] /\ has'[q] = has[q] /\ q \in Http!Requests
              /\ (req[q] # "new" => has[q] \in 1..built)
          BY <1>c, <3>1, <4>2
        <5> QED
          BY <1>t, <2>1, <3>3, <3>5, <5>1 DEF ServeCarries
      <4> QED
        BY <4>1, <4>2
    <3> QED
      BY <3>6, <3>7 DEF ServeCarries
  <2> QED
    BY <1>5, <2>2, <2>3 DEF Http!Build
<1>6. ASSUME NEW r \in Switches, Http!Swap(r) PROVE ServeCarries'
  <2>1. /\ req[r] = "swap" /\ ctrl' = has[r] /\ UNCHANGED <<built, history, raced, carry, has>>
        /\ \A q \in Http!Requests : req'[q] = (IF q = r THEN "done" ELSE req[q])
    BY <1>6, <1>t DEF Http!Swap, Http!Goto, Http!session, ServeRequests
  <2> QED
    BY <1>t, <1>c, <2>1 DEF ServeCarries, Carried
<1>7. ASSUME NEW c \in Http!Controllers, Http!Ask(c) \/ Http!EndTurn(c) \/
               Http!CloseOld(c) PROVE ServeCarries'
  <2>1. UNCHANGED <<ctrl, built, history, raced, carry, has, req>>
    BY <1>7 DEF Http!Ask, Http!EndTurn, Http!CloseOld, Http!server, Http!session, Http!requests
  <2> QED
    BY <1>t, <2>1 DEF ServeCarries, Carried
<1>8. CASE UNCHANGED Http!vars
  BY <1>8, <1>t DEF ServeCarries, Carried, Http!vars, Http!server, Http!session, Http!requests
<1> QED
  BY <1>1, <1>2, <1>3, <1>4, <1>5, <1>6, <1>7, <1>8, <1>9 DEF Http!Next, Http!Handler

LEMMA StepServeSwaps == ServeInv /\ [Http!Next]_(Http!vars) => ServeSwaps'
<1> SUFFICES ASSUME ServeInv, [Http!Next]_(Http!vars) PROVE ServeSwaps'
  OBVIOUS
<1>t. ServeRequests /\ ServeSwaps
  BY DEF ServeInv
<1>c. built \in Nat /\ ctrl \in 1..built /\ Switches \subseteq Http!Requests
      /\ closed \subseteq 1..built /\ retiring \subseteq 1..built
      /\ \A r \in Switches : req[r] # "new" => has[r] \in 1..built
  BY <1>t DEF ServeRequests, Http!Requests
<1>1. ASSUME NEW r \in Http!Requests,
             Http!GetCtrl(r) \/ Http!Submit(r) \/ Http!Approve(r) \/ Http!Check(r) \/
               (r \in Switches /\ (Http!Carry(r) \/ Http!Snapshot(r)))
      PROVE  ServeSwaps'
  <2>1. /\ req[r] \in {"new", "has", "carry", "snap"} /\ UNCHANGED <<ctrl, built, closed, retiring>>
        /\ \E l \in {"has", "carry", "snap", "build", "done"} : req' = [req EXCEPT ![r] = l]
        /\ (has' = has \/ has' = [has EXCEPT ![r] = ctrl])
    BY <1>1 DEF Http!GetCtrl, Http!Submit, Http!Approve, Http!Check, Http!Carry, Http!Snapshot,
       Http!Goto, Http!server
  <2>2. \A q \in Switches : (req'[q] = "swap" <=> req[q] = "swap") /\ (req[q] = "swap" =>
          has'[q] = has[q])
    BY <1>t, <1>c, <2>1 DEF ServeRequests
  <2> QED
    BY <1>t, <2>1, <2>2 DEF ServeSwaps, Http!OneCurrent
<1>2. ASSUME NEW r \in Switches, Http!Build(r) PROVE ServeSwaps'
  <2>1. req[r] = "build" /\ UNCHANGED <<ctrl, closed, retiring>>
    BY <1>2 DEF Http!Build
  <2>2. CASE Http!Goto(r, "done") /\ UNCHANGED <<built, has>>
    <3>1. \A q \in Switches : req'[q] = "swap" <=> req[q] = "swap"
      BY <1>t, <1>c, <2>1, <2>2 DEF Http!Goto, ServeRequests
    <3> QED
      BY <1>t, <2>1, <2>2, <3>1 DEF ServeSwaps, Http!OneCurrent
  <2>3. CASE built' = built + 1 /\ has' = [has EXCEPT ![r] = built + 1] /\ Http!Goto(r, "swap")
    <3>1. /\ \A q \in Switches : req'[q] = (IF q = r THEN "swap" ELSE req[q])
          /\ \A q \in Switches : has'[q] = (IF q = r THEN built + 1 ELSE has[q])
      BY <1>t, <1>c, <2>3 DEF Http!Goto, ServeRequests
    <3>2. built + 1 \notin {ctrl} \cup closed \cup retiring
          /\ \A q \in Switches : req[q] = "swap" => has[q] # built + 1
      BY <1>c
    <3>3. Http!OneCurrent'
      <4>1. ASSUME NEW c \in 1..(built + 1)
            PROVE  c \in {ctrl} \cup closed \cup retiring
                   \/ \E q \in Switches : req'[q] = "swap" /\ has'[q] = c
        <5>1. CASE c = built + 1
          BY <3>1, <5>1
        <5>2. CASE c \in 1..built
          BY <1>t, <2>1, <3>1, <5>2 DEF ServeSwaps, Http!OneCurrent
        <5> QED
          BY <1>c, <5>1, <5>2
      <4> QED
        BY <1>t, <2>1, <2>3, <4>1 DEF ServeSwaps, Http!OneCurrent
    <3> QED
      BY <1>t, <2>1, <3>1, <3>2, <3>3 DEF ServeSwaps
  <2> QED
    BY <1>2, <2>2, <2>3 DEF Http!Build
<1>3. ASSUME NEW r \in Switches, Http!Swap(r) PROVE ServeSwaps'
  <2>1. /\ req[r] = "swap" /\ ctrl' = has[r] /\ retiring' = retiring \cup {ctrl}
        /\ UNCHANGED <<built, closed, has>>
        /\ \A q \in Switches : req'[q] = (IF q = r THEN "done" ELSE req[q])
    BY <1>3, <1>t, <1>c DEF Http!Swap, Http!Retire, Http!Goto, ServeRequests
  <2>2. Http!OneCurrent'
    BY <1>t, <2>1 DEF ServeSwaps, Http!OneCurrent
  <2> QED
    BY <1>t, <2>1, <2>2 DEF ServeSwaps
<1>4. ASSUME NEW c \in Http!Controllers, Http!CloseOld(c) PROVE ServeSwaps'
  <2>1. /\ c \in retiring /\ closed' = closed \cup {c} /\ retiring' = retiring \ {c}
        /\ UNCHANGED <<ctrl, built, req, has>>
    BY <1>4 DEF Http!CloseOld, Http!requests
  <2> QED
    BY <1>t, <2>1 DEF ServeSwaps, Http!OneCurrent
<1>5. ASSUME NEW c \in Http!Controllers, Http!Record(c) \/ Http!Ask(c) \/ Http!EndTurn(c)
      PROVE  ServeSwaps'
  <2>1. UNCHANGED <<ctrl, built, closed, retiring, req, has>>
    BY <1>5 DEF Http!Record, Http!Ask, Http!EndTurn, Http!server, Http!requests
  <2> QED
    BY <1>t, <2>1 DEF ServeSwaps, Http!OneCurrent
<1>6. CASE UNCHANGED Http!vars
  BY <1>6, <1>t DEF ServeSwaps, Http!OneCurrent, Http!vars, Http!server, Http!requests
<1> QED
  BY <1>1, <1>2, <1>3, <1>4, <1>5, <1>6 DEF Http!Next, Http!Handler

LEMMA ServeStep == ServeInv /\ [Http!Next]_(Http!vars) => ServeInv'
BY StepServeRequests, StepServeSessions, StepServePrompts, StepServeCarries, StepServeSwaps
   DEF ServeInv

-----------------------------------------------------------------------------
(* The fan-out of the event stream (serve/broadcaster.go).                 *)

(* What a tab has got and still holds are frames that were emitted; a tab  *)
(* that has not subscribed has none.                                       *)
FanTypes ==
  /\ emitted \in Nat /\ tabs \in [Subs -> {"new", "open", "closed"}]
  /\ since \in [Subs -> Nat] /\ buffer \in [Subs -> Seq(Nat)] /\ got \in [Subs -> Seq(Nat)]
  /\ dropped \in [Subs -> SUBSET Nat]

FanFrames ==
  \A s \in Subs :
    /\ since[s] <= emitted + 1 /\ dropped[s] \subseteq 1..emitted
    /\ \A i \in DOMAIN Http!Frames(s) : Http!Frames(s)[i] \in 1..emitted
    /\ tabs[s] = "new" => got[s] = <<>> /\ buffer[s] = <<>> /\ dropped[s] = {}

(* Only the emitter that holds b.mu has subscribers left, and those are    *)
(* open and wait for the latest frame.                                     *)
FanLock ==
  /\ left \in [Emitters -> SUBSET Subs]
  /\ \A e \in Emitters : left[e] # {} => mu = e
  /\ \A e \in Emitters : \A s \in left[e] :
       tabs[s] = "open" /\ since[s] <= emitted /\ emitted # 0 /\ emitted \notin dropped[s]

FanInv == FanTypes /\ FanFrames /\ FanLock /\ Http!InOrder

(* A frame moves from the buffer to the client.                            *)
LEMMA Moved ==
  ASSUME NEW g \in Seq(Nat), NEW b \in Seq(Nat), b # <<>>
  PROVE  Append(g, b[1]) \o Tail(b) = g \o b /\ Append(g, b[1]) \in Seq(Nat) /\ Tail(b) \in Seq(Nat)
<1>1. Len(b) \in Nat \ {0} /\ b[1] \in Nat /\ Len(Tail(b)) = Len(b) - 1
  OBVIOUS
<1>2. Append(g, b[1]) \in Seq(Nat) /\ Tail(b) \in Seq(Nat)
  BY <1>1
<1>3. Len(Append(g, b[1]) \o Tail(b)) = Len(g \o b)
  BY <1>1, <1>2
<1>4. \A i \in 1..Len(g \o b) : (Append(g, b[1]) \o Tail(b))[i] = (g \o b)[i]
  <2> SUFFICES ASSUME NEW i \in 1..Len(g \o b)
               PROVE  (Append(g, b[1]) \o Tail(b))[i] = (g \o b)[i]
    OBVIOUS
  <2>1. CASE i <= Len(g)
    BY <1>1, <1>2, <2>1
  <2>2. CASE i = Len(g) + 1
    BY <1>1, <1>2, <2>2
  <2>3. CASE i > Len(g) + 1
    BY <1>1, <1>2, <2>3
  <2> QED
    BY <2>1, <2>2, <2>3
<1> QED
  BY <1>2, <1>3, <1>4

(* The sequence g is f with e at its end.                                  *)
OneMore(f, g, e) ==
  /\ DOMAIN f = 1..Len(f) /\ Len(f) \in Nat
  /\ DOMAIN g = 1..(Len(f) + 1) /\ Len(g) = Len(f) + 1
  /\ \A i \in 1..Len(f) : g[i] = f[i]
  /\ g[Len(f) + 1] = e

(* A frame enters at the end of the buffer.                                *)
LEMMA Entered ==
  ASSUME NEW g \in Seq(Nat), NEW b \in Seq(Nat), NEW e \in Nat
  PROVE  OneMore(g \o b, g \o Append(b, e), e)
<1>1. Len(g) \in Nat /\ Len(b) \in Nat
  OBVIOUS
<1>2. \A i \in 1..Len(g \o b) : (g \o Append(b, e))[i] = (g \o b)[i]
  <2> SUFFICES ASSUME NEW i \in 1..Len(g \o b)
               PROVE  (g \o Append(b, e))[i] = (g \o b)[i]
    OBVIOUS
  <2>1. CASE i <= Len(g)
    BY <1>1, <2>1
  <2>2. CASE i > Len(g)
    BY <1>1, <2>2
  <2> QED
    BY <1>1, <2>1, <2>2
<1>3. (g \o Append(b, e))[Len(g \o b) + 1] = e
  BY <1>1
<1>4. Append(b, e) \in Seq(Nat) /\ Len(g \o Append(b, e)) = Len(g \o b) + 1
      /\ Len(g \o b) \in Nat
  BY <1>1
<1> QED
  BY <1>1, <1>2, <1>3, <1>4 DEF OneMore

LEMMA FanInitially == Http!FanInit => FanInv
<1> SUFFICES ASSUME Http!FanInit PROVE FanInv
  OBVIOUS
<1>1. \A s \in Subs : Http!Frames(s) = <<>>
  BY DEF Http!FanInit, Http!Frames
<1> QED
  BY <1>1 DEF Http!FanInit, FanInv, FanTypes, FanFrames, FanLock, Http!InOrder, Http!Coming

LEMMA FanStep == FanInv /\ [Http!FanNext]_(Http!fanVars) => FanInv'
<1> SUFFICES ASSUME FanInv, [Http!FanNext]_(Http!fanVars) PROVE FanInv'
  OBVIOUS
<1>t. FanTypes /\ FanFrames /\ FanLock /\ Http!InOrder
  BY DEF FanInv
<1>f. ASSUME Http!Alone PROVE \A e \in Emitters : left[e] = {}
  BY <1>f, <1>t, FrontsAssumption DEF Http!Alone, Http!Nobody, FanLock
<1>o. ASSUME NEW s \in Subs
      PROVE  LET F == Http!Frames(s) IN
             /\ since[s] \in Nat /\ since[s] <= emitted + 1 /\ dropped[s] \subseteq 1..emitted
             /\ \A i \in DOMAIN F : F[i] \in 1..emitted
             /\ tabs[s] = "new" => got[s] = <<>> /\ buffer[s] = <<>> /\ dropped[s] = {}
             /\ \A i, j \in DOMAIN F : i < j => F[i] < F[j]
             /\ tabs[s] = "open" => {F[i] : i \in DOMAIN F} =
                                      (since[s]..emitted) \ (dropped[s] \cup Http!Coming(s))
             /\ dropped[s] # {} => Len(F) >= Buffer
  BY <1>t DEF FanTypes, FanFrames, Http!InOrder
<1>1. ASSUME NEW e \in Emitters, Http!Lock(e) PROVE FanInv'
  <2>1. /\ Http!Alone /\ emitted' = emitted + 1 /\ emitted \in Nat /\ mu' = e
        /\ UNCHANGED <<tabs, since, buffer, got, dropped>>
        /\ left' = [left EXCEPT ![e] = Http!Open]
    BY <1>1, <1>t DEF Http!Lock, FanTypes
  <2>2. FanTypes'
    BY <1>t, <2>1 DEF FanTypes
  <2>3. /\ \A d \in Emitters : left'[d] = IF d = e THEN Http!Open ELSE {}
        /\ \A s \in Subs : Http!Coming(s) = {}
        /\ \A s \in Subs : tabs[s] = "open" => Http!Coming(s)' = {emitted + 1}
    BY <1>1, <1>f, <1>t, <2>1 DEF FanLock, Http!Coming, Http!Open
  <2>4. \A s \in Subs : Http!Frames(s)' = Http!Frames(s)
    BY <2>1 DEF Http!Frames
  <2>5. FanLock'
    <3>1. left' \in [Emitters -> SUBSET Subs] /\ \A d \in Emitters : left'[d] # {} => mu' = d
      BY <1>t, <2>1, <2>3 DEF FanLock, Http!Open
    <3>2. ASSUME NEW s \in Http!Open
          PROVE  tabs'[s] = "open" /\ since'[s] <= emitted' /\ emitted' # 0 /\ emitted' \notin dropped'[s]
      BY <1>o, <2>1 DEF Http!Open
    <3> QED
      BY <2>3, <3>1, <3>2 DEF FanLock
  <2>6. ASSUME NEW s \in Subs
        PROVE  /\ since'[s] <= emitted' + 1 /\ dropped'[s] \subseteq 1..emitted'
               /\ \A i \in DOMAIN Http!Frames(s)' : Http!Frames(s)'[i] \in 1..emitted'
    BY <1>o, <2>1, <2>4
  <2>7. FanFrames'
    BY <1>t, <2>1, <2>6 DEF FanFrames
  <2>8. ASSUME NEW s \in Subs, tabs[s] = "open"
        PROVE  (since[s]..(emitted + 1)) \ (dropped[s] \cup {emitted + 1})
                 = (since[s]..emitted) \ (dropped[s] \cup Http!Coming(s))
    BY <1>o, <2>1, <2>3
  <2>9. Http!InOrder'
    BY <1>t, <2>1, <2>3, <2>4, <2>8 DEF Http!InOrder
  <2> QED
    BY <2>2, <2>5, <2>7, <2>9 DEF FanInv
<1>2. ASSUME NEW e \in Emitters, NEW s \in Subs, Http!Send(e, s) PROVE FanInv'
  <2> DEFINE F == Http!Frames(s)
             G == Http!Frames(s)'
  <2>1. /\ s \in left[e] /\ left' = [left EXCEPT ![e] = left[e] \ {s}]
        /\ UNCHANGED <<mu, emitted, tabs, since, got>>
        /\ emitted \in Nat \ {0} /\ tabs[s] = "open" /\ since[s] <= emitted
        /\ emitted \notin dropped[s] /\ buffer[s] \in Seq(Nat) /\ got[s] \in Seq(Nat)
    BY <1>2, <1>t DEF Http!Send, FanTypes, FanLock
  <2>2. /\ \A d \in Emitters : left'[d] = IF d = e THEN left[e] \ {s} ELSE left[d]
        /\ \A d \in Emitters \ {e} : left[d] = {}
    BY <1>t, <2>1 DEF FanLock
  <2>3. /\ Http!Coming(s) = {emitted} /\ Http!Coming(s)' = {}
        /\ \A q \in Subs \ {s} : Http!Coming(q)' = Http!Coming(q)
    BY <2>1, <2>2 DEF Http!Coming
  <2>4. /\ \A q \in Subs \ {s} : buffer'[q] = buffer[q] /\ dropped'[q] = dropped[q]
        /\ \A q \in Subs \ {s} : Http!Frames(q)' = Http!Frames(q)
    BY <1>2, <1>t, <2>1 DEF Http!Send, FanTypes, Http!Frames
  <2>5. \/ Http!Room(s) /\ buffer'[s] = Append(buffer[s], emitted) /\ dropped'[s] = dropped[s]
        \/ ~Http!Room(s) /\ buffer'[s] = buffer[s] /\ dropped'[s] = dropped[s] \cup {emitted}
    BY <1>2, <1>t DEF Http!Send, FanTypes
  <2>6. FanTypes'
    <3>1. Append(buffer[s], emitted) \in Seq(Nat) /\ dropped[s] \cup {emitted} \in SUBSET Nat
      BY <1>t, <2>1 DEF FanTypes
    <3>2. buffer' \in [Subs -> Seq(Nat)] /\ dropped' \in [Subs -> SUBSET Nat]
      BY <1>2, <1>t, <3>1 DEF Http!Send, FanTypes
    <3> QED
      BY <1>t, <2>1, <3>2 DEF FanTypes
  <2>7. FanLock'
    <3>1. left' \in [Emitters -> SUBSET Subs] /\ \A d \in Emitters : left'[d] # {} => mu' = d
      BY <1>t, <2>1, <2>2 DEF FanLock
    <3>2. ASSUME NEW d \in Emitters, NEW q \in left'[d]
          PROVE  tabs'[q] = "open" /\ since'[q] <= emitted' /\ emitted' # 0 /\ emitted' \notin dropped'[q]
      <4>1. q \in left[d] /\ q # s /\ q \in Subs
        BY <1>t, <2>2 DEF FanLock
      <4> QED
        BY <1>t, <2>1, <2>4, <4>1 DEF FanLock
    <3> QED
      BY <3>1, <3>2 DEF FanLock
  <2>8. F = got[s] \o buffer[s] /\ G = got[s] \o buffer'[s]
    BY <2>1 DEF Http!Frames
  <2>a. /\ since[s] \in Nat /\ dropped[s] \subseteq 1..emitted
        /\ \A i \in DOMAIN F : F[i] \in 1..emitted /\ F[i] # emitted
        /\ \A i, j \in DOMAIN F : i < j => F[i] < F[j]
        /\ {F[i] : i \in DOMAIN F} = (since[s]..emitted) \ (dropped[s] \cup {emitted})
        /\ dropped[s] # {} => Len(F) >= Buffer
    <3>1. {F[i] : i \in DOMAIN F} = (since[s]..emitted) \ (dropped[s] \cup {emitted})
      BY <1>o, <2>1, <2>3
    <3>2. \A i \in DOMAIN F : F[i] # emitted
      BY <3>1
    <3> HIDE DEF F
    <3> QED
      BY <1>o, <3>1, <3>2 DEF F
  <2>9. /\ dropped'[s] \subseteq 1..emitted
        /\ \A i \in DOMAIN G : G[i] \in 1..emitted
        /\ \A i, j \in DOMAIN G : i < j => G[i] < G[j]
        /\ {G[i] : i \in DOMAIN G} = (since[s]..emitted) \ dropped'[s]
        /\ dropped'[s] # {} => Len(G) >= Buffer
    <3>1. CASE Http!Room(s) /\ buffer'[s] = Append(buffer[s], emitted) /\ dropped'[s] = dropped[s]
      <4>1. OneMore(F, G, emitted)
        <5>1. got[s] \in Seq(Nat) /\ buffer[s] \in Seq(Nat) /\ emitted \in Nat
          BY <2>1
        <5>2. OneMore(got[s] \o buffer[s], got[s] \o Append(buffer[s], emitted), emitted)
          BY <5>1, Entered, Zenon
        <5> QED
          BY <2>8, <3>1, <5>2, Zenon
      <4> HIDE DEF F, G
      <4>2. /\ DOMAIN F = 1..Len(F) /\ Len(F) \in Nat /\ DOMAIN G = 1..(Len(F) + 1)
            /\ \A i \in 1..Len(F) : G[i] = F[i]
            /\ G[Len(F) + 1] = emitted /\ Len(G) = Len(F) + 1
        BY <4>1 DEF OneMore
      <4>3. \A i \in DOMAIN G : G[i] \in 1..emitted
        BY <2>1, <2>a, <4>2
      <4>4. ASSUME NEW i \in DOMAIN G, NEW j \in DOMAIN G, i < j PROVE G[i] < G[j]
        <5>1. i \in 1..Len(F) /\ G[i] = F[i] /\ F[i] \in 1..emitted /\ F[i] # emitted
          BY <2>a, <4>2, <4>4
        <5>2. CASE j = Len(F) + 1
          BY <2>1, <4>2, <5>1, <5>2
        <5>3. CASE j # Len(F) + 1
          <6>1. j \in 1..Len(F) /\ G[j] = F[j]
            BY <4>2, <5>3
          <6> QED
            BY <2>a, <4>2, <4>4, <5>1, <6>1
        <5> QED
          BY <5>2, <5>3
      <4>5. {G[i] : i \in DOMAIN G} = {F[i] : i \in DOMAIN F} \cup {emitted}
        BY <4>2
      <4>6. (since[s]..emitted) \ dropped[s] = ((since[s]..emitted) \ (dropped[s] \cup {emitted})) \cup {emitted}
        BY <2>1, <2>a
      <4>7. dropped[s] # {} => Len(G) >= Buffer
        BY <2>a, <4>2, FrontsAssumption
      <4> QED
        BY <2>a, <3>1, <4>3, <4>4, <4>5, <4>6, <4>7
    <3>2. CASE ~Http!Room(s) /\ buffer'[s] = buffer[s] /\ dropped'[s] = dropped[s] \cup {emitted}
      <4>1. G = F
        BY <2>8, <3>2
      <4>2. Len(F) >= Buffer
        <5>1. ~(Len(buffer[s]) < Buffer) /\ Len(buffer[s]) \in Nat /\ Len(got[s]) \in Nat
              /\ Len(F) = Len(got[s]) + Len(buffer[s])
          BY <2>1, <2>8, <3>2 DEF Http!Room
        <5>2. \A a, b \in Nat : ~(b < Buffer) => a + b >= Buffer
          BY FrontsAssumption
        <5> HIDE DEF F
        <5> QED
          BY <5>1, <5>2
      <4> HIDE DEF F, G
      <4> QED
        BY <2>1, <2>a, <3>2, <4>1, <4>2
    <3> QED
      BY <2>5, <3>1, <3>2
  <2> HIDE DEF F, G
  <2>b. FanFrames'
    <3>1. ASSUME NEW q \in Subs
          PROVE  /\ since'[q] <= emitted' + 1 /\ dropped'[q] \subseteq 1..emitted'
                 /\ \A i \in DOMAIN Http!Frames(q)' : Http!Frames(q)'[i] \in 1..emitted'
                 /\ tabs'[q] = "new" => got'[q] = <<>> /\ buffer'[q] = <<>> /\ dropped'[q] = {}
      <4>1. CASE q = s
        <5>1. since[s] <= emitted + 1
          BY <2>1, <2>a
        <5>2. since'[s] <= emitted' + 1 /\ tabs'[s] = "open" /\ dropped'[s] \subseteq 1..emitted'
          BY <2>1, <2>9, <5>1
        <5>3. \A i \in DOMAIN Http!Frames(s)' : Http!Frames(s)'[i] \in 1..emitted'
          BY <2>1, <2>9 DEF G
        <5> QED
          BY <4>1, <5>2, <5>3
      <4>2. CASE q # s
        BY <1>o, <2>1, <2>4, <4>2
      <4> QED
        BY <4>1, <4>2
    <3> QED
      BY <3>1 DEF FanFrames
  <2>c. Http!InOrder'
    <3>1. ASSUME NEW q \in Subs
          PROVE  /\ \A i, j \in DOMAIN Http!Frames(q)' : i < j => Http!Frames(q)'[i] < Http!Frames(q)'[j]
                 /\ tabs'[q] = "open" =>
                      {Http!Frames(q)'[i] : i \in DOMAIN Http!Frames(q)'} =
                        (since'[q]..emitted') \ (dropped'[q] \cup Http!Coming(q)')
                 /\ dropped'[q] # {} => Len(Http!Frames(q)') >= Buffer
      <4>1. CASE q = s
        BY <2>1, <2>3, <2>9, <4>1 DEF G
      <4>2. CASE q # s
        BY <1>o, <2>1, <2>3, <2>4, <4>2
      <4> QED
        BY <4>1, <4>2
    <3> QED
      BY <3>1 DEF Http!InOrder
  <2> QED
    BY <2>6, <2>7, <2>b, <2>c DEF FanInv
<1>3. ASSUME NEW e \in Emitters, Http!Unlock(e) PROVE FanInv'
  <2>1. /\ mu = e /\ left[e] = {} /\ UNCHANGED <<left, emitted, tabs, since, buffer, got, dropped>>
    BY <1>3 DEF Http!Unlock
  <2>2. \A s \in Subs : Http!Frames(s)' = Http!Frames(s) /\ Http!Coming(s)' = Http!Coming(s)
    BY <2>1 DEF Http!Frames, Http!Coming
  <2>3. FanTypes' /\ FanFrames' /\ Http!InOrder'
    BY <1>t, <2>1, <2>2 DEF FanTypes, FanFrames, Http!InOrder
  <2>4. FanLock'
    BY <1>t, <2>1 DEF FanLock
  <2> QED
    BY <2>3, <2>4 DEF FanInv
<1>4. ASSUME NEW s \in Subs, Http!Subscribe(s) PROVE FanInv'
  <2>1. /\ Http!Alone /\ tabs[s] = "new" /\ tabs' = [tabs EXCEPT ![s] = "open"]
        /\ since' = [since EXCEPT ![s] = emitted + 1]
        /\ UNCHANGED <<left, emitted, buffer, got, dropped>> /\ emitted \in Nat
    BY <1>4, <1>t DEF Http!Subscribe, FanTypes
  <2>2. FanTypes'
    BY <1>t, <2>1 DEF FanTypes
  <2>3. \A q \in Subs : /\ Http!Frames(q)' = Http!Frames(q)
                        /\ Http!Coming(q)' = {} /\ Http!Coming(q) = {}
    BY <1>f, <2>1 DEF Http!Frames, Http!Coming
  <2>4. FanFrames'
    BY <1>t, <2>1, <2>3 DEF FanFrames, FanTypes
  <2>5. FanLock'
    BY <1>f, <1>t, <2>1 DEF FanLock
  <2>6. Http!Frames(s) = <<>> /\ dropped[s] = {} /\ (emitted + 1)..emitted = {}
    BY <1>t, <2>1 DEF FanFrames, Http!Frames, FanTypes
  <2>7. Http!InOrder'
    <3>1. since'[s] = emitted + 1 /\ \A q \in Subs \ {s} : since'[q] = since[q] /\ tabs'[q] = tabs[q]
      BY <1>t, <2>1 DEF FanTypes
    <3> QED
      BY <1>t, <2>1, <2>3, <2>6, <3>1 DEF Http!InOrder
  <2> QED
    BY <2>2, <2>4, <2>5, <2>7 DEF FanInv
<1>5. ASSUME NEW s \in Subs, Http!Receive(s) PROVE FanInv'
  <2>1. /\ buffer[s] # <<>> /\ buffer[s] \in Seq(Nat) /\ got[s] \in Seq(Nat) /\ tabs[s] = "open"
        /\ got' = [got EXCEPT ![s] = Append(got[s], buffer[s][1])]
        /\ buffer' = [buffer EXCEPT ![s] = Tail(buffer[s])]
        /\ UNCHANGED <<mu, left, emitted, tabs, since, dropped>>
    BY <1>5, <1>t DEF Http!Receive, FanTypes
  <2>2. /\ Append(got[s], buffer[s][1]) \o Tail(buffer[s]) = got[s] \o buffer[s]
        /\ Append(got[s], buffer[s][1]) \in Seq(Nat) /\ Tail(buffer[s]) \in Seq(Nat)
    BY <2>1, Moved
  <2>3. FanTypes'
    BY <1>t, <2>1, <2>2 DEF FanTypes
  <2>4. \A q \in Subs : Http!Frames(q)' = Http!Frames(q)
    BY <1>t, <2>1, <2>2 DEF Http!Frames, FanTypes
  <2>5. FanFrames'
    BY <1>t, <2>1, <2>4 DEF FanFrames, FanTypes
  <2>6. FanLock' /\ \A q \in Subs : Http!Coming(q)' = Http!Coming(q)
    BY <1>t, <2>1 DEF FanLock, Http!Coming
  <2>7. Http!InOrder'
    BY <1>t, <2>1, <2>4, <2>6 DEF Http!InOrder
  <2> QED
    BY <2>3, <2>5, <2>6, <2>7 DEF FanInv
<1>6. ASSUME NEW s \in Subs, Http!Unsubscribe(s) PROVE FanInv'
  <2>1. /\ Http!Alone /\ tabs[s] = "open" /\ tabs' = [tabs EXCEPT ![s] = "closed"]
        /\ UNCHANGED <<left, emitted, since, buffer, got, dropped>>
    BY <1>6 DEF Http!Unsubscribe
  <2>2. FanTypes'
    BY <1>t, <2>1 DEF FanTypes
  <2>3. \A q \in Subs : Http!Frames(q)' = Http!Frames(q) /\ Http!Coming(q)' = Http!Coming(q)
    BY <2>1 DEF Http!Frames, Http!Coming
  <2>4. FanFrames'
    BY <1>t, <2>1, <2>3 DEF FanFrames, FanTypes
  <2>5. FanLock'
    BY <1>f, <1>t, <2>1 DEF FanLock
  <2>6. \A q \in Subs : tabs'[q] = "open" => tabs[q] = "open"
    BY <1>t, <2>1 DEF FanTypes
  <2>7. Http!InOrder'
    BY <1>t, <2>1, <2>3, <2>6 DEF Http!InOrder
  <2> QED
    BY <2>2, <2>4, <2>5, <2>7 DEF FanInv
<1>7. CASE UNCHANGED Http!fanVars
  <2>1. UNCHANGED <<mu, left, emitted, tabs, since, buffer, got, dropped>>
    BY <1>7 DEF Http!fanVars
  <2>2. \A s \in Subs : Http!Frames(s)' = Http!Frames(s) /\ Http!Coming(s)' = Http!Coming(s)
    BY <2>1 DEF Http!Frames, Http!Coming
  <2>3. FanTypes' /\ FanFrames' /\ Http!InOrder'
    BY <1>t, <2>1, <2>2 DEF FanTypes, FanFrames, Http!InOrder
  <2>4. FanLock'
    BY <1>t, <2>1 DEF FanLock
  <2> QED
    BY <2>3, <2>4 DEF FanInv
<1>8. ASSUME NEW e \in Emitters, NEW s \in Subs, Http!Send(e, s) PROVE FanInv'
  BY <1>2, <1>8
<1> QED
  BY <1>1, <1>3, <1>4, <1>5, <1>6, <1>7, <1>8 DEF Http!FanNext

(* A frame goes only to a subscriber whose channel is open, though Emit    *)
(* goes from one to the next in steps of their own.                        *)
LEMMA FanSends ==
  FanInv /\ [Http!FanNext]_(Http!fanVars) => [\A s \in Subs : tabs[s] = "closed" =>
    buffer'[s] = buffer[s]]_(Http!fanVars)
<1> SUFFICES ASSUME FanInv, Http!FanNext, NEW s \in Subs,
                      tabs[s] = "closed" PROVE buffer'[s] = buffer[s]
  OBVIOUS
<1>1. ASSUME NEW e \in Emitters, NEW q \in Subs, Http!Send(e, q) PROVE buffer'[s] = buffer[s]
  <2>1. tabs[q] = "open" /\ q # s
    BY <1>1 DEF Http!Send, FanInv, FanLock
  <2> QED
    BY <1>1, <2>1 DEF Http!Send, FanInv, FanTypes
<1>2. ASSUME NEW q \in Subs, Http!Subscribe(q) \/ Http!Unsubscribe(q) PROVE buffer'[s] = buffer[s]
  BY <1>2 DEF Http!Subscribe, Http!Unsubscribe
<1>3. ASSUME NEW q \in Subs, Http!Receive(q) PROVE buffer'[s] = buffer[s]
  BY <1>3 DEF Http!Receive, FanInv, FanTypes
<1>4. ASSUME NEW e \in Emitters, Http!Lock(e) \/ Http!Unlock(e) PROVE buffer'[s] = buffer[s]
  BY <1>4 DEF Http!Lock, Http!Unlock
<1> QED
  BY <1>1, <1>2, <1>3, <1>4 DEF Http!FanNext

-----------------------------------------------------------------------------
(* The frontends side by side.                                             *)

LEMMA FrontsParts ==
  MCSpec => /\ Tui!Init /\ [][Tui!Next]_(Tui!vars)
            /\ Http!Init /\ [][Http!Next]_(Http!vars)
            /\ Http!FanInit /\ [][Http!FanNext]_(Http!fanVars)
<1>1. MCInit => Tui!Init /\ Http!Init /\ Http!FanInit
  BY DEF MCInit
<1>2. [MCNext]_mcVars => [Tui!Next]_(Tui!vars)
  BY DEF MCNext, mcVars, tuiVars, Tui!vars, Tui!loop, Tui!controller
<1>3. [MCNext]_mcVars => [Http!Next]_(Http!vars)
  BY DEF MCNext, mcVars, httpVars, Http!vars, Http!server, Http!session, Http!prompts,
     Http!requests
<1>4. [MCNext]_mcVars => [Http!FanNext]_(Http!fanVars)
  BY DEF MCNext, mcVars, fanVars, Http!fanVars
<1> QED
  BY <1>1, <1>2, <1>3, <1>4, PTL DEF MCSpec

LEMMA FrontsInvariant == MCSpec => []TuiInv /\ []ServeInv /\ []FanInv
BY FrontsParts, TuiInit, TuiStep, ServeInit, ServeStep, FanInitially, FanStep, PTL

(* Until a turn is begun or refused behind its back, what the terminal     *)
(* shows of a turn is what the turn said, in order, and nothing of a turn  *)
(* that was un-sent (cli/chat_tui.go ingestEvent, cli/chat_turn.go         *)
(* unsendPending); a tab gets the frames in the order they were emitted    *)
(* and misses only those that met its full buffer (serve/broadcaster.go).  *)
THEOREM ViewsAreTrue == MCSpec => []ViewIsTrue
<1>1. TuiInv /\ FanInv => ViewIsTrue
  BY TuiHolds DEF FanInv, ViewIsTrue
<1> QED
  BY <1>1, FrontsInvariant, PTL

(* A turn that runs while the terminal calls itself idle was begun while   *)
(* the TurnDone of an earlier one was unread, the terminal is busy only    *)
(* while a turn runs or a TurnDone is to come, a prompt it shows is the    *)
(* one the run goroutine waits for unless its turn has been cancelled      *)
(* (cli/chat_tui.go, chat_commands.go, chat_approval.go), and an answer    *)
(* sent by a tab decides the prompt it was given to, as long as no switch  *)
(* has put another controller in its place (serve/serve.go approve).       *)
THEOREM CommandsMeet == MCSpec => []CommandsMeetTheirTurn
<1>1. TuiInv /\ ServeInv => CommandsMeetTheirTurn
  BY TuiHolds DEF ServeInv, ServePrompts, CommandsMeetTheirTurn
<1> QED
  BY <1>1, FrontsInvariant, PTL

(* However many switches of models overlap each other and the turns, the   *)
(* current controller has every prompt but those that joined a             *)
(* conversation after a switch had read it, the steps from running to      *)
(* joining included, and every controller built is current, about to be,   *)
(* retiring or closed (serve/serve.go switchModel, control/controller.go   *)
(* runGuarded, runMessageWithRaw).                                         *)
THEOREM SwitchesAreClean == MCSpec => []SwitchIsClean
<1>1. ServeInv => SwitchIsClean
  BY DEF ServeInv, ServeCarries, Carried, ServeSwaps, SwitchIsClean, Http!ConversationCarried
<1> QED
  BY <1>1, FrontsInvariant, PTL

(* No frame is sent into the channel of a subscriber that has gone, however *)
(* its leaving falls among the sends of any emitter: only the holder of    *)
(* b.mu has subscribers left to serve, and they stay open until it lets go *)
(* (serve/broadcaster.go Emit, Subscribe).                                 *)
THEOREM NothingAfterGone == MCSpec => NothingForTheGone
BY FrontsParts, FrontsInvariant, FanSends, PTL
   DEF NothingForTheGone, Http!NoSendAfterClose
=============================================================================
