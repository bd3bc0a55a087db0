----------------------------- MODULE TodoSteps -----------------------------
(***************************************************************************)
(* The task list and its sign-offs (evidence/evidence.go, todo_write and   *)
(* complete_step of tool/builtin): a ledger of the successful calls of one *)
(* user turn; a step is signed off against the latest list, and a list may *)
(* complete an item only if the list before had it completed or a sign-off *)
(* names it.  Items are their texts; activeForm is another such text.      *)
(***************************************************************************)
EXTENDS Naturals, Sequences, SequencesExt, FiniteSets, TLC

CONSTANTS
  Texts,        \* what an item or a step may be called
  MaxItems,     \* bound: items of a list
  MaxReceipts   \* bound: receipts of a turn

VARIABLES
  ledger,       \* Ledger.receipts: lists and sign-offs that succeeded
  signed,       \* history: the texts signed off while a list named them
  early,        \* history: the steps signed off before there was a list
  unproved      \* history: items completed against a baseline with no proof

vars == <<ledger, signed, early, unproved>>

Status == {"pending", "in_progress", "completed"}
Lists == UNION {[1..n -> [text : Texts, status : Status]] : n \in 1..MaxItems}
Steps == Texts \cup {ToString(n) : n \in 1..MaxItems}
NoMatch == [found |-> FALSE, at |-> 0, text |-> "", status |-> "pending"]
TodoWrite(list) == [tool |-> "todo_write", list |-> list, step |-> "", todo |-> NoMatch]
Sign(step, m) == [tool |-> "complete_step", list |-> <<>>, step |-> step, todo |-> m]

Init == ledger = <<>> /\ signed = {} /\ early = {} /\ unproved = {}

-----------------------------------------------------------------------------
(* Matching                                                                *)

Named(step, list) ==
  {i \in DOMAIN list : ToString(i) = step \/ list[i].text = step}

\* A number within the list wins over a text; then the first of that text.
MatchTodoStep(step, list) ==
  LET byNumber == {i \in DOMAIN list : ToString(i) = step}
      hits == IF byNumber # {} THEN byNumber ELSE Named(step, list)
  IN IF hits = {} THEN NoMatch
     ELSE LET i == CHOOSE i \in hits : \A j \in hits : i <= j
          IN [found |-> TRUE, at |-> i, text |-> list[i].text, status |-> list[i].status]

ListsIn(l) == {i \in DOMAIN l : l[i].tool = "todo_write"}
HasList(l) == ListsIn(l) # {}
Latest(l) == l[CHOOSE i \in ListsIn(l) : \A j \in ListsIn(l) : j <= i].list

WasCompleted(item, list) == \E i \in DOMAIN list : list[i] = [item EXCEPT !.status = "completed"]

SignedOff(i, list) ==
  \E k \in DOMAIN ledger :
    /\ ledger[k].tool = "complete_step"
    /\ IF ledger[k].todo.found
       THEN ledger[k].todo.text = list[i].text
       ELSE MatchTodoStep(ledger[k].step, list).at = i

Unverified(list) ==
  {i \in DOMAIN list : /\ list[i].status = "completed"
                       /\ ~WasCompleted(list[i], Latest(ledger))
                       /\ ~SignedOff(i, list)}

-----------------------------------------------------------------------------
(* The tools; a call that is refused leaves no successful receipt          *)

Write(list) ==
  /\ Len(ledger) < MaxReceipts
  /\ IF HasList(ledger) /\ Unverified(list) # {}
     THEN UNCHANGED <<ledger, unproved>>
     ELSE /\ ledger' = Append(ledger, TodoWrite(list))
          /\ unproved' = IF ~HasList(ledger) THEN unproved ELSE
               {list[i].text : i \in {i \in DOMAIN list :
                  /\ list[i].status = "completed"
                  /\ ~WasCompleted(list[i], Latest(ledger))
                  /\ list[i].text \notin signed
                  /\ early \cap {list[i].text, ToString(i)} = {}}} \cup unproved
  /\ UNCHANGED <<signed, early>>

Signable(m) == m.found /\ m.status # "pending"

\* The evidence itself is checked against the ledger too (see AgentTurn).
CompleteStep(step) ==
  /\ Len(ledger) < MaxReceipts
  /\ IF ~HasList(ledger)
     THEN /\ early' = early \cup {step}
          /\ ledger' = Append(ledger, Sign(step, NoMatch))
          /\ UNCHANGED signed
     ELSE LET m == MatchTodoStep(step, Latest(ledger)) IN
            /\ ledger' = IF Signable(m) THEN Append(ledger, Sign(step, m)) ELSE ledger
            /\ signed' = IF Signable(m) THEN signed \cup {m.text} ELSE signed
            /\ UNCHANGED early
  /\ UNCHANGED unproved

\* Reset, at the start of a user turn.
NewTurn == ledger' = <<>> /\ signed' = {} /\ early' = {} /\ unproved' = {}

Next ==
  \/ \E list \in Lists : Write(list)
  \/ \E step \in Steps : CompleteStep(step)
  \/ NewTurn

Spec == Init /\ [][Next]_vars

-----------------------------------------------------------------------------
(* Within a turn that has a list, nothing becomes completed that was not   *)
(* signed off: each item newly completed was named by a sign-off accepted  *)
(* while the list had it under way, or by one accepted before any list.    *)
CompletedWasSigned == unproved = {}

(* A sign-off stands for the item it matched when it was given, however    *)
(* the list is reordered later, and that item was not pending then.        *)
SignOffsStay ==
  \A k \in DOMAIN ledger :
    ledger[k].todo.found =>
      /\ ledger[k].todo.text \in signed
      /\ \E j \in 1..k-1 : ledger[j].tool = "todo_write" /\ \E i \in DOMAIN ledger[j].list :
           ledger[j].list[i].text = ledger[k].todo.text /\ ledger[j].list[i].status # "pending"

(* Claimed: a sign-off names one step.  One given by number before there   *)
(* was a list completes whatever stands at that number in any later list.  *)
OneStepPerSignOff ==
  \A k \in DOMAIN ledger :
    ledger[k].tool = "complete_step" /\ ~ledger[k].todo.found =>
      Cardinality({t \in Texts : \E j \in ListsIn(ledger) : \E i \in DOMAIN ledger[j].list :
        ledger[j].list[i].text = t /\ i \in Named(ledger[k].step, ledger[j].list)}) <= 1
=============================================================================
