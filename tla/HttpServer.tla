----------------------------- MODULE HttpServer -----------------------------
(***************************************************************************)
(* The HTTP frontend (serve/serve.go): several tabs drive one session, a   *)
(* request is a goroutine that reads the controller pointer and then acts  *)
(* on it, and a model switch builds another controller and swaps the       *)
(* pointer.  A controller is abstracted to its conversation, its running   *)
(* turn and the one prompt it may be waiting for.                          *)
(*   Beside the requests, and without state in common with them, stands    *)
(* the fan-out of the event stream to the tabs (serve/broadcaster.go).     *)
(***************************************************************************)
EXTENDS Integers, Sequences, FiniteSets

CONSTANTS
  Submits,    \* POST /submit, one prompt each
  Switches,   \* POST /model, or "/model <ref>" submitted
  Approvals,  \* POST /approve: an answer some tab sends to a prompt it shows
  MaxAsks,    \* bound: prompts of one controller
  Subs,       \* SSE requests
  Emitters,   \* goroutines that emit: a turn, its parallel calls, background jobs
  Buffer,     \* size of a subscriber's channel (64 in the code)
  MaxFrames   \* bound: frames emitted

VARIABLES
  ctrl,       \* Server.ctrl
  built,      \* controllers built so far
  history,    \* per controller, the prompts of its conversation
  turn,       \* per controller, the prompt of the running turn
  asked,      \* per controller, its counter of prompt ids
  waiting,    \* per controller, whether a prompt waits for an answer
  closed,     \* controllers closed
  retiring,   \* controllers a goroutine waits to close
  saved,      \* the session file, which all of them share
  req, has, carry,   \* the requests: where they stand, the controller, the carried history
  shown,      \* prompts some tab displays: [c: controller, id: number]
  click,      \* the prompt each approval was clicked on
  decided,    \* history: prompts decided, with the prompt that was clicked
  raced,      \* history: prompts that joined a conversation a switch had read already
  \* The fan-out:
  mu,         \* the emitter that holds b.mu, or Nobody
  left,       \* per emitter, the subscribers its frame has not been offered to yet
  emitted,    \* frames so far
  tabs,       \* per subscriber: new, open (in b.subs), closed
  since,      \* the first frame it can get
  buffer,     \* its channel
  got,        \* the frames its client has received
  dropped     \* history: frames that met a full buffer

server == <<ctrl, built, closed, retiring>>
session == <<history, turn, saved, raced>>
prompts == <<asked, waiting, shown, click, decided>>
requests == <<req, has, carry>>
vars == <<server, session, prompts, requests>>
fanVars == <<mu, left, emitted, tabs, since, buffer, got, dropped>>

Requests == Submits \cup Switches \cup Approvals
Controllers == 1..(Cardinality(Switches) + 1)
Idle == "idle"
NoPrompt == [c |-> 0, id |-> 0]

Init ==
  /\ ctrl = 1 /\ built = 1 /\ closed = {} /\ retiring = {}
  /\ history = [c \in Controllers |-> {}] /\ turn = [c \in Controllers |-> Idle]
  /\ asked = [c \in Controllers |-> 0] /\ waiting = [c \in Controllers |-> FALSE]
  /\ saved = {} /\ raced = {}
  /\ req = [r \in Requests |-> "new"] /\ has = [r \in Requests |-> 0]
  /\ carry = [r \in Switches |-> {}]
  /\ shown = {} /\ click = [r \in Approvals |-> NoPrompt] /\ decided = {}

Goto(r, l) == req' = [req EXCEPT ![r] = l]

-----------------------------------------------------------------------------
(* getCtrl, then the controller's method                                   *)

GetCtrl(r) ==
  /\ req[r] = "new"
  /\ has' = [has EXCEPT ![r] = ctrl]
  /\ Goto(r, "has")
  /\ IF r \in Approvals
     THEN \E p \in shown : click' = [click EXCEPT ![r] = p]
     ELSE UNCHANGED click
  /\ UNCHANGED <<server, session, asked, waiting, shown, decided, carry>>

\* runGuarded: a no-op while a turn runs, though the client is told 202.
Submit(r) ==
  /\ r \in Submits /\ req[r] = "has"
  /\ turn' = IF turn[has[r]] = Idle THEN [turn EXCEPT ![has[r]] = r] ELSE turn
  /\ Goto(r, "done")
  /\ UNCHANGED <<server, history, raced, prompts, saved, has, carry>>

\* A switch under way that will not carry what joins c's conversation now.
Missed(c) ==
  \/ c # ctrl
  \/ \E r \in Switches : req[r] \in {"snap", "build", "swap"}
                         \/ (req[r] \in {"has", "carry"} /\ has[r] # c)

Recorded(c) == turn[c] \in history[c]

\* The prompt joins the conversation in the turn's goroutine, after Compose,
\* the checkpoint and the PromptSubmit hook.
Record(c) ==
  /\ turn[c] # Idle /\ ~Recorded(c)
  /\ history' = [history EXCEPT ![c] = @ \cup {turn[c]}]
  /\ raced' = IF Missed(c) THEN raced \cup {turn[c]} ELSE raced
  /\ UNCHANGED <<server, turn, saved, prompts, requests>>

\* The turn waits for the answer to one prompt at a time (promptMu).
Ask(c) ==
  /\ turn[c] # Idle /\ Recorded(c) /\ ~waiting[c] /\ asked[c] < MaxAsks
  /\ asked' = [asked EXCEPT ![c] = @ + 1]
  /\ waiting' = [waiting EXCEPT ![c] = TRUE]
  /\ shown' = shown \cup {[c |-> c, id |-> asked[c] + 1]}
  /\ UNCHANGED <<server, session, click, decided, requests>>

AnyId(c, id) == waiting[c]             \* mutant: the id is not compared
Pending(c, id) == waiting[c] /\ asked[c] = id

\* An id that is not pending is ignored; ids count up per controller.
Approve(r) ==
  /\ r \in Approvals /\ req[r] = "has"
  /\ LET c == has[r] IN
       IF Pending(c, click[r].id)
       THEN /\ waiting' = [waiting EXCEPT ![c] = FALSE]
            /\ decided' = decided \cup {[prompt |-> [c |-> c, id |-> asked[c]], click |-> click[r]]}
       ELSE UNCHANGED <<waiting, decided>>
  /\ Goto(r, "done")
  /\ UNCHANGED <<server, session, asked, shown, click, has, carry>>

\* A cancelled turn, too, drops its prompt and saves its conversation; one
\* the PromptSubmit hook blocks ends before its prompt joins.
EndTurn(c) ==
  /\ turn[c] # Idle
  /\ turn' = [turn EXCEPT ![c] = Idle]
  /\ waiting' = [waiting EXCEPT ![c] = FALSE]
  /\ saved' = IF Recorded(c) THEN history[c] ELSE saved
  /\ UNCHANGED <<server, history, raced, asked, shown, click, decided, requests>>

-----------------------------------------------------------------------------
(* switchModel                                                             *)

MaySwitch(c) == turn[c] = Idle

Check(r) ==
  /\ r \in Switches /\ req[r] = "has"
  /\ Goto(r, IF MaySwitch(has[r]) THEN "carry" ELSE "done")
  /\ UNCHANGED <<server, session, prompts, has, carry>>

Carry(r) ==
  /\ req[r] = "carry"
  /\ carry' = [carry EXCEPT ![r] = history[has[r]]]
  /\ Goto(r, "snap")
  /\ UNCHANGED <<server, session, prompts, has>>

\* What joined the conversation since Carry read it is saved, not carried.
Snapshot(r) ==
  /\ req[r] = "snap"
  /\ saved' = history[has[r]]
  /\ Goto(r, "build")
  /\ UNCHANGED <<server, history, turn, raced, prompts, has, carry>>

Build(r) ==
  /\ req[r] = "build"
  /\ \/ /\ built' = built + 1
        /\ history' = [history EXCEPT ![built + 1] = carry[r]]
        /\ has' = [has EXCEPT ![r] = built + 1]
        /\ Goto(r, "swap")
     \/ Goto(r, "done") /\ UNCHANGED <<built, history, has>>
  /\ UNCHANGED <<ctrl, closed, retiring, turn, saved, raced, prompts, carry>>

LoseOld(c) == retiring                 \* mutant: the old one is not handed over
Retire(c) == retiring \cup {c}

\* The controller swapped out, not the one looked at, is the one retired.
Swap(r) ==
  /\ req[r] = "swap"
  /\ ctrl' = has[r]
  /\ retiring' = Retire(ctrl)
  /\ Goto(r, "done")
  /\ UNCHANGED <<built, closed, session, prompts, has, carry>>

\* Polled every 100 ms; Running and Close are two steps only for a racer.
CloseOld(c) ==
  /\ c \in retiring /\ turn[c] = Idle
  /\ closed' = closed \cup {c}
  /\ retiring' = retiring \ {c}
  /\ UNCHANGED <<ctrl, built, session, prompts, requests>>

Handler(r) ==
  \/ Submit(r) \/ Approve(r) \/ Check(r)
  \/ r \in Switches /\ (Carry(r) \/ Snapshot(r) \/ Build(r) \/ Swap(r))

Next ==
  \/ \E r \in Requests : GetCtrl(r) \/ Handler(r)
  \/ \E c \in Controllers : Record(c) \/ Ask(c) \/ EndTurn(c) \/ CloseOld(c)

Spec == Init /\ [][Next]_vars

(* Handlers and the closing goroutine run; nobody must end a turn.         *)
Fairness ==
  /\ \A r \in Requests : WF_vars(Handler(r))
  /\ \A c \in Controllers : WF_vars(CloseOld(c))

-----------------------------------------------------------------------------
(* The fan-out: Emit holds b.mu while it offers its frame to one channel   *)
(* after the other, and never waits for any: a subscriber whose buffer is  *)
(* full misses the frame.  A client reads its channel without the lock.    *)

Nobody == "nobody"

FanInit ==
  /\ mu = Nobody /\ left = [e \in Emitters |-> {}]
  /\ emitted = 0 /\ tabs = [s \in Subs |-> "new"] /\ since = [s \in Subs |-> 1]
  /\ buffer = [s \in Subs |-> <<>>] /\ got = [s \in Subs |-> <<>>]
  /\ dropped = [s \in Subs |-> {}]

Anyhow == TRUE                         \* mutant: b.mu is not taken
Alone == mu = Nobody

Open == {s \in Subs : tabs[s] = "open"}

Lock(e) ==
  /\ Alone /\ left[e] = {} /\ emitted < MaxFrames
  /\ mu' = e
  /\ emitted' = emitted + 1
  /\ left' = [left EXCEPT ![e] = Open]
  /\ UNCHANGED <<tabs, since, buffer, got, dropped>>

Room(s) == Len(buffer[s]) < Buffer

Send(e, s) ==
  /\ s \in left[e]
  /\ left' = [left EXCEPT ![e] = @ \ {s}]
  /\ \/ Room(s) /\ buffer' = [buffer EXCEPT ![s] = Append(@, emitted)] /\ UNCHANGED dropped
     \/ ~Room(s) /\ dropped' = [dropped EXCEPT ![s] = @ \cup {emitted}] /\ UNCHANGED buffer
  /\ UNCHANGED <<mu, emitted, tabs, since, got>>

Unlock(e) ==
  /\ mu = e /\ left[e] = {}
  /\ mu' = Nobody
  /\ UNCHANGED <<left, emitted, tabs, since, buffer, got, dropped>>

Subscribe(s) ==
  /\ Alone /\ tabs[s] = "new"
  /\ tabs' = [tabs EXCEPT ![s] = "open"]
  /\ since' = [since EXCEPT ![s] = emitted + 1]
  /\ UNCHANGED <<mu, left, emitted, buffer, got, dropped>>

Receive(s) ==
  /\ buffer[s] # <<>> /\ tabs[s] = "open"
  /\ got' = [got EXCEPT ![s] = Append(@, buffer[s][1])]
  /\ buffer' = [buffer EXCEPT ![s] = Tail(@)]
  /\ UNCHANGED <<mu, left, emitted, tabs, since, dropped>>

\* The client disconnects: its channel is closed, and what is buffered is
\* never written.
Unsubscribe(s) ==
  /\ Alone /\ tabs[s] = "open"
  /\ tabs' = [tabs EXCEPT ![s] = "closed"]
  /\ UNCHANGED <<mu, left, emitted, since, buffer, got, dropped>>

FanNext ==
  \/ \E e \in Emitters : Lock(e) \/ Unlock(e) \/ \E s \in Subs : Send(e, s)
  \/ \E s \in Subs : Subscribe(s) \/ Receive(s) \/ Unsubscribe(s)

FanSpec == FanInit /\ [][FanNext]_fanVars

-----------------------------------------------------------------------------
(* The conversation survives the switches of models, several at once too:  *)
(* every prompt that joined a conversation is in the current controller,   *)
(* unless it joined one that a switch under way had read already or will   *)
(* not read.  The gap between running and the prompt's joining, in which   *)
(* a switch may look at either, loses nothing more.  (switchModel)         *)
ConversationCarried ==
  \A c \in 1..built : history[c] \subseteq history[ctrl] \cup raced

(* The current controller is never closed or waiting to be, and every      *)
(* controller built and swapped in is either current or being retired.     *)
OneCurrent ==
  /\ ctrl \notin closed \cup retiring
  /\ \A c \in 1..built : c \in {ctrl} \cup closed \cup retiring
                         \/ \E r \in Switches : req[r] = "swap" /\ has[r] = c
  /\ closed \cap retiring = {}

(* A retired controller is closed as soon as it is idle: none stays open.  *)
RetiredAreClosed == []<>(\A c \in retiring : turn[c] # Idle)

(* An answer decides the prompt it was given to: of several tabs and       *)
(* several prompts, as long as no switch has put another controller, whose *)
(* ids count from 1 again, in the place of the one that asked.             *)
DecidedAsShown == \A d \in decided : d.click.c = d.prompt.c => d.click = d.prompt

(* Claimed: expired ids are ignored, so an answer decides the prompt it    *)
(* was given to.                                                           *)
ExpiredIgnored == \A d \in decided : d.click = d.prompt

(* Claimed: a controller is closed when no handler can reach it any more.  *)
ClosedIsIdle == \A c \in closed : turn[c] = Idle

Frames(s) == got[s] \o buffer[s]

(* The frame that is on its way to s.                                      *)
Coming(s) == IF \E e \in Emitters : s \in left[e] THEN {emitted} ELSE {}

(* A tab sees the frames in the order they were emitted, whichever of the  *)
(* goroutines emitted them, from the moment it subscribed, and misses only *)
(* those that met a full buffer: one slow tab costs the others nothing.    *)
InOrder ==
  \A s \in Subs :
    /\ \A i, j \in DOMAIN Frames(s) : i < j => Frames(s)[i] < Frames(s)[j]
    /\ tabs[s] = "open" =>
         {Frames(s)[i] : i \in DOMAIN Frames(s)} = (since[s]..emitted) \ (dropped[s] \cup Coming(s))
    /\ dropped[s] # {} => Len(Frames(s)) >= Buffer

(* Nothing is sent into a channel that the unsubscribe func has closed (in *)
(* Go, a panic that would take the session down): no client that leaves    *)
(* while an emitter goes from channel to channel gets in between.          *)
NoSendAfterClose ==
  [][\A s \in Subs : tabs[s] = "closed" => buffer'[s] = buffer[s]]_fanVars
=============================================================================
