------------------------------ MODULE ChatTui ------------------------------
(***************************************************************************)
(* The chat terminal (cli/chat_tui.go, chat_turn.go, chat_approval.go): an *)
(* event loop that owns the composer, the transcript and the overlays, and *)
(* hears of the controller only through eventCh.  Its own idea of a turn   *)
(* running therefore trails the controller's.  @-references are resolved   *)
(* off the loop, and the turn starts when the answer comes back.           *)
(***************************************************************************)
EXTENDS Naturals, Sequences, SequencesExt

CONSTANTS
  Plain,      \* lines without references
  Refs,       \* lines with @-references
  Goals,      \* /goal <condition> lines, which may be entered at any time
  MaxTurns,   \* bound: turns of the controller
  MaxReplies, \* bound: packets of one turn
  MaxPrompts, \* bound: approval prompts and questions
  MaxChan,    \* capacity of eventCh (1024 in the code); Emit waits for room
  MaxShown    \* bound: items of the transcript

VARIABLES
  state,      \* tuiIdle or tuiRunning
  input,      \* the composer
  transcript, \* what is shown: bubbles and events
  bubble,     \* bubblePending: pendingRestore and bubbleStartIdx, or NoBubble
  turnDiscarded,
  prompt,     \* pendingApproval or chooser: its id, 0 when none
  rewind,     \* the rewind picker: the turns listed, <<>> when closed
  resolving,  \* lines whose references are being resolved
  running,    \* the controller: its turn, 0 when none
  ending,     \* a turn no longer running whose TurnDone is not emitted yet
  cancelled,  \* turns whose context is cancelled
  waiting,    \* the prompt the run goroutine is blocked on
  line,       \* the line of each turn
  replies,    \* packets of the running turn
  askedBy,    \* the turn of each prompt
  eventCh,
  heard,      \* history: of each turn, how many packets the loop has taken
  unsent,     \* history: turns whose bubble was taken back
  crossed,    \* history: a turn was begun, or refused, before the last one's TurnDone was read
  overtaken   \* history: the turns begun while an earlier one's TurnDone was unread

loop == <<state, input, transcript, bubble,
          turnDiscarded, prompt, rewind, resolving>>
controller == <<running, ending, cancelled, waiting, line, replies, askedBy>>
vars == <<loop, controller, eventCh, heard, unsent, crossed, overtaken>>

Lines == Plain \cup Refs \cup Goals
NoLine == "none"
NoBubble == [restore |-> NoLine, at |-> 0]
Ev(t, k, i) == [turn |-> t, kind |-> k, id |-> i]
Bubble(l) == [turn |-> 0, kind |-> l, id |-> 0]
Echo == Bubble("echo")

Init ==
  /\ state = "idle" /\ input = NoLine /\ transcript = <<>>
  /\ bubble = NoBubble
  /\ turnDiscarded = FALSE /\ prompt = 0 /\ rewind = <<>>
  /\ resolving = {}
  /\ running = 0 /\ ending = 0 /\ cancelled = {} /\ waiting = 0 /\ line = <<>>
  /\ replies = 0 /\ askedBy = <<>>
  /\ eventCh = <<>> /\ heard = [t \in 1..MaxTurns |-> 0] /\ unsent = {} /\ crossed = FALSE
  /\ overtaken = {}

-----------------------------------------------------------------------------
(* The controller's run goroutine                                          *)

Emit(e) == Len(eventCh) < MaxChan /\ eventCh' = Append(eventCh, e)

Reply ==
  /\ running # 0 /\ waiting = 0 /\ replies < MaxReplies
  /\ replies' = replies + 1
  /\ Emit(Ev(running, "reply", replies + 1))
  /\ UNCHANGED <<loop, running, ending, cancelled, waiting, line, askedBy,
                 heard, unsent, crossed, overtaken>>

AskUser ==
  /\ running # 0 /\ waiting = 0 /\ Len(askedBy) < MaxPrompts
  /\ running \notin cancelled
  /\ askedBy' = Append(askedBy, running) /\ waiting' = Len(askedBy) + 1
  /\ Emit(Ev(running, "prompt", Len(askedBy) + 1))
  /\ UNCHANGED <<loop, running, ending, cancelled, line, replies,
                 heard, unsent, crossed, overtaken>>

\* running is false before TurnDone is emitted.
Finish ==
  /\ running # 0 /\ (waiting = 0 \/ running \in cancelled) /\ ending = 0
  /\ running' = 0 /\ ending' = running /\ waiting' = 0 /\ replies' = 0
  /\ UNCHANGED <<loop, cancelled, line, askedBy, eventCh, heard, unsent, crossed, overtaken>>

TurnDone ==
  /\ ending # 0
  /\ ending' = 0
  /\ Emit(Ev(ending, "done", 0))
  /\ UNCHANGED <<loop, running, cancelled, waiting, line, replies, askedBy,
                 heard, unsent, crossed, overtaken>>

Cancel == cancelled' = IF running # 0 THEN cancelled \cup {running} ELSE cancelled

-----------------------------------------------------------------------------
(* Starting a turn                                                         *)

DonePending == ending # 0 \/ \E i \in DOMAIN eventCh : eventCh[i].kind = "done"

\* SendMessageWithRaw is a no-op while a turn runs; the loop does not know.
StartTurn(l) ==
  /\ Len(line) < MaxTurns
  /\ bubble' = [restore |-> l, at |-> Len(transcript)]
  /\ transcript' = Append(transcript, Bubble(l))
  /\ turnDiscarded' = FALSE /\ state' = "running"
  /\ crossed' = (crossed \/ running # 0 \/ DonePending)
  /\ IF running = 0
     THEN /\ line' = Append(line, l) /\ running' = Len(line) + 1
          /\ overtaken' = IF DonePending THEN overtaken \cup {Len(line) + 1} ELSE overtaken
     ELSE UNCHANGED <<line, running, overtaken>>
  /\ UNCHANGED <<eventCh, ending, cancelled, waiting, replies, askedBy, heard, unsent>>

RefsResolved(l) ==
  /\ l \in resolving
  /\ resolving' = resolving \ {l}
  /\ StartTurn(l)
  /\ UNCHANGED <<input, prompt, rewind>>

-----------------------------------------------------------------------------
(* Keys that reach the composer: no overlay is open                        *)

Composer == prompt = 0 /\ rewind = <<>>

Type(l) ==
  /\ Composer /\ input = NoLine
  /\ input' = l
  /\ UNCHANGED <<state, transcript, bubble, turnDiscarded,
                 prompt, rewind, resolving, controller, eventCh,
                 heard, unsent, crossed, overtaken>>

\* While a turn runs only /goal is taken; a goal set in a turn is its tail's.
Enter ==
  /\ Composer /\ input # NoLine
  /\ \/ /\ (state = "idle" \/ input \in Goals)
        /\ input \in Plain \cup Goals
        /\ input \in Goals => running = 0
        /\ StartTurn(input)
        /\ input' = NoLine
        /\ UNCHANGED <<prompt, rewind, resolving>>
     \/ /\ input \in Goals /\ running # 0 /\ Len(transcript) < MaxShown
        /\ transcript' = Append(transcript, Echo)
        /\ input' = NoLine
        /\ UNCHANGED <<state, bubble, turnDiscarded, prompt,
                       rewind, resolving, controller, eventCh,
                 heard, unsent, crossed, overtaken>>
     \/ /\ state = "idle" /\ input \in Refs
        /\ resolving' = resolving \cup {input}
        /\ input' = NoLine
        /\ UNCHANGED <<state, transcript, bubble,
                       turnDiscarded, prompt, rewind, controller, eventCh, heard,
                       unsent, crossed, overtaken>>

KeepShowing(b) == FALSE                \* mutant: the un-sent turn is not discarded
Discarding(b) == b

UnsendPending ==
  /\ Composer /\ state = "running" /\ bubble # NoBubble
  /\ input' = bubble.restore
  /\ transcript' = SubSeq(transcript, 1, bubble.at)
  /\ bubble' = NoBubble
  /\ turnDiscarded' = Discarding(TRUE)
  /\ Cancel
  /\ unsent' = unsent \cup {Len(line)}
  /\ UNCHANGED <<state, prompt, rewind, resolving, running, ending,
                 waiting, line, replies, askedBy, eventCh, heard, crossed, overtaken>>

CancelTurn ==
  /\ Composer /\ state = "running" /\ bubble = NoBubble
  /\ Cancel
  /\ UNCHANGED <<loop, running, ending, waiting, line, replies, askedBy, eventCh, heard, unsent,
                 crossed, overtaken>>

\* Esc when idle: clears the composer or, twice, opens the picker, whose
\* list is read once, here.
IdleEsc ==
  /\ Composer /\ state = "idle"
  /\ \/ /\ input # NoLine /\ input' = NoLine /\ UNCHANGED rewind
     \/ /\ input = NoLine /\ UNCHANGED input
        /\ rewind' = [t \in DOMAIN line |-> t]
  /\ UNCHANGED <<state, transcript, bubble, turnDiscarded,
                 prompt, resolving, controller, eventCh, heard, unsent, crossed, overtaken>>

\* Rewind is refused while a turn runs; otherwise the prompt of the turn
\* picked goes back into the composer.
RewindKey ==
  /\ rewind # <<>>
  /\ rewind' = <<>>
  /\ \/ UNCHANGED input
     \/ /\ running = 0
        /\ \E t \in ToSet(rewind) : input' = line[t]
  /\ UNCHANGED <<state, transcript, bubble, turnDiscarded,
                 prompt, resolving, controller, eventCh, heard, unsent, crossed, overtaken>>

-----------------------------------------------------------------------------
(* A prompt is modal; the answer goes to the id it shows                   *)

Decides(i) == waiting = i

\* y, a, n, Enter or Esc.  A question card is served before the rewind
\* picker, an approval after it: with both open either may be.
AnswerKey ==
  /\ prompt # 0
  /\ prompt' = 0
  /\ waiting' = IF Decides(prompt) THEN 0 ELSE waiting
  /\ UNCHANGED <<state, input, transcript, bubble,
                 turnDiscarded, rewind, resolving, running, ending, cancelled, line,
                 replies, askedBy, eventCh, heard, unsent, crossed, overtaken>>

\* Ctrl-C cancels the whole turn and drops the prompt; an approval is also
\* answered with a no, a question card is not answered at all.
CancelKey ==
  /\ prompt # 0
  /\ prompt' = 0
  /\ Cancel
  /\ \/ UNCHANGED waiting
     \/ Decides(prompt) /\ waiting' = 0
  /\ UNCHANGED <<state, input, transcript, bubble,
                 turnDiscarded, rewind, resolving, running, ending, line,
                 replies, askedBy, eventCh, heard, unsent, crossed, overtaken>>

-----------------------------------------------------------------------------
(* ingestEvent                                                             *)

StayBusy(e) == FALSE                   \* mutant: TurnDone leaves the state
Settles(e) == e.kind = "done"

Ingest ==
  /\ eventCh # <<>>
  /\ eventCh' = Tail(eventCh)
  /\ heard' = [heard EXCEPT ![Head(eventCh).turn] =
                 @ + (IF Head(eventCh).kind = "reply" THEN 1 ELSE 0)]
  /\ LET e == Head(eventCh) IN
       /\ state' = IF Settles(e) THEN "idle" ELSE state
       /\ IF turnDiscarded
          THEN /\ turnDiscarded' = (e.kind # "done")
               /\ UNCHANGED <<transcript, bubble, prompt>>
          ELSE /\ turnDiscarded' = FALSE
               /\ bubble' = NoBubble
               /\ transcript' = IF e.kind = "reply" THEN Append(transcript, e) ELSE transcript
               /\ prompt' = IF e.kind = "prompt" THEN e.id ELSE prompt
  /\ UNCHANGED <<input, rewind, resolving, controller, unsent, crossed, overtaken>>

Keys ==
  \/ \E l \in Lines : Type(l)
  \/ Enter \/ UnsendPending \/ CancelTurn \/ IdleEsc \/ RewindKey \/ AnswerKey \/ CancelKey

Next ==
  \/ Reply \/ AskUser \/ Finish \/ TurnDone
  \/ \E l \in Lines : RefsResolved(l)
  \/ Keys \/ Ingest

Spec == Init /\ [][Next]_vars

(* The loop reads its channel, a turn whose context is cancelled ends, and *)
(* the emission after a turn happens.  The user owes nothing.              *)
Fairness ==
  /\ WF_vars(Ingest) /\ WF_vars(TurnDone)
  /\ WF_vars(Finish /\ running \in cancelled)

-----------------------------------------------------------------------------
Shown(t) == {i \in DOMAIN transcript : transcript[i].turn = t}
Heard(t) == {Ev(t, "reply", i) : i \in 1..heard[t]}

(* The transcript is the conversation, as long as no turn has been begun   *)
(* or refused behind the loop's back: what a turn said is shown in the     *)
(* order it was said, and a turn that was un-sent leaves no trace, its     *)
(* bubble included.  (ingestEvent, unsendPending)                          *)
TranscriptTrue ==
  ~crossed =>
    \A t \in DOMAIN line :
      /\ {transcript[i] : i \in Shown(t)} = IF t \in unsent THEN {} ELSE Heard(t)
      /\ \A i, j \in Shown(t) : i < j => transcript[i].id < transcript[j].id
      /\ t \in unsent => \A i \in DOMAIN transcript : transcript[i] # Bubble(line[t])
                          \/ \E u \in DOMAIN line : u # t /\ line[u] = line[t]

(* The loop calls itself idle while the controller has a turn only when    *)
(* that turn overtook the TurnDone of the one before; the next turn is     *)
(* known again.  (ingestEvent, runSlashCommand, runGuarded)                *)
IdleMeansIdle == state = "idle" /\ running # 0 => running \in overtaken

(* And it calls itself busy only while a turn runs or a TurnDone that will *)
(* say otherwise is on its way, whatever was overtaken, refused or un-sent.*)
BusyMeansBusy == state = "running" => running # 0 \/ DonePending

(* A prompt on the screen is one the run goroutine is blocked on, unless   *)
(* its turn has been cancelled.                                            *)
PromptIsLive ==
  prompt # 0 /\ askedBy[prompt] \notin cancelled
    => waiting = prompt /\ running = askedBy[prompt]

(* The terminal does not stay busy once the controller has settled.        *)
Settle == []<>(state = "idle" \/ running # 0)

(* Claimed: while an approval is shown the run goroutine is blocked        *)
(* awaiting it.                                                            *)
ShownIsBlocked == prompt # 0 => waiting = prompt

(* Claimed: Enter is ignored while a turn is in flight, so that no line    *)
(* goes to the screen which runGuarded then drops.                         *)
EnterIsIgnored ==
  [][running # 0 /\ input \in Plain /\ input' = NoLine => UNCHANGED transcript]_vars
=============================================================================
