------------------------------ MODULE Transcript ------------------------------
(***************************************************************************)
(* The chat terminal's transcript: a list of blocks that events append to  *)
(* and rewrite in place, through indexes the terminal keeps (the live tool *)
(* slot, the streamed answer, the thinking block, committed thoughts, the  *)
(* read card, the cards of sub-agents), while placeholders are dropped     *)
(* from its end, un-sent messages cut off it and the banner put before it: *)
(* ingestEvent and what it calls, in the cli package.  The events come as  *)
(* agent.go emits them, with those of background sub-agents in between.    *)
(*                                                                         *)
(* A block is its kind, the message, call or thought it belongs to and the *)
(* chunks of text it shows; indexes count from one, 0 is the code's -1.    *)
(***************************************************************************)
EXTENDS Naturals, Sequences, SequencesExt, FiniteSetsExt

CONSTANTS
  Batches,      \* the tool calls of one message: sequences of Kinds
  MaxTurns, MaxMessages, MaxChunks,  \* bounds of a behaviour, the chunks of a message
  MaxExtras     \* bound: notices, thoughts, keys, child calls, usages

Kinds == {"read", "bash", "edit", "todo", "task", "background"}

VARIABLES
  ui,     \* the terminal
  src,    \* the controller and the agent that emit the events
  kids,   \* child calls under way, each with its parent
  backs,  \* background sub-agents
  turns, messages, ids, extras

vars == <<ui, src, kids, backs, turns, messages, ids, extras>>

-----------------------------------------------------------------------------
(* The terminal's operations.                                              *)

Block(kind, owner) == [kind |-> kind, owner |-> owner, text |-> <<>>]
Blank == Block("blank", 0)
IsBlank(b) == b.kind = "blank" \/ (b.kind = "thought" /\ b.text = <<>>)
NoSlot == [at |-> 0, id |-> 0, full |-> FALSE]

CommitLine(u, b) == [u EXCEPT !.tr = Append(@, b)]
CommitSpacer(u) == IF u.tr # <<>> /\ ~IsBlank(Last(u.tr)) THEN CommitLine(u, Blank) ELSE u
Rewrite(u, i, b) == [u EXCEPT !.tr[i] = b]
ClearReadRollup(u) == [u EXCEPT !.rollup = 0]
ConfirmBubbleSent(u) == [u EXCEPT !.pending = FALSE]

\* A slot without output is dropped at the end of the transcript and
\* blanked elsewhere.
AnywhereDrop(u) == [u EXCEPT !.tr = RemoveAt(@, u.slot.at)]  \* mutant: spliced out of the middle
Drop(u) ==
  IF u.slot.at = Len(u.tr) THEN [u EXCEPT !.tr = Front(@)] ELSE Rewrite(u, u.slot.at, Blank)
CollapseToolOutput(u, id) ==
  IF u.slot.at = 0 \/ u.slot.id # id THEN u
  ELSE [(IF u.slot.full THEN Rewrite(u, u.slot.at, Block("lines", id)) ELSE Drop(u))
          EXCEPT !.slot = NoSlot]

BeginToolRunning(u, id) ==
  [CommitLine(u, Block("slot", id)) EXCEPT !.slot = [at |-> Len(u.tr) + 1, id |-> id, full |-> FALSE]]

StreamToolOutput(u, id) ==
  LET open == IF u.slot.id = id THEN u ELSE BeginToolRunning(CollapseToolOutput(u, u.slot.id), id)
  IN [Rewrite(open, open.slot.at, Block("slot", id)) EXCEPT !.slot.full = TRUE]

\* Thoughts: a marker and a text block that is blank while folded.
RenderThought(u, t, expanded) ==
  LET marked == IF t.mark \in DOMAIN u.tr THEN Rewrite(u, t.mark, Block("marker", t.owner)) ELSE u
  IN IF t.at \in DOMAIN u.tr
     THEN Rewrite(marked, t.at, [Block("thought", t.owner) EXCEPT !.text = IF expanded THEN <<"text">> ELSE <<>>])
     ELSE marked

OpenThought(u) ==
  LET s == CommitSpacer(u)
      n == Len(s.tr) + 1
  IN [s EXCEPT !.tr = @ \o <<Block("marker", u.count + 1), Block("thought", u.count + 1)>>,
               !.mark = n, !.thought = n + 1, !.count = @ + 1, !.thinking = <<>>]

StreamReasoning(u, chunk) ==
  [u EXCEPT !.thinking = @ \o chunk, !.tr[u.thought].text = <<"text">>]

CommitReasoning(u) ==
  LET t == [mark |-> u.mark, at |-> u.thought, owner |-> u.count]
      closed == IF u.thinking # <<>>
                THEN RenderThought([u EXCEPT !.thoughts = Append(@, t)], t, u.verbose)
                ELSE Rewrite(Rewrite(u, u.mark, Block("marker", u.count)), u.thought, Block("thought", u.count))
  IN IF u.mark = 0 THEN u
     ELSE [closed EXCEPT !.mark = 0, !.thought = 0, !.thinking = <<>>]

\* StripGoalVerdict: the first verdict line goes if nothing follows it.
StripGoalVerdict(text) ==
  IF text # <<>> /\ Last(text) = "verdict" /\ ~Contains(Front(text), "verdict") THEN Front(text) ELSE text

Answer(u, text) == [Block("answer", u.message) EXCEPT !.text = text]
\* The completed paragraphs are shown as they come.
StreamAnswer(u, closes) ==
  IF ~closes \/ u.answer.text = <<>> THEN u
  ELSE IF u.answer.at = 0
  THEN [CommitLine(u, Answer(u, u.answer.text)) EXCEPT !.answer.at = Len(u.tr) + 1]
  ELSE Rewrite(u, u.answer.at, Answer(u, u.answer.text))
NoAnswer == [at |-> 0, text |-> <<>>]
CommitPending(u) ==
  LET raw == StripGoalVerdict(u.answer.text)
  IN [(IF raw = <<>> THEN u
       ELSE IF u.answer.at = 0 THEN CommitLine(u, Answer(u, raw))
       ELSE Rewrite(u, u.answer.at, Answer(u, raw)))
      EXCEPT !.answer = NoAnswer]

FinalizeStreamed(u) == CommitPending(CommitReasoning(CollapseToolOutput(u, u.slot.id)))
FinalizeThen(u, b) == CommitLine(FinalizeStreamed(ClearReadRollup(u)), b)

\* The panel's runs of sub-agents, each with the index of its card.
RememberSubagentDispatch(u, id) ==
  [u EXCEPT !.runs = @ \cup {[id |-> id, line |-> Len(u.tr)]}]
EnsureRun(u, id) ==
  IF \E r \in u.runs : r.id = id THEN u ELSE [u EXCEPT !.runs = @ \cup {[id |-> id, line |-> 0]}]
SummarizeSubagentResult(u, id) ==
  LET e == EnsureRun(u, id)
      r == CHOOSE r \in e.runs : r.id = id
  IN [(IF r.line \in DOMAIN u.tr THEN Rewrite(e, r.line, Block("summary", id))
       ELSE CommitLine(e, Block("summary", id)))
      EXCEPT !.runs = @ \ {r}]

-----------------------------------------------------------------------------
(* One event: what ingestEvent does with it.                               *)

\* An un-sent turn shows nothing until it is done; any packet of a turn
\* confirms its message.
Ingest(u) == ui' = IF ui.discarded THEN ui ELSE u
Got == ConfirmBubbleSent(ui)

Card(u, id, kind) ==
  CASE kind = "todo" -> ClearReadRollup(u)
    [] kind = "read" ->
         BeginToolRunning(
           IF u.rollup \in DOMAIN u.tr THEN Rewrite(u, u.rollup, Block("read", id))
           ELSE LET s == CommitSpacer(u)
                IN [CommitLine(s, Block("read", id)) EXCEPT !.rollup = Len(s.tr) + 1],
           id)
    [] kind = "edit" -> CommitLine(CommitSpacer(ClearReadRollup(u)), Block("diff", id))
    [] kind = "bash" ->
         BeginToolRunning(CommitLine(CommitSpacer(ClearReadRollup(u)), Block("card", id)), id)
    [] OTHER ->
         BeginToolRunning(
           RememberSubagentDispatch(
             CommitLine(CommitSpacer(ClearReadRollup(u)), Block("card", id)), id), id)

ChildCard(u, parent, id) ==
  BeginToolRunning(CommitLine(ClearReadRollup(EnsureRun(u, parent)), Block("child", id)), id)

Result(u, id, kind, failed) ==
  LET c == CollapseToolOutput(u, id)
  IN IF kind \in {"task", "background"}
     THEN SummarizeSubagentResult(FinalizeStreamed(ClearReadRollup(c)), id)
     ELSE IF failed THEN FinalizeThen(c, Block("failed", id)) ELSE c

-----------------------------------------------------------------------------
(* Initial states.                                                         *)

NoSrc == [at |-> "idle", chunks |-> <<>>, calls |-> <<>>, next |-> 1]
Fresh(live) ==
  [tr |-> IF live THEN <<>> ELSE <<Block("banner", 0)>>, banner |-> live,
   slot |-> NoSlot, answer |-> NoAnswer, message |-> 0,
   mark |-> 0, thought |-> 0, thinking |-> <<>>, thoughts |-> <<>>, count |-> 0,
   rollup |-> 0, runs |-> {}, start |-> 0, pending |-> FALSE, discarded |-> FALSE,
   verbose |-> FALSE, expanded |-> 0, running |-> FALSE]

Init ==
  /\ \E live \in BOOLEAN : ui = Fresh(live)
  /\ src = NoSrc /\ kids = {} /\ backs = {}
  /\ turns = 0 /\ messages = 0 /\ ids = 0 /\ extras = 0

Extra == extras < MaxExtras /\ extras' = extras + 1

-----------------------------------------------------------------------------
(* The user.                                                               *)

\* startMessageTurnWithRaw: the banner is frozen before the bubble's place
\* is noted.
Frozen(u) == IF u.banner THEN [u EXCEPT !.tr = <<Block("banner", 0)>> \o @, !.banner = FALSE] ELSE u
Bubbled(u) ==
  LET f == Frozen(CommitPending(CommitReasoning(u)))
  IN [f EXCEPT !.start = Len(f.tr) + 1, !.tr = @ \o <<Blank, Block("bubble", turns + 1)>>,
               !.pending = TRUE, !.discarded = FALSE, !.running = TRUE]
StartTurn(u) == Bubbled(u)
UserTurn ==
  /\ ~ui.running /\ src.at = "idle" /\ turns < MaxTurns
  /\ ui' = StartTurn(ui)
  /\ src' = [NoSrc EXCEPT !.at = "sent"]
  /\ turns' = turns + 1
  /\ UNCHANGED <<kids, backs, messages, ids, extras>>

UnsendPending ==
  /\ ui.pending
  /\ ui' = [ui EXCEPT !.tr = SubSeq(@, 1, ui.start - 1),
                      !.thoughts = SelectSeq(@, LAMBDA t : t.mark < ui.start),
                      !.pending = FALSE, !.discarded = TRUE]
  /\ UNCHANGED <<src, kids, backs, turns, messages, ids, extras>>

\* Ctrl+O, with its notice; a gate up keeps its thought open.
RenderAll(u) == FoldLeft(LAMBDA v, t : RenderThought(v, t, v.verbose), u, u.thoughts)
ToggleVerboseReasoning ==
  /\ Extra
  /\ LET all == RenderAll([ui EXCEPT !.verbose = ~@])
     IN ui' = IF src.at = "gate"
              THEN IF ui.expanded \in DOMAIN ui.thoughts
                   THEN RenderThought(all, ui.thoughts[ui.expanded], TRUE) ELSE all
              ELSE CommitLine(all, Block("note", 0))
  /\ UNCHANGED <<src, kids, backs, turns, messages, ids>>

\* A key that decides the pending approval; the fold is restored.
AnswerApproval ==
  /\ src.at = "gate"
  /\ ui' = IF ui.expanded \in DOMAIN ui.thoughts
           THEN [RenderThought(ui, ui.thoughts[ui.expanded], ui.verbose) EXCEPT !.expanded = 0] ELSE ui
  /\ src' = [src EXCEPT !.at = "run"]
  /\ UNCHANGED <<kids, backs, turns, messages, ids, extras>>

\* /resume, /switch and the like, between turns.
ReplayActiveBranch ==
  /\ ~ui.running /\ src.at = "idle" /\ Extra
  /\ LET f == FinalizeStreamed(ui)
     IN ui' = [f EXCEPT !.pending = FALSE, !.discarded = FALSE, !.banner = FALSE,
                        !.tr = @ \o <<Blank, Block("banner", 0), Block("replay", 0)>>]
  /\ UNCHANGED <<src, kids, backs, turns, messages, ids>>

-----------------------------------------------------------------------------
(* The events of a turn.                                                   *)

TurnStarted ==
  /\ src.at = "sent"
  /\ Ingest(ClearReadRollup(ui))
  /\ src' = [src EXCEPT !.at = "open"]
  /\ UNCHANGED <<kids, backs, turns, messages, ids, extras>>

Reasoning ==
  /\ src.at = "open" /\ Extra
  /\ \E chunk \in {<<>>, <<"text">>} :
       Ingest(StreamReasoning(LET c == ClearReadRollup(Got) IN IF c.mark = 0 THEN OpenThought(c) ELSE c, chunk))
  /\ UNCHANGED <<src, kids, backs, turns, messages, ids>>

\* The verdict is the last line of a reply, if the model does as it is told.
Text ==
  /\ src.at = "open" /\ messages < MaxMessages /\ Len(src.chunks) < MaxChunks
  /\ ~Contains(src.chunks, "verdict")
  /\ \E chunk \in {"text", "verdict"}, closes \in BOOLEAN :
       /\ LET c == CommitReasoning(ClearReadRollup(Got))
          IN Ingest(StreamAnswer([c EXCEPT !.answer.text = Append(@, chunk),
                                           !.message = messages], closes))
       /\ src' = [src EXCEPT !.chunks = Append(@, chunk)]
  /\ UNCHANGED <<kids, backs, turns, messages, ids, extras>>

\* The message is complete, with the calls of a batch or none; its usage.
Message ==
  /\ src.at = "open" /\ src.chunks # <<>>
  /\ Ingest(FinalizeThen(CommitPending(CommitReasoning(ClearReadRollup(Got))), Block("usage", 0)))
  /\ messages' = messages + 1
  /\ \/ src' = [NoSrc EXCEPT !.at = "ending"] /\ UNCHANGED ids
     \/ \E b \in Batches :
          /\ src' = [NoSrc EXCEPT !.at = "dispatch",
                       !.calls = [i \in DOMAIN b |-> [id |-> ids + i, kind |-> b[i]]]]
          /\ ids' = ids + Len(b)
  /\ UNCHANGED <<kids, backs, turns, extras>>

\* All the calls of a batch are dispatched before the first one runs.
Call == src.calls[src.next]
Advance(then) ==
  src' = IF src.next = Len(src.calls) THEN [src EXCEPT !.at = then, !.next = 1]
         ELSE [src EXCEPT !.next = @ + 1]
ToolDispatch ==
  /\ src.at = "dispatch"
  /\ Ingest(Card(FinalizeStreamed(Got), Call.id, Call.kind))
  /\ Advance("run")
  /\ UNCHANGED <<kids, backs, turns, messages, ids, extras>>

\* The calls run in order: output of a command, child calls of a sub-agent,
\* a gate; a background sub-agent goes on after its call.
ToolProgress ==
  /\ src.at = "run" /\ Call.kind = "bash"
  /\ Extra
  /\ Ingest(StreamToolOutput(Got, Call.id))
  /\ UNCHANGED <<src, kids, backs, turns, messages, ids>>

ApprovalRequest ==
  /\ src.at = "run" /\ Extra
  /\ LET c == ClearReadRollup(Got)
         n == Len(c.thoughts)
     IN Ingest(IF n > 0 /\ ~c.verbose THEN [RenderThought(c, c.thoughts[n], TRUE) EXCEPT !.expanded = n]
               ELSE [c EXCEPT !.expanded = 0])
  /\ src' = [src EXCEPT !.at = "gate"]
  /\ UNCHANGED <<kids, backs, turns, messages, ids>>

Runs ==
  /\ src.at = "run"
  /\ ~\E k \in kids : k.parent = Call.id
  /\ backs' = IF Call.kind = "background" THEN backs \cup {Call.id} ELSE backs
  /\ Advance("results")
  /\ UNCHANGED <<ui, kids, turns, messages, ids, extras>>

\* A child call of the sub-agent that runs, or of one in the background.
Parents == backs \cup (IF src.at = "run" /\ Call.kind = "task" THEN {Call.id} ELSE {})
ChildDispatch ==
  /\ Extra
  /\ \E p \in Parents :
       /\ Ingest(ChildCard(FinalizeStreamed(Got), p, ids + 1))
       /\ kids' = kids \cup {[id |-> ids + 1, parent |-> p]}
  /\ ids' = ids + 1
  /\ UNCHANGED <<src, backs, turns, messages>>

ChildResult ==
  /\ \E k \in kids, failed \in BOOLEAN :
       /\ LET c == CollapseToolOutput(Got, k.id)
          IN Ingest(IF failed THEN FinalizeThen(c, Block("failed", k.id)) ELSE c)
       /\ kids' = kids \ {k}
  /\ UNCHANGED <<src, backs, turns, messages, ids, extras>>

ChildUsage ==
  /\ Extra
  /\ \E p \in Parents : Ingest(EnsureRun(ClearReadRollup(Got), p))
  /\ UNCHANGED <<src, kids, backs, turns, messages, ids>>

ToolResult ==
  /\ src.at = "results"
  /\ \E failed \in BOOLEAN : Ingest(Result(Got, Call.id, Call.kind, failed))
  /\ IF src.next = Len(src.calls) THEN src' = [NoSrc EXCEPT !.at = "open"]
     ELSE src' = [src EXCEPT !.next = @ + 1]
  /\ UNCHANGED <<kids, backs, turns, messages, ids, extras>>

\* A notice, a phase or a compaction, of the turn or of something else.
Notice ==
  /\ Extra
  /\ Ingest(FinalizeThen(Got, Block("note", 0)))
  /\ UNCHANGED <<src, kids, backs, turns, messages, ids>>

\* The turn is over: after a last message, or a request that failed or was
\* cancelled, whatever had been streamed by then.
TurnDone ==
  /\ src.at \in {"ending", "open"}
  /\ LET done == ConfirmBubbleSent(CommitPending(CommitReasoning(ClearReadRollup(ui))))
     IN ui' = IF ui.discarded THEN [ui EXCEPT !.discarded = FALSE, !.running = FALSE]
              ELSE [done EXCEPT !.running = FALSE]
  /\ src' = NoSrc
  /\ messages' = IF src.chunks = <<>> THEN messages ELSE messages + 1
  /\ UNCHANGED <<kids, backs, turns, ids, extras>>

Next ==
  \/ UserTurn \/ UnsendPending \/ ToggleVerboseReasoning \/ AnswerApproval \/ ReplayActiveBranch
  \/ TurnStarted \/ Reasoning \/ Text \/ Message
  \/ ToolDispatch \/ ToolProgress \/ ApprovalRequest \/ Runs
  \/ ChildDispatch \/ ChildResult \/ ChildUsage \/ ToolResult \/ Notice \/ TurnDone

Spec == Init /\ [][Next]_vars

-----------------------------------------------------------------------------
(* Properties.                                                             *)

Owns(i, kind, owner) == i \in DOMAIN ui.tr /\ ui.tr[i].kind = kind /\ ui.tr[i].owner = owner

\* Every index the terminal keeps is that of the block it was kept for, so
\* that no rewrite in place hits another's block or lies past the end.
IndexesHold ==
  /\ ui.slot.at # 0 => Owns(ui.slot.at, "slot", ui.slot.id)
  /\ ui.answer.at # 0 => Owns(ui.answer.at, "answer", ui.message)
  /\ ui.mark # 0 => Owns(ui.mark, "marker", ui.count) /\ Owns(ui.thought, "thought", ui.count)
  /\ \A i \in DOMAIN ui.thoughts :
       LET t == ui.thoughts[i] IN Owns(t.mark, "marker", t.owner) /\ Owns(t.at, "thought", t.owner)
  /\ ui.rollup # 0 => ui.rollup \in DOMAIN ui.tr /\ ui.tr[ui.rollup].kind = "read"
  /\ \A r \in ui.runs : r.line # 0 => Owns(r.line, "card", r.id)

\* A slot that shows a call as working is that of a call without a result,
\* and so is every sub-agent of the panel.
Unsettled ==
  backs \cup {k.id : k \in kids} \cup
  {src.calls[i].id : i \in {i \in DOMAIN src.calls : src.at = "results" => i >= src.next}}
WorkingIsWorking ==
  /\ ui.slot.at # 0 => ui.slot.id \in Unsettled \/ backs # {}
  /\ \A r \in ui.runs : r.id \in Unsettled

\* What is on the screen stays there, in its order: replies, notices, cards
\* and results are never lost or overtaken.  Un-sending takes away the
\* message, what followed it, and nothing before it.
Lasting(tr) ==
  LET shown == SelectSeq(tr, LAMBDA b : b.kind \notin {"blank", "banner", "slot", "lines", "read", "marker", "thought"})
  IN [i \in DOMAIN shown |->
        <<IF shown[i].kind = "summary" THEN "card" ELSE shown[i].kind, shown[i].owner>>]
ShownStays ==
  [][ui.discarded = ui'.discarded => IsPrefix(Lasting(ui.tr), Lasting(ui'.tr))]_ui
UnsentLeaves ==
  [][~ui.discarded /\ ui'.discarded =>
       \E n \in DOMAIN Lasting(ui.tr) :
         /\ Lasting(ui.tr)[n] = <<"bubble", turns>>
         /\ Lasting(ui'.tr) = SubSeq(Lasting(ui.tr), 1, n - 1)]_ui

\* When a message is complete, its whole text is on the screen, however it
\* was streamed and whatever came in between.
TextOf(tr, m) ==
  FlattenSeq([i \in DOMAIN tr |-> IF tr[i].kind = "answer" /\ tr[i].owner = m THEN tr[i].text ELSE <<>>])
Spoken(text) == SelectSeq(text, LAMBDA c : c # "verdict")
AnswersAreWhole ==
  [][src.at = "open" /\ src'.at # "open" /\ ~ui.discarded /\ src.chunks # <<>>
       => Spoken(TextOf(ui'.tr, messages)) = Spoken(src.chunks)]_vars

-----------------------------------------------------------------------------
(* What comments say and the code does not do.                             *)

\* chat_answer.go:55-57 the verdict "must never reach the visible
\* transcript": the streamed paragraphs are not stripped, and an answer of
\* nothing else is left as it was streamed.
VerdictHidden ==
  src.at # "open" => \A i \in DOMAIN ui.tr : ~Contains(ui.tr[i].text, "verdict")

\* chat_tool_stream.go:38-40 output is shown "under the tool card": with two
\* calls in a message, both cards come first.
OutputUnderItsCard ==
  ui.slot.full => ui.slot.at > 1 /\ ui.tr[ui.slot.at - 1].kind \in {"card", "child"}
                  /\ ui.tr[ui.slot.at - 1].owner = ui.slot.id

\* chat_subagent.go:116 a run is deleted with its result: the later calls of
\* a background sub-agent make it again, and nothing deletes it then.
NoGhosts == src.at = "idle" => ui.runs = {}

\* chat_turn.go:111-113 every event after the text finalizes it first,
\* "preserving order": a thought does not.
ThoughtsInOrder ==
  [][ui'.mark > ui.mark => ui.answer.text = <<>>]_ui

\* chat_turn.go:82-83 the bubble is popped off again: with whatever else has
\* been noted since.
OnlyTheBubbleLeaves ==
  [][~ui.discarded /\ ui'.discarded => Len(Lasting(ui.tr)) = Len(Lasting(ui'.tr)) + 1]_ui
=============================================================================
