----------------------------- MODULE Checkpoint -----------------------------
(***************************************************************************)
(* Rewinding a session: the store of pre-edit file snapshots of            *)
(* checkpoint/checkpoint.go, and the turn boundaries, Rewind, SummarizeFrom*)
(* and SummarizeUpTo of control/controller.go, over a conversation that    *)
(* compaction rewrites and a process that may die and be resumed.          *)
(*                                                                         *)
(* A file is a text, named by the number of the write that produced it (0: *)
(* the file does not exist), in UTF-8 or a legacy encoding; a message is   *)
(* its kind and the turn that wrote it, the first one a system prompt.     *)
(***************************************************************************)
EXTENDS Integers, Sequences, FiniteSets, FiniteSetsExt, Functions

CONSTANTS
  Files,         \* workspace files
  Legacy,        \* those that start in an encoding other than UTF-8
  Scopes,        \* what the user rewinds: "code", "conversation", "both"
  Serial,        \* the frontend runs one command at a time (the terminal's
                 \* Update loop); FALSE: handlers overlap (serve, desktop)
  MaxTurns,      \* bound: turns of one behaviour
  MaxWrites,     \* bound: file contents of one behaviour
  MaxMessages,   \* bound: length of the log
  MaxCompacts,   \* bound: compactions
  MaxSummaries,  \* bound: summaries from or up to a turn
  MaxRewinds,    \* bound: rewinds
  MaxFaults,     \* bound: files a restore fails to write
  MaxRestarts    \* bound: crashes and resumes

ASSUME FilesAssumption ==
  /\ IsFiniteSet(Files) /\ "" \notin Files /\ Legacy \subseteq Files
  /\ Scopes \subseteq {"code", "conversation", "both"}

ASSUME BoundsAssumption ==
  /\ {MaxTurns, MaxWrites, MaxMessages, MaxCompacts, MaxSummaries, MaxRewinds,
      MaxFaults, MaxRestarts} \subseteq Nat
  /\ MaxWrites > 0 /\ MaxMessages > 0

VARIABLES
  phase,    \* the turn: "idle", "sent", "open" (checkpoint begun), "working"
  start,    \* its startMessages
  edit,     \* the file a writer tool has snapshotted and not yet written
  msgs,     \* Session.Messages
  saved,    \* the session file; <<>>: none
  files,    \* the workspace: the text of each file
  utf8,     \* the files encoded in UTF-8
  done,     \* Store.done
  cur,      \* Store.cur, its Files as a function from paths to contents
  disk,     \* <session>.ckpt/turn-<n>.json
  cpTurn,   \* Controller.cpTurn
  cpBound,  \* Controller.cpBound
  cmd,      \* the Rewind or Summarize call under way
  count,    \* how often each bounded event has happened
  \* History of the behaviour, read by the properties only:
  live,     \* numbers of the turns of the current timeline
  startOf,  \* the log and the files at the start of each turn number
  stale,    \* live turns whose start is no longer a prefix of the log
  torn,     \* code rewinds to live turns up to this one are exact
  dirty     \* the log was rewritten and has not been saved since

turnVars == <<phase, start, edit>>
storeVars == <<done, cur, disk>>
boundVars == <<cpTurn, cpBound>>
history == <<live, startOf, stale, torn, dirty>>
work == <<files, utf8>>
vars == <<turnVars, msgs, saved, work, storeVars, boundVars, cmd, count,
          history>>

Absent == 0
NoFile == ""
Empty == [key \in {} |-> Absent]     \* a map without entries
Nobody == [turn |-> -1, idx |-> 0, files |-> Empty]    \* cur == nil
NoCmd ==
  [op |-> "none", turn |-> -1, bound |-> 0, has |-> FALSE, wrote |-> FALSE]
Kinds == {"system", "user", "call", "result", "answer", "summary"}
Msg(kind) == [kind |-> kind, by |-> count.turns]
Events == {"turns", "writes", "compacts", "summaries", "rewinds", "faults",
           "restarts"}
Spend(event) == count' = [count EXCEPT ![event] = @ + 1]
Numbers == 0 .. MaxTurns - 1

Init ==
  /\ phase = "idle" /\ start = 0 /\ edit = NoFile
  /\ msgs = <<[kind |-> "system", by |-> 0]>>
  /\ saved = <<>>
  /\ files \in [Files -> {Absent, 1}] /\ \A f \in Legacy : files[f] = 1
  /\ utf8 = Files \ Legacy
  /\ done = <<>> /\ cur = Nobody /\ disk = Empty
  /\ cpTurn = 0 /\ cpBound = Empty
  /\ cmd = NoCmd
  /\ count = [e \in Events |-> IF e = "writes" THEN 1 ELSE 0]
  /\ live = {} /\ startOf = Empty /\ stale = {} /\ torn = MaxTurns
  /\ dirty = FALSE

-----------------------------------------------------------------------------
(* The store.                                                              *)

Put(function, key, value) ==
  [k \in {key} \cup DOMAIN function |-> IF k = key THEN value ELSE function[k]]
All == IF cur = Nobody THEN done ELSE Append(done, cur)

\* A plain overwrite of turn-<n>.json.
Persist(onDisk, cp) == Put(onDisk, cp.turn, cp)

\* Begin's three writes: the finished turn, the new turn, both in memory.
Started(n, idx) == [turn |-> n, idx |-> idx, files |-> Empty]
Closed(onDisk) == IF cur = Nobody THEN onDisk ELSE Persist(onDisk, cur)
OpenedInMemory(onDisk, cp) == onDisk  \* mutant: Begin does not write cp
Opened(onDisk, cp) == Persist(onDisk, cp)

\* Snapshot keeps the first touch of a path in the turn.
FirstTouch(snaps, f) ==
  IF f \in DOMAIN snaps THEN snaps ELSE Put(snaps, f, files[f])
SnappedInMemory(onDisk, f, cp) == onDisk  \* mutant: Snapshot does not persist
Snapped(onDisk, f, cp) ==
  IF f \in DOMAIN cur.files THEN onDisk ELSE Persist(onDisk, cp)

\* One past the highest turn: what a store loaded from a directory continues.
NextTurn(onDisk) ==
  IF DOMAIN onDisk = {} THEN 0 ELSE Max(DOMAIN onDisk) + 1

Bounds(onDisk) == [t \in DOMAIN onDisk |-> onDisk[t].idx]

\* load sorts the checkpoints by turn.
Nth(S, n) == CHOOSE t \in S : Cardinality({u \in S : u <= t}) = n
Sorted(onDisk) ==
  [n \in 1 .. Cardinality(DOMAIN onDisk) |-> onDisk[Nth(DOMAIN onDisk, n)]]

\* RestoreCode's plan: the earliest snapshot of every path touched in turn
\* from or later, in turn order, the older checkpoint first among equals.
Holders(f, from) ==
  {i \in DOMAIN All : All[i].turn >= from /\ f \in DOMAIN All[i].files}
Touched(from) == {f \in Files : Holders(f, from) # {}}
Before(i, j) == All[i].turn < All[j].turn \/ (All[i].turn = All[j].turn /\ i <= j)
Latest(f, from) ==  \* mutant: the newest snapshot wins
  LET last == CHOOSE i \in Holders(f, from) :
                \A j \in Holders(f, from) : Before(j, i)
  IN  All[last].files[f]
Earliest(f, from) ==
  LET first == CHOOSE i \in Holders(f, from) :
                 \A j \in Holders(f, from) : Before(i, j)
  IN  All[first].files[f]

-----------------------------------------------------------------------------
(* A turn.                                                                 *)

running == phase # "idle"
started == phase \in {"open", "working"}
HasContent(log) == \E i \in DOMAIN log : log[i].kind # "system"

\* Controller.Snapshot: nothing is written for a log without content.
Save(log) == IF HasContent(log) THEN log ELSE saved

Send ==
  /\ ~running
  /\ Serial => cmd = NoCmd
  /\ count.turns < MaxTurns
  /\ phase' = "sent"
  /\ Spend("turns")
  /\ UNCHANGED <<start, edit, msgs, saved, work, storeVars, boundVars, cmd,
                 history>>

\* The message count at the start of the turn is its rewind boundary.
Boundary == Len(msgs)
BeginCheckpoint ==
  /\ phase = "sent"
  /\ phase' = "open"
  /\ start' = Len(msgs)
  /\ cpBound' = Put(cpBound, cpTurn, Boundary)
  /\ cpTurn' = cpTurn + 1
  /\ done' = All
  /\ cur' = Started(cpTurn, Boundary)
  /\ disk' = Opened(Closed(disk), cur')
  /\ live' = live \cup {cpTurn}
  /\ startOf' = Put(startOf, cpTurn, [log |-> msgs, files |-> files, utf8 |-> utf8])
  /\ stale' = stale \ {cpTurn}
  /\ UNCHANGED <<edit, msgs, saved, work, cmd, count, torn, dirty>>

Prompt ==
  /\ phase = "open"
  /\ Len(msgs) < MaxMessages
  /\ phase' = "working"
  /\ msgs' = Append(msgs, Msg("user"))
  /\ UNCHANGED <<start, edit, saved, work, storeVars, boundVars, cmd, count,
                 history>>

\* executeOne calls the pre-edit hook before it runs a writer tool.
PreEdit(f) ==
  /\ phase = "working" /\ edit = NoFile
  /\ count.writes < MaxWrites
  /\ edit' = f
  /\ cur' = [cur EXCEPT !.files = FirstTouch(cur.files, f)]
  /\ disk' = Snapped(disk, f, cur')
  /\ UNCHANGED <<phase, start, msgs, saved, work, done, boundVars, cmd,
                 count, history>>

\* write_file writes UTF-8, the editing tools the encoding they read.
Write ==
  /\ phase = "working" /\ edit # NoFile
  /\ Spend("writes")
  /\ files' = [files EXCEPT ![edit] = count.writes + 1]
  /\ utf8' \in IF files[edit] = Absent THEN {utf8 \cup {edit}}
               ELSE {utf8, utf8 \cup {edit}}
  /\ edit' = NoFile
  /\ UNCHANGED <<phase, start, msgs, saved, storeVars, boundVars, cmd,
                 history>>

WriteFails ==
  /\ phase = "working" /\ edit # NoFile
  /\ Spend("writes")
  /\ edit' = NoFile
  /\ UNCHANGED <<phase, start, msgs, saved, work, storeVars, boundVars, cmd,
                 history>>

\* A round of tool calls with its results, and the final answer.
Round ==
  /\ phase = "working" /\ edit = NoFile
  /\ Len(msgs) + 2 <= MaxMessages
  /\ msgs[Len(msgs)].kind = "user"   \* bound: one round a turn
  /\ msgs' = msgs \o <<Msg("call"), Msg("result")>>
  /\ UNCHANGED <<turnVars, saved, work, storeVars, boundVars, cmd, count,
                 history>>

Answer ==
  /\ phase = "working" /\ edit = NoFile
  /\ Len(msgs) < MaxMessages
  /\ msgs[Len(msgs)].kind # "answer"
  /\ msgs' = Append(msgs, Msg("answer"))
  /\ UNCHANGED <<turnVars, saved, work, storeVars, boundVars, cmd, count,
                 history>>

\* The turn returns, finished, failed, cancelled or blocked by a hook:
\* snapshotActivityIfChanged saves only a log that has grown.
EndTurn ==
  /\ started /\ edit = NoFile
  /\ phase' = "idle"
  /\ IF Len(msgs) > start
     THEN saved' = Save(msgs) /\ dirty' = FALSE
     ELSE UNCHANGED <<saved, dirty>>
  /\ UNCHANGED <<start, edit, msgs, work, storeVars, boundVars, cmd, count,
                 live, startOf, stale, torn>>

-----------------------------------------------------------------------------
(* Rewriting the log: a compaction keeps the system prompt and a tail of   *)
(* at least two messages that does not begin with a result.                *)

Compacted(log, from) ==
  <<log[1], Msg("summary")>> \o SubSeq(log, from, Len(log))
Tails(log) ==
  {from \in 4 .. Len(log) - 1 : log[from].kind # "result"}

Compact(from) ==
  /\ count.compacts < MaxCompacts
  /\ from \in Tails(msgs)
  /\ \/ phase = "idle" /\ (Serial => cmd = NoCmd)
     \/ phase = "working" /\ edit = NoFile /\ msgs[Len(msgs)].kind = "result"
  /\ Spend("compacts")
  /\ msgs' = Compacted(msgs, from)
  /\ \/ saved' = saved /\ dirty' = TRUE             \* in a turn, POST /compact
     \/ phase = "idle" /\ saved' = msgs' /\ dirty' = FALSE        \* Submit
  /\ stale' = live
  /\ UNCHANGED <<turnVars, work, storeVars, boundVars, cmd, live, startOf,
                 torn>>

-----------------------------------------------------------------------------
(* Commands of the frontend.  Each looks at running and the turn's         *)
(* boundary under the lock, and acts on them after releasing it.           *)

Listed == {All[i].turn : i \in DOMAIN All}
Look(op, t) ==
  /\ cmd = NoCmd
  /\ ~running
  /\ t \in Listed
  /\ cmd' = [op |-> op, turn |-> t, has |-> t \in DOMAIN cpBound,
             bound |-> IF t \in DOMAIN cpBound THEN cpBound[t] ELSE 0,
             wrote |-> FALSE]
  /\ UNCHANGED <<turnVars, msgs, saved, work, storeVars, boundVars, history>>

RewindLook(t, scope) ==
  /\ count.rewinds < MaxRewinds
  /\ scope \in Scopes
  /\ Look(scope, t)
  /\ Spend("rewinds")

SummarizeLook(t, side) ==
  /\ count.summaries < MaxSummaries
  /\ t \in DOMAIN cpBound
  /\ Look(side, t)
  /\ Spend("summaries")

\* RestoreCode writes the planned files one by one, as UTF-8 (a snapshot is
\* the decoded text); bad are those it cannot write.
RewindCode(bad) ==
  LET plan == Touched(cmd.turn) IN
  /\ cmd.op \in {"code", "both"}
  /\ bad \subseteq plan
  /\ Cardinality(bad) + count.faults <= MaxFaults
  /\ count' = [count EXCEPT !.faults = @ + Cardinality(bad)]
  /\ files' = [f \in Files |-> IF f \in plan \ bad
                               THEN Earliest(f, cmd.turn) ELSE files[f]]
  /\ utf8' = utf8 \cup (plan \ bad)
  /\ cmd' = IF bad # {} THEN [cmd EXCEPT !.op = "failed", !.wrote = files' # files]
            ELSE IF cmd.op = "code" THEN NoCmd
            ELSE [cmd EXCEPT !.op = "conversation", !.wrote = files' # files]
  /\ torn' = IF running \/ cmd.turn \notin live THEN -1
             ELSE IF cmd.turn < torn THEN cmd.turn ELSE torn
  /\ UNCHANGED <<turnVars, msgs, saved, storeVars, boundVars, live, startOf,
                 stale, dirty>>

\* The conversation is truncated at the boundary and the turns renumbered.
\* The checkpoints of the turns it leaves behind stay in the store and on
\* disk: they spoil code rewinds to later turns, and after a resume they are
\* offered again, where a rewind to one cuts the log inside a live turn.  A
\* truncation under a running turn shortens the log by more than the turn
\* adds, and the end of the turn does not save it.
KeptBounds(t) == Restrict(cpBound, {k \in DOMAIN cpBound : k < t})
RewindConversation ==
  /\ cmd.op = "conversation"
  /\ cmd.has /\ cmd.bound <= Len(msgs)
  /\ msgs' = SubSeq(msgs, 1, cmd.bound)
  /\ saved' = Save(msgs')
  /\ cpTurn' = cmd.turn
  /\ cpBound' = KeptBounds(cmd.turn)
  /\ cmd' = NoCmd
  /\ live' = {t \in live : t < cmd.turn}
  /\ stale' = IF cmd.turn \in live THEN stale \cap live' ELSE live'
  /\ torn' = IF /\ ~running /\ cmd.turn \in live /\ cmd.turn <= torn
                /\ files = startOf[cmd.turn].files
             THEN cmd.turn ELSE -1
  /\ dirty' = started
  /\ UNCHANGED <<turnVars, work, storeVars, count, startOf>>

\* A boundary past the end of the log is skipped without a word, a missing
\* one is an error the frontend shows.
RewindNothing ==
  /\ cmd.op = "conversation"
  /\ cmd.has /\ cmd.bound > Len(msgs)
  /\ cmd' = NoCmd
  /\ UNCHANGED <<turnVars, msgs, saved, work, storeVars, boundVars, count,
                 history>>

RewindUnavailable ==
  /\ cmd.op = "conversation"
  /\ ~cmd.has
  /\ cmd' = [cmd EXCEPT !.op = "failed"]
  /\ UNCHANGED <<turnVars, msgs, saved, work, storeVars, boundVars, count,
                 history>>

RewindFail ==
  /\ cmd.op = "failed"
  /\ cmd' = NoCmd
  /\ UNCHANGED <<turnVars, msgs, saved, work, storeVars, boundVars, count,
                 history>>

\* summarizeAt: a boundary outside the log, or with nothing on its side of
\* it, leaves the log alone; the boundaries are dropped either way.
Summarized ==
  LET b == cmd.bound IN
  CASE cmd.op = "from" /\ b < Len(msgs) ->
         Append(SubSeq(msgs, 1, b), Msg("summary"))
    [] cmd.op = "upto" /\ b > 1 /\ b <= Len(msgs) ->
         <<msgs[1], Msg("summary")>> \o SubSeq(msgs, b + 1, Len(msgs))
    [] OTHER -> msgs
Summarize ==
  /\ cmd.op \in {"from", "upto"}
  /\ msgs' = Summarized
  /\ cpBound' = Empty
  /\ saved' = Save(msgs')
  /\ cmd' = NoCmd
  /\ stale' = live
  /\ dirty' = started
  /\ UNCHANGED <<turnVars, work, storeVars, cpTurn, count, live, startOf,
                 torn>>

SummarizeFails ==
  /\ cmd.op \in {"from", "upto"}
  /\ cmd' = NoCmd
  /\ UNCHANGED <<turnVars, msgs, saved, work, storeVars, boundVars, count,
                 history>>

-----------------------------------------------------------------------------
(* Resuming the session: after a crash from the file as it is, or, when    *)
(* the user switches away and back, from a snapshot just taken.            *)

Resume(clean) ==
  /\ count.restarts < MaxRestarts
  /\ clean => ~running /\ cmd = NoCmd
  /\ saved' = IF clean THEN Save(msgs) ELSE saved
  /\ saved' # <<>>
  /\ Spend("restarts")
  /\ msgs' = saved'
  /\ done' = Sorted(disk) /\ cur' = Nobody
  /\ cpTurn' = NextTurn(disk)
  /\ cpBound' = Bounds(disk)
  /\ phase' = "idle" /\ start' = 0 /\ edit' = NoFile
  /\ cmd' = NoCmd
  /\ stale' = IF dirty /\ ~clean THEN live ELSE stale
  /\ torn' = IF All = Sorted(disk) THEN torn ELSE -1
  /\ dirty' = FALSE
  /\ UNCHANGED <<work, disk, live, startOf>>

-----------------------------------------------------------------------------

Next ==
  \/ Send \/ BeginCheckpoint \/ Prompt
  \/ \E f \in Files : PreEdit(f)
  \/ Write \/ WriteFails \/ Round \/ Answer \/ EndTurn
  \/ \E from \in 1 .. MaxMessages : Compact(from)
  \/ \E t \in Numbers, scope \in Scopes : RewindLook(t, scope)
  \/ \E t \in Numbers, side \in {"from", "upto"} : SummarizeLook(t, side)
  \/ \E bad \in SUBSET Files : RewindCode(bad)
  \/ RewindConversation \/ RewindNothing \/ RewindUnavailable \/ RewindFail
  \/ Summarize \/ SummarizeFails
  \/ \E clean \in BOOLEAN : Resume(clean)

Spec == Init /\ [][Next]_vars

-----------------------------------------------------------------------------
(* Properties.                                                             *)

Checkpoints == [turn : Numbers, idx : 1 .. MaxMessages,
                files : UNION {[S -> 0 .. MaxWrites] : S \in SUBSET Files}]
IsLog(log) == Len(log) <= MaxMessages /\ \A i \in DOMAIN log : log[i].kind \in Kinds
IsTurnMap(function, Values) ==
  DOMAIN function \subseteq Numbers /\ \A t \in DOMAIN function : function[t] \in Values
Ops == {"none", "code", "conversation", "both", "from", "upto", "failed"}

\* The state variables hold values of the program's types, a writer holds a
\* file only inside a turn, a file is in the store under its own number and
\* the next turn number is beyond every live one.
TypeOK ==
  /\ phase \in {"idle", "sent", "open", "working"}
  /\ start \in 0 .. MaxMessages
  /\ edit \in Files \cup {NoFile} /\ (edit # NoFile => phase = "working")
  /\ IsLog(msgs) /\ msgs # <<>> /\ IsLog(saved)
  /\ files \in [Files -> 0 .. MaxWrites] /\ utf8 \subseteq Files
  /\ \A i \in DOMAIN done : done[i] \in Checkpoints
  /\ cur \in Checkpoints \cup {Nobody}
  /\ IsTurnMap(disk, Checkpoints) /\ \A t \in DOMAIN disk : disk[t].turn = t
  /\ cpTurn \in 0 .. MaxTurns
  /\ IsTurnMap(cpBound, 1 .. MaxMessages)
  /\ cmd.op \in Ops
  /\ live \subseteq Numbers /\ stale \subseteq live
  /\ torn \in -1 .. MaxTurns /\ dirty \in BOOLEAN

\* A code rewind to a turn of the timeline gives every file the text it had
\* when the turn began, after any turns, rewinds, failed restores, crashes and
\* resumes, unless an earlier rewind reverted the files of that turn behind
\* the store's back or left checkpoints behind that have its number or a
\* higher one (torn).
RestoreExact ==
  [][(/\ cmd.op \in {"code", "both"} /\ cmd'.op \in {"none", "conversation"}
      /\ count.restarts' = count.restarts
      /\ ~running /\ cmd.turn \in live /\ cmd.turn <= torn)
     => files' = startOf[cmd.turn].files]_vars

\* The boundary of a turn of the timeline cuts the log exactly where the
\* turn began, unless the log was rewritten, or cut at a turn of another
\* timeline, since: cpBound, the numbering after a rewind and the boundaries
\* read back by a resume agree.
BoundsMap ==
  \A t \in (live \cap DOMAIN cpBound) \ stale :
    cpBound[t] <= Len(msgs) /\ SubSeq(msgs, 1, cpBound[t]) = startOf[t].log

\* A resume can offer every boundary the live session offers, with the same
\* value: each one is on disk before the turn's first message.
BoundsDurable ==
  \A t \in DOMAIN cpBound : t \in DOMAIN disk /\ disk[t].idx = cpBound[t]

\* Together: in memory and on disk the boundaries cut where turns began, in a
\* state of the right types.
BoundsRight == TypeOK /\ BoundsMap /\ BoundsDurable

\* A turn never takes the number of a turn of the timeline, whose snapshots
\* and boundary it would overwrite: not after a rewind and not after a resume.
NumbersAreFresh ==
  [][phase = "sent" /\ phase' = "open" =>
       cur'.turn \notin live /\ cur'.turn \notin DOMAIN cpBound]_vars

\* A writer changes a file only after the turn's checkpoint on disk holds the
\* text the file had when the turn began.
SnapshotPrecedesWrite ==
  [][files' # files /\ phase = "working" /\ cmd.op \notin {"code", "both"} =>
       edit \in DOMAIN disk[cur.turn].files]_vars

\* A turn's snapshots are there when they are needed: taken before the write
\* and under a number that no other turn takes.
SnapshotsHold == NumbersAreFresh /\ SnapshotPrecedesWrite

-----------------------------------------------------------------------------
(* What comments and documents say and the code does not do.               *)

\* controller.go:90 "dropped after a summarize restructures the log so those
\* operations report "unavailable" rather than mis-truncating": a boundary
\* that is offered maps to the start of its turn.
NeverMistruncates ==
  [][cmd.op = "conversation" /\ ~running /\ msgs' # msgs
       /\ count.restarts' = count.restarts /\ count.compacts' = count.compacts
     => msgs' = startOf[cmd.turn].log]_vars

\* controller.go:1202 "existing boundaries no longer map. Drop them": they do
\* not come back.
DroppedStayDropped == DOMAIN cpBound \cap stale = {}

\* controller.go:954 "later turns are gone".
RewoundTurnsAreGone == DOMAIN cpBound \subseteq live

\* controller.go:920 "Code reverts every file that turn (or a later one)
\* changed to its pre-turn content": a file the rewind changes gets the text
\* it had at the start of that or a later turn of the timeline.
RestoresPreTurnContent ==
  [][cmd.op \in {"code", "both"} /\ cmd'.op \in {"none", "conversation"}
       /\ count.restarts' = count.restarts /\ cmd.turn \in live
     => \A f \in Files : files'[f] \in {files[f]} \cup
          {startOf[t].files[f] : t \in {u \in live : u >= cmd.turn}}]_vars

\* The same line, of the bytes and not of the text alone.
RestoresEncoding ==
  [][cmd.op \in {"code", "both"} /\ cmd'.op \in {"none", "conversation"}
       /\ count.restarts' = count.restarts /\ cmd.turn \in live
     => utf8' = startOf[cmd.turn].utf8]_vars

\* controller.go:922 "Refused while a turn is running".
RefusedWhileRunning ==
  [][cmd.op = "conversation" /\ cmd' = NoCmd /\ count.restarts' = count.restarts
     => ~running]_vars

\* controller.go:1266 "Called after every turn so a crash loses at most one
\* in-flight prompt".
TurnsAreSaved ==
  [][phase = "working" /\ phase' = "idle" /\ count.restarts' = count.restarts
     => saved' = msgs']_vars

\* docs/CHECKPOINTS.md:90: the log is truncated and saved again.
RewindIsSaved ==
  [][cmd.op = "conversation" /\ cpTurn' # cpTurn /\ count.restarts' = count.restarts
     => saved' = msgs']_vars

\* controller.go:914: a failed rewind "did nothing".
FailedRewindDidNothing == [][cmd.op = "failed" /\ cmd' = NoCmd /\ count.restarts' = count.restarts
                              => ~cmd.wrote]_vars
=============================================================================
