---------------------------- MODULE SessionFiles ----------------------------
(***************************************************************************)
(* Which conversation is in memory and which file it is saved to:          *)
(* NewSession, Branch, ForkNamed, SwitchBranch, Resume and snapshot of     *)
(* control/controller.go, with the session pointer of agent/agent.go, a    *)
(* running turn that appends to whatever session the pointer names, and    *)
(* /compact, which runs on a goroutine of its own.                         *)
(*                                                                         *)
(* A conversation is a Session value in memory, numbered as it is made;    *)
(* the file minted with it has the same number.  A message is the set of   *)
(* ids it stands for: one for a message of a turn, many for a summary.     *)
(* System prompts are left out.                                            *)
(***************************************************************************)
EXTENDS Naturals, Sequences, Functions, FiniteSetsExt

CONSTANTS
  Gating,        \* what the frontend lets overlap: "server": everything;
                 \* "terminal": /compact with the turns and commands after
                 \* it; "patient": nothing, the user awaits the compaction
  MaxSessions,   \* bound: conversations of one behaviour
  MaxIds,        \* bound: messages of one behaviour
  MaxPasses,     \* bound: passes of /compact
  MaxFolds,      \* bound: compactions inside a turn
  MaxCommands    \* bound: commands of the user

VARIABLES
  log,       \* Session.Messages of every conversation made so far
  file,      \* the session files
  session,   \* Agent.session
  path,      \* Controller.sessionPath
  turn,      \* the turn: "idle", "running", "ending" (it has read path)
  started,   \* its startMessages
  turnPath,  \* the path the turn's snapshot will write
  cmd,       \* the command under way: its name, step, path and argument
  pass,      \* the /compact pass: "off", "on" or "save", with what it read
  used,      \* how often each bounded event has happened
  \* History, read by the properties only:
  home,      \* the conversation the running turn began in
  owns       \* the ids that belong in each conversation

turnVars == <<turn, started, turnPath>>
vars == <<log, file, session, path, turnVars, cmd, pass, used, home, owns>>

Sessions == DOMAIN log
Ids(messages) == UNION Range(messages)
HasContent(messages) == messages # <<>>
NoCmd == [op |-> "none", step |-> 0, path |-> 0, arg |-> 0]
NoPass == [at |-> "off", read |-> <<>>, path |-> 0]
running == turn # "idle"
Spend(event) == used' = [used EXCEPT ![event] = @ + 1]
Quiet == cmd = NoCmd
Rested == Gating = "patient" => pass = NoPass
Calm == UNCHANGED <<home, owns>>

Init ==
  /\ log = <<(<<>>)>> /\ file = <<(<<>>)>>
  /\ session = 1 /\ path = 1
  /\ turn = "idle" /\ started = 0 /\ turnPath = 0
  /\ cmd = NoCmd /\ pass = NoPass
  /\ used = [e \in {"ids", "passes", "folds", "commands"} |-> 0]
  /\ home = 1 /\ owns = <<{}>>

\* Controller.snapshot after it has read the path: the conversation the
\* executor holds by now replaces the file, unless it is empty.
Store(messages, p) ==
  file' = IF HasContent(messages) THEN [file EXCEPT ![p] = messages] ELSE file

-----------------------------------------------------------------------------
(* The turn.                                                               *)

StartTurn ==
  /\ ~running /\ (Gating # "server" => Quiet) /\ Rested
  /\ used.ids < MaxIds
  /\ turn' = "running" /\ started' = Len(log[session])
  /\ home' = session
  /\ UNCHANGED <<log, file, session, path, turnPath, cmd, pass, used, owns>>

\* session.Add reads the pointer anew for every message.
Add ==
  /\ turn = "running"
  /\ used.ids < MaxIds
  /\ Spend("ids")
  /\ log' = [log EXCEPT ![session] = Append(@, {used.ids + 1})]
  /\ owns' = [owns EXCEPT ![home] = @ \cup {used.ids + 1}]
  /\ UNCHANGED <<file, session, path, turnVars, cmd, pass, home>>

Folded(messages, keep) ==
  <<Ids(SubSeq(messages, 1, Len(messages) - keep))>>
    \o SubSeq(messages, Len(messages) - keep + 1, Len(messages))
TailOnly(messages, keep) ==  \* mutant: the summary is lost
  SubSeq(messages, Len(messages) - keep + 1, Len(messages))
Compaction(messages, keep) == Folded(messages, keep)

Fold ==
  /\ turn = "running"
  /\ used.folds < MaxFolds
  /\ Len(log[session]) >= 3
  /\ Spend("folds")
  /\ log' = [log EXCEPT ![session] = Compaction(@, 1)]
  /\ UNCHANGED <<file, session, path, turnVars, cmd, pass>> /\ Calm

\* snapshotActivityIfChanged: only a log that has grown is saved.
EndTurn ==
  /\ turn = "running"
  /\ IF Len(log[session]) > started
     THEN turn' = "ending" /\ turnPath' = path
     ELSE turn' = "idle" /\ UNCHANGED turnPath
  /\ UNCHANGED <<log, file, session, path, started, cmd, pass, used>> /\ Calm

SaveTurn ==
  /\ turn = "ending"
  /\ turn' = "idle" /\ turnPath' = 0
  /\ Store(log[session], turnPath)
  /\ UNCHANGED <<log, session, path, started, cmd, pass, used>> /\ Calm

-----------------------------------------------------------------------------
(* /compact: it reads the log, waits for the summary and replaces the log  *)
(* of whatever session the executor holds by then; then it saves.          *)

PassStarts ==
  /\ pass.at = "off" /\ used.passes < MaxPasses
  /\ Gating # "server" => ~running /\ Quiet
  /\ Len(log[session]) >= 3
  /\ Spend("passes")
  /\ pass' = [at |-> "on", read |-> log[session], path |-> 0]
  /\ UNCHANGED <<log, file, session, path, turnVars, cmd>> /\ Calm

PassReplaces ==
  /\ pass.at = "on"
  /\ log' = [log EXCEPT ![session] = Compaction(pass.read, 1)]
  /\ pass' = [at |-> "save", read |-> <<>>, path |-> path]
  /\ UNCHANGED <<file, session, path, turnVars, cmd, used>> /\ Calm

PassFails ==
  /\ pass.at = "on"
  /\ pass' = NoPass
  /\ UNCHANGED <<log, file, session, path, turnVars, cmd, used>> /\ Calm

PassSaves ==
  /\ pass.at = "save"
  /\ pass' = NoPass
  /\ Store(log[session], pass.path)
  /\ UNCHANGED <<log, session, path, turnVars, cmd, used>> /\ Calm

-----------------------------------------------------------------------------
(* Commands.  Steps 1 and 2 are the snapshot every one begins with: read   *)
(* the path, save the conversation there.                                  *)

WhileIdle == Gating # "server" => ~running
AnyTime == TRUE  \* mutant: the frontend takes commands during a turn
Gate == WhileIdle

\* NewSession looks at nothing; Branch, ForkNamed and SwitchBranch refuse
\* while a turn runs, and Branch an empty conversation.
Begin(op, arg) ==
  /\ Quiet /\ Gate /\ Rested
  /\ used.commands < MaxCommands
  /\ op # "new" => ~running
  /\ op \in {"new", "branch", "fork"} => Len(log) < MaxSessions
  /\ op = "branch" => HasContent(log[session])
  /\ op = "switch" => arg \in Sessions /\ HasContent(file[arg])
  /\ op = "fork" => arg \in 0 .. Len(log[session]) - 1
  /\ Spend("commands")
  /\ cmd' = [op |-> op, step |-> 1, path |-> 0, arg |-> arg]
  /\ UNCHANGED <<log, file, session, path, turnVars, pass>> /\ Calm

At(ops, step) == cmd.op \in ops /\ cmd.step = step
All == {"new", "branch", "fork", "switch"}
Step(n) == cmd' = [cmd EXCEPT !.step = n]

SnapshotPath ==
  /\ At(All, 1)
  /\ cmd' = [cmd EXCEPT !.step = 2, !.path = path]
  /\ UNCHANGED <<log, file, session, path, turnVars, pass, used>> /\ Calm

SaveLeft(messages, p) == Store(messages, p)
SnapshotSave ==
  /\ At(All, 2)
  /\ SaveLeft(log[session], cmd.path)
  /\ Step(3)
  /\ UNCHANGED <<log, session, path, turnVars, pass, used>> /\ Calm

\* A file and a Session for a new conversation.
Mint(messages, onDisk) ==
  /\ log' = Append(log, messages)
  /\ file' = Append(file, onDisk)
  /\ owns' = Append(owns, Ids(messages))

\* NewSession: the path first, the session after.
NewPath ==
  /\ At({"new"}, 3)
  /\ Mint(<<>>, <<>>)
  /\ path' = Len(log)+1
  /\ Step(4)
  /\ UNCHANGED <<session, turnVars, pass, used, home>>

NewSet ==
  /\ At({"new"}, 4)
  /\ session' = path
  /\ cmd' = NoCmd
  /\ UNCHANGED <<log, file, path, turnVars, pass, used>> /\ Calm

\* Branch copies the log, ForkNamed its beginning, each into a saved file;
\* the session first, the path after.
Copied ==
  IF cmd.op = "branch" THEN log[session]
  ELSE SubSeq(log[session], 1, Min({cmd.arg, Len(log[session])}))
Fork ==
  /\ At({"branch", "fork"}, 3)
  /\ Mint(Copied, Copied)
  /\ session' = Len(log) + 1
  /\ Step(4)
  /\ UNCHANGED <<path, turnVars, pass, used, home>>

ForkPath ==
  /\ At({"branch", "fork"}, 4)
  /\ path' = Len(log)
  /\ cmd' = NoCmd
  /\ UNCHANGED <<log, file, session, turnVars, pass, used>> /\ Calm

\* SwitchBranch and Resume load the file into a Session of its own.
Loaded(n) == file[n]
Switch ==
  /\ At({"switch"}, 3)
  /\ log' = [log EXCEPT ![cmd.arg] = Loaded(cmd.arg)]
  /\ session' = cmd.arg
  /\ Step(4)
  /\ UNCHANGED <<file, path, turnVars, pass, used>> /\ Calm

SwitchPath ==
  /\ At({"switch"}, 4)
  /\ path' = cmd.arg
  /\ cmd' = NoCmd
  /\ UNCHANGED <<log, file, session, turnVars, pass, used>> /\ Calm

-----------------------------------------------------------------------------

Next ==
  \/ StartTurn \/ Add \/ Fold \/ EndTurn \/ SaveTurn
  \/ PassStarts \/ PassReplaces \/ PassFails \/ PassSaves
  \/ \E op \in All, arg \in 0 .. MaxIds : Begin(op, arg)
  \/ SnapshotPath \/ SnapshotSave
  \/ NewPath \/ NewSet \/ Fork \/ ForkPath \/ Switch \/ SwitchPath

Spec == Init /\ [][Next]_vars

-----------------------------------------------------------------------------
(* Properties.                                                             *)

\* Every conversation has one file, and the pointers name conversations.
TypeOK ==
  /\ Len(log) \in 1 .. MaxSessions /\ Len(file) = Len(log) /\ Len(owns) = Len(log)
  /\ session \in Sessions /\ path \in Sessions /\ home \in Sessions
  /\ turn \in {"idle", "running", "ending"}
  /\ started \in 0 .. MaxIds
  /\ turnPath \in Sessions \cup {0} /\ (turnPath # 0 <=> turn = "ending")
  /\ cmd.op \in All \cup {"none"} /\ cmd.step \in 0 .. 4
  /\ pass.at \in {"off", "on", "save"}
  /\ \A n \in Sessions : Ids(log[n]) \cup Ids(file[n]) \subseteq 1 .. used.ids

\* A conversation and its file hold only messages of turns that began in it
\* or that it was branched with: no turn, save or compaction crosses over.
OwnConversation ==
  \A n \in Sessions : Ids(log[n]) \cup Ids(file[n]) \subseteq owns[n]

\* No message of a conversation is forgotten: every rewrite of the log keeps
\* it or a summary of it, and switching away and back brings it back.
NothingForgotten == \A n \in Sessions : running \/ cmd # NoCmd \/ owns[n] \subseteq Ids(log[n])

\* A conversation the user has left is on disk in full, so that switching
\* back restores it, even if its last turn was not saved.
LeftIsSaved ==
  \A n \in Sessions \ {session} :
    ~running /\ Quiet /\ pass = NoPass => owns[n] \subseteq Ids(file[n])

\* No message is lost, in the open conversation or in one the user has left.
NothingLost == NothingForgotten /\ LeftIsSaved

-----------------------------------------------------------------------------
(* What comments say and the code does not do.                             *)

\* controller.go:870 "rotates to a fresh file, and resets the executor to a
\* clean session": one that was given no message holds none.
NewSessionIsClean == owns[session] = {} => log[session] = <<>>

\* controller.go:1264 "Snapshot writes the executor's conversation to the
\* active session file": no other file gets it.
SavesToItsOwnFile ==
  [][\A n \in Sessions : file'[n] # file[n] => n = session]_file

\* agent.go:247 "Callers serialise it against a running turn (it only fires
\* while idle)".
SwapsOnlyWhileIdle == [][session' # session => ~running]_session

\* compact.go:98 "The dropped originals are archived first, so the full history
\* stays traceable": what the pass did not read, it does not drop.
HistoryStaysTraceable ==
  [][pass.at = "on" /\ pass'.at = "save" => Ids(log[session]) \subseteq Ids(log'[session])]_vars
=============================================================================
