# TLA+ verification of roach-code

This directory holds TLA+ models of the coding agent in `internal/`, the TLC
configurations that check them, and TLAPS proofs of the properties that matter
most. Paths below are relative to `internal/` unless they begin with `docs/`.

Contents: 1 the system, 2 the modules, 3 the runs, 4 fairness, 5 what is
proved, 6 promises the code breaks, 7 what is not modelled, 8 plan.

## 1. The system

roach-code is a terminal coding agent. A *controller* owns one chat session: it
admits turns, asks the user for permission, keeps checkpoints and session
files. A turn runs the *agent loop*: send the history to a provider, stream the
answer, execute its tool calls, append the results, compact when the context
fills. Tools are built in or come from MCP server processes, language servers
and sub-agents; background jobs outlive a turn. Frontends (terminal, HTTP
server, editor protocol) drive the controller, and the last two drive it
concurrently. Configuration, facts, skills, sessions and attachments are files
that several processes share without a lock.

| Component | State it keeps | Operations | Interacts by | What is hard | What makes it correct |
|---|---|---|---|---|---|
| Approval bridge, `control/controller.go` | registered prompts, session grants, bypass, `promptMu` | requestApproval, Ask, Approve, AnswerQuestion, SetBypass | blocks tool calls; reply channels; events to the frontend | parallel calls, a cancel that races an answer, several clients | one prompt at a time, answers reach their own prompt, nothing runs without a reason, calls end |
| Turn guard and goal loop, `control/controller.go` | running, the cancel function, the armed goal, auto-approval | Send, Cancel, SetGoal, ClearGoal, /goal | re-prompts the agent, reads the session | goals and cancels between any two checks, compaction under kept indices | one turn at a time, no leaked auto-approval, stop means stop |
| Background jobs, `jobs/jobs.go` | registry, per-job status, buffer, read offset, queue of completion notes | Start, Output, Kill, Wait, Close, DrainCompletedNote | goroutines, `done` channels, the next turn's message | Kill against the job's own end, two readers, order of note and close | notes there before waiters wake, once and true; output once in order |
| Checkpoints and rewind, `checkpoint/checkpoint.go` | pre-edit snapshots in memory and on disk, turn boundaries | Begin, Snapshot, RestoreCode, Rewind, SummarizeFrom/UpTo | the writer tools' previews, the session log | numbers reused after a rewind, crashes between files, partial restores | boundaries cut where turns began, restores are exact |
| Sessions and branches, `control/`, `agent/session.go`, `agent/branch.go` | the session pointer, its path, the files and their sidecars | NewSession, Branch, Fork, Switch, Resume, the lists and the tree, snapshot | the agent appends to the pointer | pointer and path are two fields, /compact runs beside; two files per branch | no message in another's file, none lost; the tree is whole and a reference means one branch |
| Agent loop, `agent/agent.go`, `agent/compact.go`, `provider/provider.go` | the log, receipts, storm counter, compaction latch | RunMessage, executeBatch, compact, SanitizeToolPairing | provider streams, tools, /compact | fan-out, cuts through the log, repair by counting | every request well-formed, serial calls alone, evidence is real |
| Permissions and hooks, `permission/`, `hook/` | rules, settings, trust (immutable in a turn) | Decide, matchGlob, Check, Run | consulted before and after each call | precedence, backtracking over stars, a hook that times out or dies with the turn | a call runs only behind a complete gate; a glob means what is declared |
| Model providers, `provider/*` | one request, its stream, the login file | send with retries, readStream, buildRequest, refresh, login, logout | HTTP; the agent folds chunks | fragments, retries, cancels, single-use refresh tokens | calls whole and once, no retry after output, a stored token is live |
| Workflow and sub-agents, `workflow/`, `agent/task.go` | slots, counts, tokens, promises | Run, agent(), settle | goroutines post to the script's loop | a script that returns with agents at work | caps hold, promises settle, one layer deep |
| Task list, `evidence/`, `tool/builtin/completestep.go` | a ledger of receipts | todo_write, complete_step | the agent records each success | matching items that move and are renamed | nothing becomes completed that was not signed off |
| MCP transports, host and lazy servers, `plugin/` | ids, pending map, session id; clients, failures, spawn state, registry | call, readLoop, close; Add, Remove, kick, Execute | child processes, HTTP, the tool registry | late answers, death of the child, expired sessions, handshakes outside every lock | an answer goes to its own call; honest status, no lost process |
| Language servers, `lsp/` | connection, servers by language, documents and versions, diagnostics | call, pump, resolve, sync, diagnostics | child processes; parallel queries | queries against an edit, a crash, a server that calls back | one server, answers about the current text |
| ACP server, `acp/` | sessions, cancel functions, outstanding permission requests | new, load, prompt, cancel, teardown | a goroutine per request over one pipe | one cancel field, replaced sessions | cancel finds the turn, a tool runs on the client's own answer |
| HTTP server and broadcaster, `serve/` | the controller pointer, subscribers | submit, approve, switchModel, Emit | handlers race with the swap | a pointer read and used later | the conversation is carried over, frames in order |
| Chat terminal, `cli/chat_*.go` | composer, transcript and indexes into it, overlays, queue | keys, events, unsend, completion, pastes | one event loop behind a channel | the channel trails the controller; blocks move under kept indexes | what is shown is what happened, what is typed arrives |
| Text box, `textarea/` | runes, cursor, window | keys, wrap, motions | the terminal | wide runes, soft wrap | the cursor is where the text says |
| File and search tools, diffs, `tool/builtin/`, `diff/` | none between calls | edits with previews, grep, glob, read_file, myers | files others change | the preview is a second copy of the edit | what is written is what was shown; searches miss nothing |
| Configuration, memory, skills, attachments, `config/`, `memory/`, `skill/`, `control/attachments.go` | files | load, edit, save; remember, forget; install; save | other processes, later sessions | load, change and write back | an edit does what it says and no more |
| Assembly of a session, `boot/`, `plugin/stats.go`, `plugin/cache.go` | bundle, records of startups, schemas | Build, Close, use, record | all of the above | failures halfway, the successor overlaps | every process has an owner, every tool its server's schema |

The other packages and why they are left out are in section 7 and, one entry
each, in `PROJECT.json`.

Where components meet, the model of one contains the other's interface. A
turn's calls (AgentTurn) pass the gate (Hooks) and block in the bridge
(Approval: `Callers`); the goal loop switches the bridge's `goalAutoApp` (in
both); Compose drains the jobs' notes (Jobs: `composing`) and the notes of
memory (MemoryStore: `Compose`); the checkpoint's boundaries index the log that
the loop's compaction rewrites (Checkpoint: `Compact`); requests are built from
the log as ToolPairing repairs it (Requests extends it); Boot writes what its
next build reads. Four connections that answer requests implement one abstract
promise, RpcCalls. The interleaving a frontend allows is a constant wherever it
matters: the terminal's loop runs one command at a time, the HTTP server any.

## 2. Modules and how they correspond to the code

One action is one critical section of a mutex, one channel operation, one
system call that may fail, or one call into another component, whichever the
function does next; local variables that live across such a step are variables
of the model. `PROJECT.json` maps every action and every operator that
translates code of its own to its lines; tuples of variables, sets and small
helpers stand in the lines of the definitions that use them.

**Control**

* **Approval** — `requestApproval` as Call, Gate, LockPrompt, the re-check,
  registration, the event, the select (answer or cancel, both may be ready),
  storing a grant and the deferred unlock; `Ask` likewise without a gate;
  `Approve`/`AnswerQuestion` in two steps, because the id is deleted under
  `c.mu` and the reply sent after it. Ids count up to `MaxID`. Variables marked
  history are read by properties only.
* **GoalLoop** — `runGuarded` (check and set in one section, the deferred
  finish), the run of the agent as a sequence of appended messages that may be
  compacted or cancelled, `runGoalLoop` check by check with its locals `cond`,
  `since` and `before`, `SetGoal`, `ClearGoal` (clear, then cancel), `Cancel`
  (read the function, then call it), and the kick of `/goal`.
* **Jobs**, **JobLifecycle** — `Manager` and `Job` at the grain of their two
  mutexes. A job's goroutine launches, streams chunks, returns, records its
  verdict and completion, closes `done`; Kill flips, then cancels. JobLifecycle
  is the abstract promise without locks, buffers and waiters; Jobs implements it.
* **Checkpoint** — the store with `done`, `cur` and its files on disk, the
  controller's `cpTurn` and `cpBound`, turns whose tools snapshot and write, the
  rewind of each scope with files that fail to be written, summaries,
  compaction, saves, crash and resume. A file is the number of the write that
  produced its text and whether it is UTF-8.
* **SessionFiles** — conversations and files by number, messages by the set of
  ids they stand for, the session pointer and path as two variables, the
  commands step by step, a turn that compacts, `/compact`.
* **Branches** — sidecar records beside the session files, written after them:
  branch, fork, new, switch, resume by index or reference, the tree and the list,
  with a crash or a failed write after any write. A fork is named by a turn that
  has a checkpoint: `bound` is `cpBound`, and `points` are the boundaries on disk from
  which every change of the session rebuilds it (rebindCheckpoints). Whether a
  failed save ends the command depends on the command (WriteFails).

**Agent**

* **ToolPairing** — `SanitizeToolPairing` as pure operators with its fast path,
  the pairing by id or by order, and the repair of truncated arguments.
* **AgentTurn** — the loop over ToolPairing: stream, batch (partition into
  parallel segments and serial calls), receipts, storm breaker, append,
  compaction with alignment and latch, `/compact` beside it, crash and resume.
* **Hooks** — what stands between a turn and its effects, in the order of
  `runTurn` and `executeOne`: UserPromptSubmit, PostLLMCall, an unknown tool,
  the gate with the rules' precedence and the commands that only read,
  PreToolUse, the call, PostToolUse, SubagentStop, Stop. A glob is the set of
  subjects it matches; what `matchGlob` computes is Glob.
* **Glob** — `matchGlob`, one iteration a step, with the code's four counters.
* **TodoSteps** — the ledger of a turn, `todo_write` and `complete_step` with
  their matching by text, by activeForm and by number.
* **Workflow** — calls of `agent()` as workers under count (raised in one step,
  rolled back above the cap in another), token ceiling and slots; the loop that settles their promises; return, throw and cancel;
  the tools a sub-agent is given.
* **ProviderStream** — attempts and backoff, then frames of the three wire
  protocols put together into chunks, which `Agent.stream` gathers one by one; **Requests**
  — `buildRequest` of the three providers over one repaired history;
  **AuthRefresh** — the credential file under refreshes, logins and logouts.

**Connections**

* **RpcCalls** — the abstract promise: a call ends at most once, as answered
  only when the peer has read that very request.
* **StdioTransport**, **HttpTransport**, **LspConn** — `call`, the reader,
  failure and close at the grain of their mutexes, pending maps and pipes. The
  peer is external: it reads, answers late, twice or never, and exits. What it sends
  beyond one answer to each call is bounded: LspConn's MaxAsks counts its own
  requests, garbled frames and repeated answers together.
* **LspServers** — the manager's servers (start, crash, close) and one document
  in step with the disk, parallel queries and diagnostics pushed by the server.
* **McpServers** — one configured server: boot's registration, `Host.Add`
  (look-up, handshake, append), `Host.Remove`, prompt fetches, the lazy spawn,
  the registry's names, connect and remove commands.
* **AcpServer** — the read loop with a goroutine per request, sessions and the
  cancel field, permission requests the other way, teardown.

**Frontends**

* **HttpServer** — requests that read the controller pointer and act on it
  later; a turn that is running (Submit) before its prompt has joined the
  conversation (Record); `switchModel` as look, read of the history, snapshot, build,
  swap, close when idle; and, a state machine of its own, the broadcaster's fan-out
  (FanInit, FanNext): emitters that take `b.mu`, offer a frame to one bounded
  channel after the other and unlock, and tabs that come and go.
* **ChatTui** — the event loop against the controller's channel: lines, `/goal`
  lines (which Enter takes at any time), prompts, references resolved off the loop,
  takeback, interrupts, TurnDone. History: `crossed`, a turn was begun or refused
  before the TurnDone of the last was read; `overtaken`, the turns so begun.
* **Transcript** — the blocks of the terminal and every index kept into them,
  as events append to, rewrite and drop them.
* **Composer** — the line with its menu, pasted labels, history and references;
  how an image is named, read and published (ImageInit, ImageNext);
  **Textarea** — the box, its wrap, motions, edits and window.

**Files**

* **ConfigFiles** — layers, merge, and edits that load, change and save in
  place while another process does; **MemoryStore** — fact, index and note in
  three steps; **Boot** — two builds that follow each other, servers by tier,
  records and schemas; **Skills** — discovery, precedence, listing, calling and
  `install_skill`.
* **FileEdits** — Preview and Execute of six tools, with others touching the
  file between; **LineDiff** — myers with its bound and the way back;
  **Search** — grep's walk under ignore rules, recursive glob, paged reads.

The `MC*` modules give names and values to the constants of the runs, as do the
last definitions of AgentTurn; MCRpc, MCFronts, MCModel and MCStores, about which
RpcProofs, FrontProofs, WorkProofs and SessionProofs prove, leave their constants to
`Rpc.cfg`, `Fronts.cfg`, `Model.cfg` and `Stores.cfg`. MCRpc,
MCFronts, MCModel, MCStores and MCText set several independent parts side by
side: the variable `focus` picks the part a behaviour moves, the others stay in
an initial state, and a property of the run is the conjunction of the parts'
properties. Nothing is composed that the code composes by a call; the grouping
only shares a run.

Data is abstracted to what the properties tell apart. Left out throughout:
wording, notices, statistics, token counts (a compaction may fire whenever its
trigger may, a tail may be cut wherever `tailStart` can cut).

## 3. Runs

All bounds are constants. A run's bounds are the smallest at which every action
fires and each mutant listed in `PROJECT.json`, a plausible slip in the code,
is caught; the last column says why more would add little. The states are those
of a complete search.

| Run | Properties and their parts | Bounds | States | Why they are enough |
|---|---|---|---|---|
| `approval` | PromptsTidy, AllowedForAReason, PromptsStayApart (TypeOK, AnswersDoNotCross, NoRepromptAfterGrant), CallsEnd | 2 callers, 2 keys and `ask`, 2 prompt ids | 248 000 | two prompts give every race between an open prompt and a queued call; all but liveness is proved for all numbers |
| `goal` | TurnsAreApart (with TypeOK), StopsWhenTold (with CancelKeepsGoal) | 2 turns, 2 runs, 1 tool round, 1 goal set once | 303 000 | a turn with a continuation and a turn beside it; clearing, cancelling and sending at every step; all but liveness is proved for all goals and numbers |
| `jobs` | NotesAreTrue, OutputOnceInOrder, ImplementsLifecycle, JobsSettle | 1 job, 2 chunks, 2 waiters | 22 500 | no step relates two jobs; all but liveness is proved for any number |
| `ckpt` | BoundsRight (with TypeOK), RestoreExact, SnapshotsHold (NumbersAreFresh, SnapshotPrecedesWrite) | 1 file, 3 turns, 3 writes, 5 messages; 1 each of compaction, summary, rewind, failed write, restart; turns and commands overlap (Serial FALSE) | 9.1 million | three turns are needed for a rewind that reuses the number of a turn that wrote; files are independent; two rewinds and four turns are beyond TLC here, and the proofs have no bound |
| `agent` | PairingHolds (with TypeOK), LoopGuards, LedgerIsTrue (SerialCallsAlone, EvidenceIsReal) | 2 turns, 3 answers, 2 rounds a turn, 2 goroutines, 1 `/compact`, 1 crash | 12.8 million | batches of two reach every segment boundary; three answers reach the storm breaker and a third compaction; all three are proved for logs of any length |
| `mcp` | ServersAreUsable (TypeOK, HostIsHonest, ConnectedIsUsable), CallsReturn | 2 calls, 2 commands, 3 connections, all tiers, cached or not, terminal and server | 980 000 | two calls race on the first use, two commands race with the spawn; the invariant is proved for any numbers |
| `rpc` | AnswersAreOwn, NothingLeftBehind, ImplementsRpc, CallsEnd of StdioTransport, HttpTransport, LspConn, LspServers, AcpServer | stdio: 3 calls, pipes of 2 and 1 lines; LSP: 2 calls or queries, 1 retry, 1 frame the server need not have sent (a request, a garbled frame or a repeated answer), ContentModified for the first 2 requests only, 2 edits, 2 servers; ACP: 2 loads, 2 prompts, 1 cancel of one session, 4 frames; HTTP: 2 calls and a notification, 2 sessions, 1 stray event | 1.1 million | one call abandoned, one waiting, one queued; requests that differ in nothing are numbered in the order they begin; all but liveness is proved for any calls, pipes, ids, servers and sessions |
| `fronts` | ViewIsTrue, CommandsMeetTheirTurn, SwitchIsClean, NothingForTheGone, FrontsSettle of ChatTui, HttpServer and its fan-out | 3 lines, 2 turns, 2 prompts, a channel of 2; 2 submits, 2 switches, 1 approval; 2 tabs, 2 emitters, 4 frames, buffers of 2 | 2.3 million | a channel that is full, a switch beside a switch beside a turn, a prompt that joins late beside either, a buffer that overflows and drains, a tab that leaves while a frame is on its way; all but liveness is proved for any lines, turns, channels, requests, tabs, emitters and buffers |
| `model` | WireIsTrue, WorkIsAllowed, OneWholeAnswer (AnswerIsWhole, RetriesAreSafe), AllEnd of ProviderStream, Requests, AuthRefresh, Hooks, Workflow, TodoSteps | 3 wire formats, 2 calls of 2 fragments; 3 messages; 2 clients, 3 calls, 3 tokens; 4 settings files, 81 policies, 15 calls; 3 agents, 1 slot, 2 in all; 2 items, 3 receipts | 754 000 | calls interleave by fragment; a client of two goroutines beside another; every list of rules against every other; settings vary under no rules and rules under no hooks, since neither reads the other; all but WireIsTrue and liveness is proved for all constants |
| `stores` | KeptApart, NothingMissing, EditsHold, BuildsEnd of SessionFiles, ConfigFiles, MemoryStore, Boot, Branches | 3 conversations, 4 messages, 4 commands, 1 pass, 1 fold, the user awaits `/compact`; 2 processes, 2 servers, 3 edits, 4 states of the files; 2 facts, 2 writers, 3 changes; 3 servers, 2 builds, 1 edit; 4 ids with shared parts, 4 turns or commands, 2 faults | 2.2 million | away, elsewhere and back again; two processes between each other's load and save; a build that reads what the one before recorded; ids that are prefixes of each other; KeptApart and NothingMissing are proved for all constants under this gating |
| `text` | VerdictIsRight (MatchIsRight, NoMatchIsRight), AnswersAreRight, ScreenIsTrue, EditsAreExact, LoopsEnd of Glob, FileEdits, LineDiff, Textarea, Composer, Search, Skills, the images of Composer, Transcript | globs to length 4, names to 5; texts to 4 characters, Go files of 3 lines, notebooks of 2 cells; files of 4 lines of 2 kinds, 4 edits; a box of 4 columns, 4 runes, 3 lines; 4 keys; 10 paths, 3 rule files, texts of 4 bytes; 2 sessions, 2 installs; 2 processes, 2 images; 2 turns of 1 message with 2 calls, 2 extras | 768 000 | every input of that size; two stars with text between and after is the shape that backs up, two calls of a message the one that crosses cards; VerdictIsRight is proved for all patterns and names |
| `word_left` | KeysEnd, expected to be violated | a box of 2 characters | | see below |

In the runs with foci, the parts of a property are named in the comment and the
body of its definition in the MC module.

`word_left` shows a promise broken: with nothing but spaces before the cursor
the loop of `wordLeft` (`textarea/textarea.go:973`) goes back to the start of
the text and never leaves it. SearchLeft is one iteration; at the start of the
text an iteration changes nothing, so under its fairness the behaviour that
stays there is the endless loop.

Deadlock is checked in `approval` and `jobs`, which can always go on. The other
models stop where a bound is used up (the last turn, command, call or key), so
their configurations say so.

Some properties hold under a premise that the broken promises force:

* Terminal (CommandsMeetTheirTurn, ViewIsTrue): IdleMeansIdle excepts a turn that
  overtook an unread TurnDone (`overtaken`): `/goal <text>` looks at the controller
  and starts a turn while the TurnDone of the one before is still in the channel
  (EnterIsIgnored in section 6). The next turn is covered again, and BusyMeansBusy,
  the other direction, has no premise. PromptIsLive excepts prompts of a cancelled
  turn; TranscriptTrue speaks up to the first turn begun or refused behind the
  loop's back (`crossed`).
* HTTP server: DecidedAsShown is about prompts of the controller that is asked.
  SwitchIsClean excepts a prompt that joins the conversation after a switch has
  read it, or one that the switch will not read (`raced`): its turn was not seen at the
  look at Running (`serve/serve.go:125`) or joins between the history's read and the swap.
* Language server's connection (CallsEnd): an answer that the server repeats
  finds a full channel of a call that reads no more and jams the pump for good
  (`Jammed`, `lsp/jsonrpc.go:154`); from then on a call is only promised to return
  by its cancel.
* Language servers (AnswersAreOwn): SyncedText and CurrentProblems hold as long as
  no two queries synchronised a file at once (`overlap`); the look at the version
  and the sending are under no common lock (`lsp/client.go:157`).
* Checkpoints: RestoreExact speaks of turns of the timeline up to `torn` (a rewind
  reverts files the store does not snapshot and leaves checkpoints behind whose
  numbers are given again, so that other checkpoints then lie) and of commands that
  no turn overlaps, BoundsRight of boundaries not `stale` (compaction, summaries, a
  cut at a turn of an abandoned timeline).
* Files (EditsHold, NothingMissing): the properties of ConfigFiles and MemoryStore are
  about changes that met no other (`apart`, `rivals`).
* Conversations (KeptApart, NothingMissing): the run takes the patient gating, a
  client that awaits each command; with any overlap of `/compact` the promises of
  section 6 fail, and nothing is said of clients that do not wait.
* Branches (EditsHold): ParentsComeFirst excepts a fork whose snapshot failed before
  the conversation it leaves had a record (`unaged`): EnsureBranchMeta's error is
  only logged, and the parent then gets its age from a later turn's save, after that
  of its branch (`control/controller.go:998`, `agent/branch.go:122`). The run's 4
  turns or commands are too few to meet this; with MaxTicks 6 and the focus on the
  tree TLC finds it without the exception and passes with it.

## 4. Fairness

* Approval: weak fairness of each caller's own steps and of the send that
  follows a deleted id; strong fairness of LockPrompt, since Go's mutex hands
  over to a waiter that starved for a millisecond. Nothing is asked of the user:
  CallsEnd begins with a cancel or an accepted answer.
* GoalLoop: weak fairness of the turn's goroutine, of the end of a run of the
  agent (it stops at `max_steps`, on an error or on a cancel), and of a client
  that has begun ClearGoal, Cancel or the kick.
* Jobs: weak fairness of the goroutine's launch, record and close, of the cancel
  after a flip, of a waiter whose jobs are done, and of the return of a job
  whose context is cancelled (`exec.CommandContext` with `WaitDelay`). A job that
  nobody cancels may run for ever.
* McpServers: weak fairness of goroutines inside this process. That the server
  ends its handshakes and calls is the premise `Answers` of CallsReturn.
* StdioTransport: each call, the reader and the kill in `close`; nothing is
  asked of the server. LspConn: the same, and a server that goes on reading
  where `Reads` says so. LspServers: a query once it has begun. HttpTransport:
  a free mutex is taken. AcpServer: handlers, the waiting for a permission once
  the turn is cancelled, the shutdown; a cancelled turn ends.
* HttpServer: handlers and the goroutine that closes a retired controller.
  ChatTui: the loop reads its channel, a cancelled turn ends, the emission
  behind a turn happens. Neither asks the user for anything.
* ProviderStream: an attempt returns, a wait ends, a cancelled body is closed, and
  what the reader held back goes out.
  AuthRefresh: each call goes on. Hooks: each hook exits or is killed at its
  timeout. Workflow: workers move and sub-agents finish; the script may loop.
* Boot: handshakes end, by their timeout at the latest. Glob, LineDiff, Search:
  the loop runs. Composer: Enter is pressed again and the agent answers.

In runs with foci the fairness is that of the part that moves: the same
formulas, conjoined with the focus. AgentTurn, Checkpoint, SessionFiles,
ConfigFiles, MemoryStore, Branches, TodoSteps, Requests, FileEdits, Skills,
Transcript, the images of Composer and the fan-out of HttpServer are checked for
safety only.

## 5. What is proved

TLAPS proves these for every value of the constants, under the named
assumptions of the modules alone; the two about the run `stores` also assume its
gating. The assumptions say that bounds are naturals
(that the first text and the system message fit in, that a batch has a slot), that
a sentinel is no member of the set it extends (an operation's key is not `Ask`,
a call is not named `run` or `free` or like an error, a typed
line is not `none` or `echo`), that files, calls, users and
model switches are finitely many, that each new session has an id of its own, that the gates and scopes are those of the code, and that
patterns, names and batches are sequences of the right members.

None of the properties is inductive as it stands; each module begins with the
strengthening, a conjunction of named parts with the reason of each. That of
Checkpoint was checked by TLC with four turns and two rewinds before it was proved.

**FrontProofs**, the bridge. TypeCorrect, OnePrompt, NoOrphans, SendsDoNotBlock,
PromptsStayTidy, NothingRunsUnasked, PromptsApart. Inv adds: MutexInv, whoever
stands between lock and unlock holds `promptMu`, hence one prompt; OwnerInv, a
registered id was handed out and its caller stands by; AnsweredInv, an id with an
answer under way or delivered has left the maps for good, hence the send finds
room; VerdictInv, what travels is the user's verdict; CallInv, a caller's prompt
is about its own operation and a grant about to be stored is the user's.
NothingRunsUnasked follows with two lemmas: verdicts and grants never change once
given. PromptsApart needs more (ApartInv): the caller behind the lock has the
newest id, an id not yet handed out has no answer, replies are of their prompt's
kind, and a session grant that was received is stored or its caller is about to
store it with the lock still held, so nobody who queues can have missed it.

**FrontProofs**, the frontends. ViewsAreTrue, CommandsMeet, SwitchesAreClean,
NothingAfterGone: what the run `fronts` checks, for all constants, as in RpcProofs
with an invariant for each part (TuiInv, ServeInv, FanInv) and FrontsParts to say
that a step is a step of one part.

* Terminal: the loop is busy while a turn runs that overtook nothing, and then no
  TurnDone is on its way; it is busy only while a turn runs or a TurnDone is (TuiKnown).
  Until a turn is begun behind the loop's back (`crossed`, the premise of what it
  promises about the transcript), the channel holds events of the latest turn only,
  its done last (TuiTurns); its replies are those not heard yet, in order (TuiQueue);
  a turn shows what was heard of it, or nothing if it was un-sent (TuiShown); behind a
  bubble that may be taken back stand only echoes (TuiRestore), hence taking it back
  takes no reply away. Without that premise: a prompt in the channel or on the screen
  is one that the run goroutine waits for, unless its turn was cancelled, and is
  there once (TuiPrompts).
* HTTP server: a switch builds one controller at most, so that a number is left for
  each (ServeRequests); whatever controller a switch holds, and whatever it carries,
  has every prompt but those that raced, and a prompt that joins late joins the
  current controller, which every switch before its read still will read, or races (ServeCarries); a controller about to be
  swapped in is new and of that switch alone (ServeSwaps), so that none is closed
  twice or while it is current.
* Fan-out: a tab's frames, got and buffered, are increasing, were emitted while it
  was there, and with the dropped ones and the one on its way are all of them; only the
  emitter that holds `b.mu` has tabs left to offer its frame to, and those are open
  (FanLock), so that nothing is sent into a closed channel.

**WorkProofs**, around the answer. WorkIsLetIn and
AnswersAreOneAndWhole: two properties of the run `model` for all constants, each part with its invariant and
ModelParts to say that a step is a step of one part.

* Gate and hooks: of the event at work, exactly the wanted hooks before `pos` have
  returned, each once, and the one that refused is the last (GatesNow, GatesLog);
  nothing has fired of the events still to come (GatesAhead); the answer is one the
  decision admits (GatesAnswer); what an earlier stage let pass stays passed
  (GatesPassed), so that the effect stands behind all PreToolUse outcomes
  (GatesEffects). LinesRead shows that the gate's tables say of any line what the two
  lists of the property say of it.
* Login: a client's mutex is held from the load to the end of the write; until
  something is lost or somebody logs in, the server takes the one token it issued
  last, which is in the file or in the hands of the one call about to store it
  (AuthStore).
* Workflow: slots are held by what runs, the count is of those let in and
  those not yet rolled back, and a call
  that runs has an opened row and no closed one (FlowSlots, FlowCount, FlowRows).
* Steps: a receipt of a sign-off follows a list that has the step, and what is
  signed off stays so (TodoEarly, SignOffsKept).
* Retries: while a request may still be sent again no chunk has gone out, and it
  waits only after a failure that may pass and with an attempt left (StreamRetries).
* Stream: what is gathered of a call is what the server has sent of it; OpenAI's
  reader holds all of it to the end, and then what it still holds has larger indices
  than what it gave out (StreamHolds). What was given out is over, whole and there
  once (StreamGives).

**WorkProofs**, the jobs. TypeCorrect, NotedBeforeDone, NotedOnce, NotesStayTrue,
FinishedStays, OutputInOrder, Implements. Inv says that notes and only notes
belong to jobs past their record step, with the status the job keeps, that the
drained and queued ones are apart and that `done` is closed exactly at the end.
OutputInOrder adds OutputInv: what the calls of Output returned so far is exactly
the chunks up to the read offset, and the result stands behind them only if every
chunk had been read. Implements maps each step to a step of JobLifecycle or a
stutter under `phase <- Phase, verdict <- Decided, queued <- completed`.
FinishedStays proves FinishedIsFinal, which no run checks by itself any more.

**GoalLoop** (the proofs end the module). TypeCorrect, TurnsStayApart, CancelKeeps. GuardInv ties the
three things runGuarded sets in one section: a body in progress, `running` and
the cancel function that is its own. AutoInv says at which checks auto-approval may
be on, StallInv that the second stall in a row is acted on at once, RunsInv that
only a cancelled turn comes out above the bound on runs.

**SessionProofs**, the lazy servers (McpServers). TypeCorrect, HostStaysHonest,
ServersUsable. SpawnInv: at
most one goroutine is inside the spawn, and the state says so. BootInv: what
cannot have happened before boot is done. OwnerInv: each connection has one owner,
the goroutine that makes or ends it or one place in the host's list, hence no lost
process. UseInv: as long as nothing was removed, what was listed stays up, and
either the registry leads to it or a goroutine stands where its next step sees to
that; at rest only the first is left.

**SessionProofs**, what outlives a turn. SessionsKeptApart and NothingIsMissing: the
invariants of the run `stores` for all constants, but for the gating, which is the
run's (`patient`, section 3). StoresParts is to MCStores what Parts is to MCRpc.

* Conversations: ChatOrder says that a turn, a pass and a command exclude each
  other, and for each step of a command what the steps before it have left: the
  pointer and the path agree until the step between them, a command that has saved
  has saved the open conversation. ChatOwns: what belongs to a conversation is just
  what its log stands for, and its file has no more, and no less once it is left or
  the command under way has saved it. A pass keeps this because the summary stands
  for the ids it folds (IdsFolded), a fork because it takes a prefix.
* Saved facts: AloneInv, for a change that met no other: at each of its steps the
  index, the lines it has kept and the file are as the change found them or as it
  leaves them. NotesInv: a version is one change's, and waits, is told or refused
  once.
* Assembly (AssemblyInv): as long as the batch lasts, the servers with a handshake
  are those not demoted of the eager tier; hence each is accounted for when it ends.
  A process that is alive belongs to a build begun so far, and a Close takes all of
  its build's but those it misses, which are then nobody's (`unowned`).

**AgentTurnProofs.** GuardsHold, LedgerHolds, RequestsArePaired. OrderInv: a call was launched only
if every earlier one of its segment was and every earlier one of another segment
has finished; this is what makes a serial call run alone. LedgerInv: a receipt of
success is of this turn. StormInv: the counter equals the streak at the end of the
history; StreakGrows is the lemma about how a streak grows. LatchInv: the
latch counts the passes since the prompt was last under its trigger.
RequestsArePaired adds PairInv, which TLC checked on the run's instance before it
was proved. LogsInv and FrameInv say which logs are whole: each message that calls
has its own results right behind it, except for the batch under way in the running
log (a crash or an overlapping `/compact` may leave such an end in the log, and
nothing more is then promised of it). PlaceInv and CountInv are about the
counters. A compaction keeps a whole log whole because `tailStart` moves its cut
back past results, so that the tail begins with none (GoodTail). For the request
nothing is assumed of the log: SanitizeToolPairing walks it with one message that
still waits for results, and Framed says of a prefix already walked that all but
that message has been answered. FrameStep is the step of the walk; RequestIsAnswered
lifts it to logs of any length. The walk is `FoldLeft` and its output `FlattenSeq`,
both recursive functions of the library: SetInduction, an induction over the
naturals in which the property is given as a set, shows that they exist and
satisfy their equations at every prefix (FoldSteps, FlattenSteps).

**CheckpointProofs.** TypeCorrect, BoundariesHold, SnapshotsAreKept,
RewindsAreExact. TurnInv: the checkpoint of a turn is the same in memory and on
disk. NumberInv: all numbers in use are below the next one, hence a fresh turn's
is fresh. CommandInv: no other step moves the boundary a command has read. OrderInv
and MapInv: the boundaries that map are those of the last turns of the timeline,
in order, each at the very prefix with which its turn began. SavedInv: the same of
the session file a crash falls back to. RecoverInv is what makes rewinds exact:
RestInv, the plan of a code rewind to turn t yields the files t began with;
AheadInv, a file that only abandoned checkpoints name has the text those would
restore; TornInv, no such checkpoint is beyond the bound. The lemmas below them say
what each operator of the store does to the earliest snapshot of a file.

Proving Checkpoint changed its model, in three places where the history variables
had promised more than holds and the bounds of the run had been too small to tell;
TLC confirms each with larger ones. A resume inside a turn, then a rewind to a turn
of the timeline left behind: the boundaries of the live turns may no longer cut
(`stale`). Two rewinds in four turns: checkpoints of abandoned turns stay in `done`
under numbers that are given again, and RestoreCode prefers them (`torn`). A
rewind or a summary beside a running turn: the turn's end does not save what they
did (`dirty`).

**Glob.** TypeCorrect, MatchesAreRight and VerdictsAreRight: what the loop calls a
match is one by the declarative definition Covers, and what it refuses is none. For
the first the invariant is what the loop has read: the pattern up to `px` covers
the name up to `nx`, and up to and with the last star it covers the name up to
`starNx`; lemmas extend a cover by one character, by a star and by trailing stars.
For the second it is that the loop never reads further than it must (LeastInv): in
each cover of the whole name the last star ends no earlier than `starNx`, and `px`
no earlier than `nx`. Hence it is enough to go back to the last star: nothing that
an earlier star could take instead would help. That a cover never goes back
(EndsGrow) is an induction over the pattern, in the set form of AgentTurnProofs.

**RpcProofs.** EachAnswerIsOwn, NothingIsLeft and AllAreCalls: three of the
properties of the run `rpc` for all constants. Each of the five parts has an
invariant, proved from its own Init and Next alone (`HttpHolds`, `ConnHolds`,
`ServersHold`, `AcpHolds`, Invariance), so that it also holds where the order in
which requests begin is not bounded as in MCNext. Parts says that a step of MCNext
is a step of one part and leaves the variables of the others; the theorems conjoin.

* HTTP: one request is posted or read at a time, ids are handed out once, `session`
  is the id the server named last and each request carries the one that was expected
  of it; what a stream is read for, the server has read.
* Language server's connection: each call has as many slots as attempts, and no
  more ids have been given than slots used (SlotTaken), hence there is always a
  channel left; ConnHeard, a channel holds only answers to its own id, and an answer
  is on its way only if the server has read the request of each call with that id.
* Language servers: ServersGate, one query holds the gate and the servers that run
  are the client's and the one about to be registered; QueriesSync, queries that
  synchronise one at a time look at the file in that order; ServersReport, what a
  server holds or has reported, published reports under way included, is never ahead
  of the document sent to it, but for the text whose sending is not yet recorded.
* ACP: no more controllers are built, and no more ids given, than requests hold
  them; each controller is closed, replaced, registered or in the hands of the
  request that built it; a turn's cancel is where an abort looks for it unless
  another turn had that controller too; an id is one request's, and a verdict is
  what came on the channel of the request's own id.

Of the stdio transport alone: TypeCorrect, AnswersAreTheCallers, NobodyIsForgotten,
ImplementsCalls. MutexInv: whoever is between Lock and the deferred unlock holds
`callMu`. IdInv: `nextID` is the number of calls that have registered, hence an
id is left for each of the others. AnswerInv: every request and answer on its way,
in a pipe, at the reader or in a channel, says the id its call has registered,
however long ago that call gave up; with it the answer in a call's channel is its
own. HeardInv: what comes back answers a request the server has read.
That a connection is RpcCalls (ImplementsCalls, and a lemma each for the others) maps each step to a step of RpcCalls or a stutter under
`phase <- Phase, heard <- HeardCalls`: Start opens a call, the deferred cleanup
ends it, the server hears; all else, failAll included, is a stutter.

Only model-checked, and why:

* liveness (CallsEnd, CallsReturn, JobsSettle, FrontsSettle, AllEnd, BuildsEnd,
  LoopsEnd, and StopsWhenTold but for its part CancelKeepsGoal): it rests on
  fairness, whose ENABLED the provers do not expand;
* WireIsTrue of `model`, EditsHold of `stores`, and what the run `text` checks, but
  for Glob. What the parsers, the diff and the wrap compute is induction over their
  input, and Search defines RECURSIVE operators, behind which the provers lose SMT.
  In EditsHold the tree of branches is sorted, filtered and walked: its promises,
  that a branch is younger than its parent among them, need that what SortSeq and
  SelectSeq return are branches there are, and the provers know neither.

## 6. Promises the code breaks

Each is a formula of its module, headed "Claimed" or "not so in this code", and
quotes the comment that makes the promise. One, KeysEnd, is a run (section 3).
The others are reproduced by naming the formula in a configuration; TLC finds
each within minutes. The last column gives the constants: a run with its focus,
or values, where unlisted bounds are 0.

| Property (module) | The code | The promise | Constants |
|---|---|---|---|
| NoPromptUnderBypass (Approval) | the re-check behind `promptMu` looks at `granted` only (`control/controller.go:1796`) | `control/controller.go:116` "while set, every approval prompt is auto-allowed for the rest of the session" | 2 callers, 1 key, MaxID 2 |
| ClearsItsOwnGoal (GoalLoop) | the loop captures the condition once and clears whatever is armed when its verdict comes (`:441`) | `:518` "arms a session goal: the next/after-current turn keeps working until the" | 2 goals, Turns 1, Runs 2, Sets 2 |
| FirstCheckIsFresh (GoalLoop) | the first check scans the whole history past an empty answer (`:435`) | `:432` "is the newest assistant text, so 0 is correct for the first check" | 1 goal, Turns 2, Runs 3, Sets 2 |
| MetEndsLoop (GoalLoop) | `since` is an index kept across a compaction (`:456`) | `:133` "with a tail-appended message until the model's own trailing GOAL_STATUS" | Turns 2, Runs 3, Work 1, Sets 1 |
| StallMeansNoProgress (GoalLoop) | counts are compared across a compaction, the only case in which they can be equal (`:467`) | `:134` "the work stalls (no new messages)" | Turns 2, Runs 3, Work 1, Sets 1 |
| GoalIsPursued (GoalLoop) | Submit skips the kick while a turn runs that has passed its goal check (`:629`) | `:518`, as above | FairSpec, Turns 2, Runs 2, Sets 1 |
| CancelIsNoError (GoalLoop) | runGuarded passes `context.Canceled` on (`:302`) | `event/event.go:54` "nil also for a user cancellation, which is not an error" | Turns 1, Runs 1 |
| KilledStaysKilled (Jobs) | Kill cancels after it unlocked; a job that returns in between overwrites the status (`jobs/jobs.go:206`) | `jobs/jobs.go:213` "goroutine still sets Killed + records completion on return" | no waiters, MaxJobs 1, MaxWrites 1 |
| CompletionReachesModel (Jobs) | Compose drains the note, then a hook blocks the prompt (`control/controller.go:379`) | `jobs/jobs.go:13` "next turn (DrainCompletedNote) so the model itself learns of completions" | the same |
| BashOutputComplete (Jobs) | one read offset serves `/jobs output` too, and is moved before an invalid filter is found (`tool/builtin/bgjobs.go:58`) | `tool/builtin/bgjobs.go:37` "Returns the output produced since the last bash_output call for that job" | the same |
| DroppedStayDropped (Checkpoint) | summarizeAt clears `cpBound` in memory, Resume rebuilds it (`control/controller.go:1206`) | `:1202` "The log was restructured; existing boundaries no longer map. Drop them" | all scopes, Serial, Turns 2, Writes 2, Messages 4, Summaries 1, Restarts 1 |
| RestoresEncoding (Checkpoint) | snapshots hold decoded text, written back as UTF-8 (`checkpoint/checkpoint.go:252`) | `checkpoint/checkpoint.go:210` "it writes back that file's" pre-edit content | Legacy the one file, Turns 2, Writes 2, Messages 4, Rewinds 1 |
| FailedRewindDidNothing (Checkpoint) | files are restored before the missing boundary is found (`control/controller.go:947`) | `:914` "the rewind did nothing" | Turns 2, Writes 2, Messages 4, Summaries 1, Rewinds 1 |
| RewoundTurnsAreGone (Checkpoint) | checkpoints of abandoned turns stay on disk and come back with a resume (`:954`) | `:954` "later turns are gone" | scope conversation, Turns 3, Writes 1, Messages 4, Rewinds 1, Restarts 1 |
| RestoresPreTurnContent (Checkpoint) | RestoreCode scans the checkpoints of abandoned turns too (`checkpoint/checkpoint.go:218`) | `control/controller.go:920` "Code reverts every file that" turn "changed to its pre-turn content" | scope both, Turns 3, Writes 3, Messages 5, Rewinds 2, Restarts 1 |
| RefusedWhileRunning (Checkpoint) | `running` is read, released, and acted on later (`:933`) | `:922` "Refused while a turn is running" | not Serial, Turns 2, Writes 2, Messages 4, Rewinds 1 |
| TurnsAreSaved (Checkpoint) | whether to save is decided by comparing message counts (`:1313`) | `:1266` "Called after every turn so a crash loses at most one in-flight" | Turns 3, Writes 1, Messages 8, Compacts 1 |
| RewindIsSaved (Checkpoint) | a log without user content is not written (`:1288`) | `docs/CHECKPOINTS.md:90` "truncate `Session.Messages` to just before turn" | Turns 2, Writes 2, Messages 4, Rewinds 1 |
| NewSessionIsClean (SessionFiles) | a pass writes to the session it finds after the network call (`agent/compact.go:148`) | `control/controller.go:871` "resets the executor to a clean session" | terminal, Sessions 2, Ids 4, Passes 1, Commands 1 |
| SavesToItsOwnFile (SessionFiles) | path and session are read and assigned in two steps (`control/controller.go:1287`) | `:1264` "Snapshot writes the executor's conversation to the active session file" | server, Sessions 2, Ids 4, Commands 1 |
| SwapsOnlyWhileIdle (SessionFiles) | NewSession looks at no flag, Branch and Switch once (`:886`) | `agent/agent.go:247` "Callers serialise it against a" running turn | server, Sessions 2, Ids 4, Commands 1 |
| HistoryStaysTraceable (SessionFiles) | a turn sent while `/compact` waits appends to the log the pass replaces (`agent/compact.go:147`) | `agent/compact.go:98` "archived first, so the full history stays traceable" | terminal, Sessions 2, Ids 5, Passes 1 |
| StarMatchesAnything (Glob) | the literal comparison comes before the star case, so `*` refuses the name `**` (`permission/permission.go:184`) | `permission/permission.go:174` "'*' matches any run of" characters | run `text`, glob, Names with `*` to length 2 |
| CancelledReturns (StdioTransport) | `cmd.Wait` and a write to a full pipe look at no context (`plugin/transport_stdio.go:415`) | `plugin/transport_stdio.go:26` "a hung server would otherwise hang a cancelled turn forever" | run `rpc`, stdio |
| OneOfAName (McpServers) | Add looks the name up and appends seconds later (`plugin/plugin.go:540`) | `plugin/plugin.go:538` "Errors if the name is taken" | run `mcp` |
| PromptsAreListed (McpServers) | a fetch that ends after the Remove appends its prompts (`plugin/plugin.go:351`) | `plugin/plugin.go:574` "drops its prompts/resources" | run `mcp` |
| RequestPaired (AgentTurn) | after `/compact` overlapped a turn the log ends with an earlier call, and the repair only counts results (`provider/provider.go:223`): a result goes out under another call's id | `provider/provider.go:84` a result follows "for its id" | run `agent` |
| NeverMistruncates (Checkpoint) | a compaction rewrites the log and keeps `cpBound`; a later conversation rewind cuts at an index of the old log (`control/controller.go:952`) | `control/controller.go:91` the message count at each turn's start, to truncate to | run `ckpt` |
| RepeatsDoNoHarm (LspConn) | an answer that the server repeats while its call has not left the map finds the channel full and blocks the pump, which then wakes nobody (`lsp/jsonrpc.go:154`) | `lsp/jsonrpc.go:44` "id-bearing responses wake the matching call" | run `rpc`, lspconn |
| RemovedIsGone (McpServers) | `/mcp remove` while a background spawn shakes hands finds nothing to disconnect; the spawn then lists its client and registers the tools again (`control/controller.go:1584`) | `:1547` "its tools vanish from the next turn" | run `mcp` |
| CancelledReturns (HttpTransport) | a call that waits for the mutex does not look at its context (`plugin/transport_http.go:53`) | `plugin/transport_stdio.go:26`, as above | run `rpc`, http |
| StopReasonTrue (AcpServer) | the turn's own `cancel()` runs before its context is asked, so that every failed turn is called cancelled and `StopError` is never sent (`acp/service.go:264`, `:271`) | `acp/protocol.go:185` cancelled is the stop reason of a turn that was cancelled | run `rpc`, acp |
| ShownIsBlocked (ChatTui) | the channel trails: the prompt may have been answered or given up when it is shown | `cli/chat_tui.go:211` the "run goroutine is blocked awaiting ctrl.Approve" | run `fronts`, tui |
| EnterIsIgnored (ChatTui) | `/goal <text>` starts a turn once the last has ended (`cli/chat_commands.go:141`); the unread TurnDone of that one then makes the terminal idle (`cli/chat_turn.go:328`), and a line entered while the new turn runs goes to the screen and is dropped by runGuarded | `cli/chat_tui.go:782` "ignore Enter while a turn is in flight" | Spec of ChatTui, 1 line of each kind, MaxTurns 3, MaxReplies 1, MaxPrompts 1, MaxChan 2, MaxShown 3 |
| ExpiredIgnored (HttpServer) | ids begin at 1 again in each controller, so an answer to a prompt of the old one decides one of the new (`serve/serve.go:382`) | `control/controller.go:785` "Unknown/expired IDs are ignored" | run `fronts`, http |
| ClosedIsIdle (HttpServer) | a handler that read the pointer starts a turn after the look at Running | `serve/serve.go:147` "Wait until any in-flight turn finishes to avoid racing handlers that obtained the old controller" | run `fronts`, http |
| LogoutSticks (AuthRefresh) | a refresh that was under way writes the file again (`provider/openairesponses/auth.go:157`) | `:421` "Logout removes the stored ChatGPT credential" | run `model`, auth |
| NoVerdictNoCall (Hooks) | a hook killed with its turn counts as an error, which lets the call go on (`hook/hook.go:274`) | `agent/agent.go:759` "a gating hook (exit 2) refuses it" before the call | run `model`, hooks |
| NothingAfterReturn (Workflow) | agents that the script did not await go on after Run returned | `workflow/engine.go:117` "Run executes script to completion" | run `model`, flow |
| OneStepPerSignOff (TodoSteps) | a sign-off by number given before there was a list completes whatever has that number in any later one (`evidence/evidence.go:135`) | `tool/builtin/completestep.go:44` "the evidence-backed completion of ONE step" | run `model`, todo |
| NoneIsEmpty (Requests) | a user message with neither text nor a readable image is sent with no content | `provider/openairesponses/responses.go:252` "an empty content array is rejected" | run `model`, wire |
| TruncationIsError (ProviderStream) | only the chat dialect awaits its end mark; a stream of another one that is cut cleanly passes as a whole answer | `provider/openai/openai.go:395` "stream ended before completion" | run `model`, stream |
| CardsMerge (ProviderStream) | without an id from the gateway the card and the call get different ones | `agent/agent.go:484` "the frontend merges by ID" | run `model`, stream |
| RemoveTakes (ConfigFiles) | a server that another layer declares too is there again at the next load | `control/controller.go:1547`, as above | run `stores`, config |
| RoundTrips (ConfigFiles) | the tier of a server and some sections are not written | `config/render.go:11` "The output round-trips back through Load" | run `stores`, config |
| EffortKeeps (ConfigFiles) | /effort in a project without providers of its own writes the built-in ones over the user's | `config/config.go:624` "preserves the user's existing providers and agent settings" | the same, the project of the third start declaring the model glm for the user |
| TornIsKept (ConfigFiles) | a file that does not parse is replaced by the defaults (`cli/effort.go:57`) | `config/config.go:624`, as above | run `stores`, config |
| NeverDrifts (MemoryStore) | two sessions write back the index they read; a crash falls between fact and index | `memory/store.go:99` "so the index never drifts from the files" | run `stores`, memory |
| AppliesNow (MemoryStore) | the notes of a turn that a hook refuses are gone | `memory/queue.go:6` "taking effect this session" | run `stores`, memory |
| ForOneSession (Boot) | a demoted server is not timed again and stays demoted | `plugin/stats.go:3` "for the rest of a session" | run `stores`, boot, MaxBuilds 3 |
| EveryProcessOwned (Boot) | a build whose planner has no provider returns the error and leaves the servers it started | `boot/boot.go:69` "returned controller owns plugin subprocesses" | run `stores`, boot |
| ForkPointSurvives (Branches) | a failed write before the fork is only logged | `control/controller.go:998` "so the branch point survives" | run `stores`, tree |
| IndexAsShown (Branches) | the list is made again for the command | `cli/resume.go:15` "indices the list shows match what /resume" resolves | run `stores`, tree, Scrollback TRUE |
| AgeKept (Branches) | an older file without a record gets its age from the save just before (`agent/save.go:122`) | `agent/save.go:82` "when it was created" | run `stores`, tree |
| UniqueMeansOne (FileEdits) | occurrences are counted without overlaps, `aa` in `aaa` once | `tool/builtin/editfile.go:25` "old_string must occur exactly once" | run `text`, edits |
| LinesKeepTheirEnds (FileEdits) | delete_range makes mixed line ends alike | `tool/builtin/delete_range.go:93` "so we can preserve it on write" | the same, with texts over `a r n` to length 5 |
| SiblingsStay (FileEdits) | what stands on the line of the symbol goes with it | `tool/builtin/delete_symbol.go:39` "Delete a named symbol" | run `text`, edits |
| OnlyCodeHasOutputs (FileEdits) | a replaced raw cell gets outputs | `tool/builtin/notebookedit.go:272` "exist only for code" | the same, with cells of type raw |
| ShownCanBeDone (FileEdits) | Preview does not look at the confinement that Execute refuses by | `tool/builtin/preview.go:18` "mirrors its Execute's transformation exactly" | run `text`, edits |
| OneAtATime (Textarea) | delete at the last character of a line takes the line's end along | one press deletes one character | run `text`, box |
| WideRowByRow (Textarea) | the column is looked for beyond a wide rune at a row's end | `textarea/textarea.go:718` "moves the cursor down by one line" | run `text`, box |
| NeverCrashes (Composer) | Ctrl+C empties the line and leaves the menu; Enter then slices behind the end | `cli/complete.go:41` "byte offsets delimiting the token to replace" | run `text`, line |
| AlwaysSends (Composer) | `@a` is accepted again and again while there is a file `ab` | `control/slash.go:252` Enter would keep "accepting" "the no-op instead of sending" | run `text`, line |
| RecalledPastesArrive (Composer) | a recalled line has its labels and no longer their blocks | a pasted block's label stands for its text | run `text`, line |
| AlwaysMirrorsGit (Search) | rules that take a directory back and rules that name a path without a leading slash mean to the library something else than to git | `tool/builtin/gitignore.go:23` "to mirror ripgrep" | run `text`, search |
| TruncatedMeansMore (Search) | the notice also comes at exactly the cap | `tool/builtin/grep.go:191` "truncated at %d matches" | run `text`, search |
| GrepReadsText (Search) | the sample may end inside a character | `tool/builtin/grep.go:99` "utf8.Valid on 8 KiB is reliable" | run `text`, search |
| CallableNow (Skills) | the slash line knows the skills of the start; a higher root may shadow the new one | `skill/tools.go:272` "Callable now via run_skill({name}) or /" name | run `text`, skills, Stems a and b, the builtin b |
| ListedIsCallable (Skills) | the list goes by declared names and skips what cannot be read, run_skill goes by the names of files and stops at the first | `skill/tools.go:53` "as it appears in the pinned Skills index" | run `text`, skills |
| NeverInlined (Skills) | a subagent skill read while its file is empty, or called by slash_command, is inlined | `skill/tools.go:17` "they error rather than silently inlining" | run `text`, skills |
| NeverTorn (Composer) | a change while reading is told from the size alone | `control/attachments.go:154` "changed while reading" | run `text`, images, MaxChanges 3 |
| VerdictHidden (Transcript) | streamed paragraphs are not stripped of the goal's verdict | `cli/chat_answer.go:56` "must never reach the visible transcript" | run `text`, chat |
| OutputUnderItsCard (Transcript) | with two calls in a message both cards come first | `cli/chat_tool_stream.go:38` "under the tool card" | run `text`, chat |
| NoGhosts (Transcript) | later calls of a background sub-agent make its card again | `cli/chat_subagent.go:116` a run is deleted with its result | run `text`, chat |
| ThoughtsInOrder (Transcript) | a thought does not finalize the text before it | `cli/chat_turn.go:110` "every other event first finalizes the reasoning and answer streamed so far" | run `text`, chat |
| OnlyTheBubbleLeaves (Transcript) | un-sending also takes what was noted since | `cli/chat_turn.go:82` the bubble is popped off again | run `text`, chat |

Met while modelling and not stated as formulas, since no comment promises
otherwise: a turn started on a controller that a model switch is leaving is not
carried over, nor is the prompt of one whose Compose or hook takes until the switch
has read the history; of two switches at once the later wins and the earlier's session
is closed; un-sending a message overwrites a draft typed since; the first
`todo_write` of a turn has no earlier list to be checked against.

## 7. What is not modelled

No state worth a model, or out of reach: message catalogues, themes, markdown
and the drawing of the terminal; usage, prices and balance; diagnostics and
inspection; proxies and window flags; executables, benchmark and example
plugin; the sandbox's command lines; the CodeGraph installer (the server itself
is one of Boot's); the typed stream of events (its order is in the modules that
emit).

Of the modelled components, left out:

* agent: the planner in front of the executor, the pruning of old results,
  token estimates, where `tailStart` cuts exactly;
* permissions: most entries of the tables of commands that only read, the
  labels of dangerous ones, the rule that would remember a grant (nothing calls
  it);
* hooks of sessions, notifications and compaction, the matchers' syntax, the
  list of trusted projects;
* providers: model lists, prices, the browser's part of a login;
* MCP: several servers in one host and resources (they meet in lists only), how
  an executable is found;
* tools: bash itself, ls, web_fetch, ask, memory documents; the parsers of Go
  and of notebooks, which are taken as lists of declarations and cells;
* terminal: pickers and views, the status line, clipboard programs;
* branches: titles and previews; path confinement of checkpoints;
* skills and commands: substitution of arguments, frontmatter;
* configuration: expansion of the environment, most keys.

Files are read and written whole, except where the code writes in place and a
reader or a crash can meet half of it (ConfigFiles, AuthRefresh, Skills,
the images of Composer).

## 8. Plan

Theorems to come, in order: the edits of ConfigFiles in EditsHold; a sort of Branches
by its own definition, to prove the tree's promises.

Models to come: the coordinator's planner and the pruning of results over
AgentTurn; resources and several servers in McpServers; a cold start that
resumes (Boot over Branches and Checkpoint).
