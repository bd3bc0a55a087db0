------------------------------ MODULE MCModel ------------------------------
(* Around a model's answer: the request, its stream, the login it may      *)
(* need, the hooks of the turn, the workflow's sub-agents and the sign-off *)
(* of steps.  A behaviour moves one of them, focus.                        *)
EXTENDS Naturals, Sequences, TLC

CONSTANTS
  Foci,                                                    \* the parts that may move
  Kinds, StreamCalls, MaxText, MaxArgs,                         \* ProviderStream
  Clients, Senders, ClientOf, MaxIssued,                   \* AuthRefresh
  HookFiles, Policies, ToolCalls, Lines,                   \* Hooks
  Agents, MaxConcurrent, MaxAgents, MaxTokens, Tools, Meta,   \* Workflow
  Texts, MaxItems, MaxReceipts,                            \* TodoSteps
  MaxMessages, Thinking                                    \* Requests

ASSUME ModelAssumption ==
  /\ ClientOf \in [Senders -> Clients] /\ "nobody" \notin Senders
  /\ HookFiles \subseteq Seq([event : STRING \ {"none"}, match : STRING])
  /\ \A s \in DOMAIN Lines : Lines[s].words \in Seq(STRING)
  /\ {MaxConcurrent, MaxAgents, MaxItems} \subseteq Nat
  /\ MaxArgs \in Nat /\ StreamCalls \subseteq Nat

VARIABLES
  focus,
  kind, ids, phase, attempt, failure, sCancelled, wire, said, finished, acc, out, heard,
  message,
  file, issued, live, old, lock, gAt, has, used, login, rivals,
  project, global, trusted, signed, hAt, pos, log, hCancelled, blocked, effects, shown, stored,
  policy, interactive, call, answer, hResult,
  aAt, verdict, spawned, tokens, slots, rows, tools, loop, wDone, wCancelled, late,
  ledger, signedOff, early, unproved,
  history, requests

Stream == INSTANCE ProviderStream WITH Calls <- StreamCalls, cancelled <- sCancelled

Auth == INSTANCE AuthRefresh WITH Calls <- Senders, MaxTokens <- MaxIssued, at <- gAt

Gates == INSTANCE Hooks
  WITH Files <- HookFiles, Calls <- ToolCalls, at <- hAt, cancelled <- hCancelled,
       result <- hResult

Flow == INSTANCE Workflow WITH at <- aAt, done <- wDone, cancelled <- wCancelled

Todo == INSTANCE TodoSteps WITH signed <- signedOff

Wire == INSTANCE Requests WITH request <- requests

-----------------------------------------------------------------------------
(* The values of the run                                                   *)

TwoAndOne == [g1 |-> "executor", g2 |-> "executor", g3 |-> "planner"]

Hook(e, m) == [event |-> e, match |-> m]

SettingsFiles ==
  { <<>>,
    <<Hook("PreToolUse", "*"), Hook("PreToolUse", "bash"), Hook("PreToolUse", "write_file")>>,
    <<Hook("UserPromptSubmit", "*"), Hook("Stop", "*")>>,
    <<Hook("PostToolUse", "write_file"), Hook("SubagentStop", "*"), Hook("PostLLMCall", "*")>> }

CallOf(name, reads, args) ==
  [name |-> name, known |-> TRUE, readOnly |-> reads, background |-> FALSE, args |-> args]

\* The arguments are command, file_path, path and pattern.
WriteOf(path) == CallOf("write_file", FALSE, <<"", "", path, "">>)
OneCall == WriteOf("a.go")
SomeCalls ==
  { OneCall, WriteOf("b.go"), WriteOf(""),
    [OneCall EXCEPT !.known = FALSE],
    CallOf("grep", TRUE, <<"", "", "a.go", "b.go">>),
    CallOf("task", FALSE, <<"", "", "", "">>),
    [CallOf("task", FALSE, <<"", "", "", "">>) EXCEPT !.background = TRUE] }
  \cup {CallOf("bash", FALSE, <<c, "", "", "">>) : 
           c \in {"ls", "ls | rm", "find -delete", "rm", "make", "git log", "git", "blank"}}

\* The settings vary under no rules, in a trusted project for most calls,
\* and the rules under no hooks.
HookedCalls ==
  { OneCall, WriteOf("b.go"), [OneCall EXCEPT !.known = FALSE],
    CallOf("task", FALSE, <<"", "", "", "">>) }

CommandLines ==
  LET Line(w) == [syntax |-> FALSE, words |-> w]
  IN "ls" :> Line(<<"ls">>) @@ "ls | rm" :> [syntax |-> TRUE, words |-> <<"ls", "|", "rm">>]
     @@ "find -delete" :> Line(<<"find", "-delete">>) @@ "rm" :> Line(<<"rm">>)
     @@ "make" :> Line(<<"make">>)
     @@ "git log" :> Line(<<"git", "log">>) @@ "git" :> Line(<<"git", "log", "--output">>)
     @@ "blank" :> Line(<<>>)

\* A list of rules: none, every call of the tool, or the calls about a.go
\* or ls beside an entry that is no rule.
Entry(t, bare, covers) == [tool |-> t, bare |-> bare, covers |-> covers]
RuleLists ==
  { {}, {Entry("write_file", TRUE, {}), Entry("bash", TRUE, {}), Entry("grep", TRUE, {})},
    {Entry("write_file", FALSE, {"a.go"}), Entry("bash", FALSE, {"ls"}), Entry("grep", FALSE, {"b.go"}),
     Entry("", TRUE, {})} }
PolicyFiles == [mode : {"ask", "allow", "deny"}, deny : RuleLists, ask : RuleLists, allow : RuleLists]
NoRules == [mode |-> "ask", deny |-> {}, ask |-> {}, allow |-> {}]
AllAllowed == [NoRules EXCEPT !.mode = "allow"]

-----------------------------------------------------------------------------
streamVars == <<kind, ids, phase, attempt, failure, sCancelled, wire, said, finished, acc, out,
                heard, message>>
authVars == <<file, issued, live, old, lock, gAt, has, used, login, rivals>>
hookVars == <<project, global, trusted, signed, hAt, pos, log, hCancelled, blocked, effects,
              shown, stored, policy, interactive, call, answer, hResult>>
flowVars == <<aAt, verdict, spawned, tokens, slots, rows, tools, loop, wDone, wCancelled, late>>
todoVars == <<ledger, signedOff, early, unproved>>
wireVars == <<history, requests>>
mcVars == <<focus, streamVars, authVars, hookVars, flowVars, todoVars, wireVars>>

\* The parts that do not move stand in one of their initial states.
Still(f) == focus # f

Plain == project = <<>> /\ trusted /\ signed

MCInit ==
  /\ focus \in Foci
  /\ Stream!Init /\ (Still("stream") => kind = "openai" /\ ids)
  /\ Auth!Init /\ Flow!Init /\ Todo!Init /\ Wire!Init
  /\ policy \in IF Still("hooks") THEN {NoRules} ELSE Policies
  /\ Gates!Init
  /\ Still("hooks") => /\ project = <<>> /\ global = <<>> /\ trusted /\ signed
                       /\ interactive /\ call = OneCall
  /\ ~Plain => call = OneCall /\ (trusted \/ signed)
  /\ (~Plain \/ global # <<>>) =>
       interactive /\ call \in HookedCalls /\ policy = IF call = OneCall THEN AllAllowed ELSE NoRules

MCNext ==
  /\ UNCHANGED focus
  /\ \/ focus = "wire" /\ Wire!Next /\ UNCHANGED <<streamVars, authVars, hookVars, flowVars, todoVars>>
     \/ focus = "stream" /\ Stream!Next /\ UNCHANGED <<authVars, hookVars, flowVars, todoVars, wireVars>>
     \/ focus = "auth" /\ Auth!Next /\ UNCHANGED <<streamVars, hookVars, flowVars, todoVars, wireVars>>
     \/ focus = "hooks" /\ Gates!Next /\ UNCHANGED <<streamVars, authVars, flowVars, todoVars, wireVars>>
     \/ focus = "flow" /\ Flow!Next /\ UNCHANGED <<streamVars, authVars, hookVars, todoVars, wireVars>>
     \/ focus = "todo" /\ Todo!Next /\ UNCHANGED <<streamVars, authVars, hookVars, flowVars, wireVars>>

\* The Fairness of each module, for the part that moves.
MCFairness ==
  /\ WF_streamVars(focus = "stream" /\ (Stream!Send \/ Stream!Backoff \/ Stream!SendCancelled))
  /\ WF_streamVars(focus = "stream" /\ sCancelled /\ Stream!Breaks)
  /\ WF_streamVars(focus = "stream" /\ Stream!Flush)
  /\ \A g \in Senders : WF_authVars(focus = "auth" /\ Auth!Step(g))
  /\ WF_hookVars(focus = "hooks" /\ Gates!Next)
  /\ Flow!Fairness

MCSpec == MCInit /\ [][MCNext]_mcVars /\ MCFairness

(* The model is told the history as its API takes it, and the same by      *)
(* whatever vendor.                                                        *)
WireIsTrue == Wire!ClaudeTakesIt /\ Wire!SameIsTold

(* What a turn does was let in: by every hook that gates it, by the caps   *)
(* of the workflow, by the evidence of the steps; and the login of one     *)
(* client is not spent by its own calls.                                   *)
WorkIsAllowed ==
  /\ Gates!GateHolds /\ Gates!HooksInOrder
  /\ Flow!CapsHold /\ Flow!OneLayer /\ Flow!RowsTrue
  /\ Todo!CompletedWasSigned /\ Todo!SignOffsStay
  /\ Auth!OneSpenderPerClient /\ Auth!StoredIsLive

(* The agent acts on what the model said: whole calls, each once and in    *)
(* order, reasoning under the signature it was given.                      *)
AnswerIsWhole == Stream!CallsAreWhole /\ Stream!OpenAiOrder /\ Gates!SignatureFits

(* And a request has one answer: it is sent again only after a failure     *)
(* that may pass, at most twice, and never once a chunk of an answer went  *)
(* out.                                                                    *)
OneWholeAnswer == []AnswerIsWhole /\ Stream!RetriesAreSafe

(* Whatever was cancelled, refused or lost, the request, the calls behind  *)
(* a login, the hooks and the sub-agents come to their end.                *)
AllEnd ==
  /\ Stream!CancelEnds
  /\ []<>(focus = "auth" => \A g \in Senders : Auth!Ended(g))
  /\ []<>(focus = "hooks" => hAt = "end")
  /\ Flow!PromisesSettle
=============================================================================
