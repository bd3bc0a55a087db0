------------------------------- MODULE Hooks -------------------------------
(***************************************************************************)
(* What stands between a turn and its effects: the permission policy and   *)
(* its gate (permission/permission.go, bash_readonly.go) and the shell     *)
(* hooks (hook/hook.go, runner.go), where the agent and the controller     *)
(* consult them.  UserPromptSubmit comes before the turn, PostLLMCall on   *)
(* its reasoning, the gate and PreToolUse before a call, PostToolUse and   *)
(* SubagentStop behind it, Stop at the end.  A hook is a process that      *)
(* exits with a code, outlives its timeout, cannot be started, or is       *)
(* killed with the turn's context.                                         *)
(***************************************************************************)
EXTENDS Naturals, Sequences, FiniteSetsExt, SequencesExt, TLC

CONSTANTS
  Files,      \* what a settings.json may hold: sequences of Hook records,
              \* <<>> when it is missing or malformed
  Policies,   \* records [mode, deny, ask, allow], sets of rules as written
  Calls,      \* records [name, known, readOnly, background, args]
  Lines       \* the command lines: [syntax, words] of a subject

VARIABLES
  project, global, trusted,   \* the settings files and the trust of the root
  signed,     \* the reasoning has a provider's signature
  policy, interactive,        \* the rules, and whether a user can be asked
  call,       \* the call the model makes
  answer,     \* what the gate came to
  result,     \* of the tool: None, "ok" or "error"
  at,         \* where the turn stands
  pos,        \* the hook of the event at work
  log,        \* outcomes: [hook: its place in Loaded, event, decision, said]
  cancelled,
  blocked,    \* the Report of the event at work
  effects,    \* history: runs of the tool, after how many outcomes
  shown, stored   \* the reasoning the user sees and the session keeps

settings == <<project, global, trusted, signed, policy, interactive, call>>
vars == <<settings, at, pos, log, cancelled, blocked, effects, shown, stored, answer, result>>

Original == "original"
None == "none"

\* Load: the project's hooks first, and only when it is trusted.
Resolve(p) == (IF trusted THEN p ELSE <<>>) \o global
Loaded == Resolve(project)

EventAt == CASE at = "submit" -> "UserPromptSubmit" [] at = "model" -> "PostLLMCall"
             [] at = "pretool" -> "PreToolUse" [] at = "posttool" -> "PostToolUse"
             [] at = "subagent" -> "SubagentStop" [] at = "stop" -> "Stop" [] OTHER -> None

\* MatchesTool: an anchored pattern, for the tool events only.
Matches(h) ==
  /\ h.event = EventAt
  /\ at \in {"pretool", "posttool"} => h.match \in {"*", call.name}

Blocking == at \in {"submit", "pretool"}

Init ==
  /\ project \in Files /\ global \in Files /\ trusted \in BOOLEAN /\ signed \in BOOLEAN
  /\ policy \in Policies /\ interactive \in BOOLEAN /\ call \in Calls
  /\ at = "submit" /\ pos = 1 /\ log = <<>> /\ cancelled = FALSE /\ blocked = FALSE
  /\ effects = <<>> /\ shown = None /\ stored = None
  /\ answer = None /\ result = None

-----------------------------------------------------------------------------
(* Run                                                                     *)

DecideOutcome(r) ==
  CASE r = "exit0" -> "pass"
    [] r = "spawn" -> "error"
    [] r \in {"exit2", "timeout"} /\ Blocking -> "block"
    [] OTHER -> "warn"

Skip ==
  /\ pos <= Len(Loaded) /\ ~blocked /\ ~Matches(Loaded[pos])
  /\ EventAt # None
  /\ pos' = pos + 1
  /\ UNCHANGED <<settings, at, log, cancelled, blocked, effects, shown, stored, answer, result>>

Breaks(d) == d = "block"

\* The process of one hook.  A cancelled context kills it: an error.
Hook ==
  /\ pos <= Len(Loaded) /\ ~blocked /\ Matches(Loaded[pos])
  /\ \E r \in IF cancelled THEN {"spawn"} ELSE {"exit0", "exit2", "exit1", "timeout", "spawn"} :
     \E said \in IF r = "exit0" THEN {None, "rewritten"}
                 ELSE IF cancelled THEN {"killed"} ELSE {None} :
       /\ log' = Append(log, [hook |-> pos, event |-> EventAt, decision |-> DecideOutcome(r), said |-> said])
       /\ blocked' = Breaks(DecideOutcome(r))
  /\ pos' = pos + 1
  /\ UNCHANGED <<settings, at, cancelled, effects, shown, stored, answer, result>>

Reported == blocked \/ pos > Len(Loaded)
Advance(l) == at' = l /\ pos' = 1 /\ blocked' = FALSE

-----------------------------------------------------------------------------
(* The turn                                                                *)

\* A blocked prompt ends the turn; otherwise Stop is deferred to its end.
Submitted ==
  /\ at = "submit" /\ Reported
  /\ Advance(IF blocked THEN "end" ELSE "model")
  /\ UNCHANGED <<settings, log, cancelled, effects, shown, stored, answer, result>>

\* The first passing hook with output replaces the reasoning; what is
\* stored stays the original when a signature pins it.
Rewritten == \E k \in DOMAIN log : log[k].event = "PostLLMCall" /\ log[k].said = "rewritten"
Store(d) == IF signed THEN Original ELSE d

Reasoned ==
  /\ at = "model" /\ Reported
  /\ shown' = IF Rewritten THEN "rewritten" ELSE Original
  /\ stored' = Store(shown')
  /\ Advance("gate")
  /\ UNCHANGED <<settings, log, cancelled, effects, answer, result>>

-----------------------------------------------------------------------------
(* The gate                                                                *)

\* Subject: the first of the known keys that holds text.
Subject(args) ==
  LET texts == {i \in DOMAIN args : args[i] # ""}
  IN IF texts = {} THEN "" ELSE args[Min(texts)]

\* An entry without a tool is dropped.  A glob is the set of the subjects
\* it matches; bare stands for an entry without one.
ParseRules(entries) == {e \in entries : e.tool # ""}

MatchAny(entries, s) ==
  \E r \in ParseRules(entries) : r.tool = call.name /\ (r.bare \/ (s # "" /\ s \in r.covers))

DenyFirst(readOnly) ==
  LET Named(rules) == MatchAny(rules, Subject(call.args))
  IN IF Named(policy.deny) THEN "deny"
     ELSE IF Named(policy.ask) THEN "ask"
     ELSE IF Named(policy.allow) \/ readOnly THEN "allow"
     ELSE policy.mode

AllowFirst(readOnly) ==                \* mutant: the order of the lists turned round
  IF MatchAny(policy.allow, Subject(call.args)) THEN "allow" ELSE DenyFirst(readOnly)
Decide(readOnly) == DenyFirst(readOnly)

\* isReadOnlyBashSubject, by tables of commands; some entries of each.
ReadOnlyCommands == {"ls", "find", "sort"}
ReadOnlyPrefixes == [git |-> {"log"}, go |-> {"vet"}]
UnsafeArgs == [ls |-> {}, find |-> {"-delete"}, sort |-> {"-o"}, git |-> {"--output"}, go |-> {}]

IsReadOnlyBash(s) ==
  /\ s \in DOMAIN Lines /\ ~Lines[s].syntax
  /\ LET w == Lines[s].words
         Plain == \A i \in 2..Len(w) : w[i] \notin UnsafeArgs[w[1]]
     IN /\ w # <<>>
        /\ \/ w[1] \in ReadOnlyCommands /\ Plain
           \/ /\ w[1] \in DOMAIN ReadOnlyPrefixes /\ Len(w) > 1
              /\ w[2] \in ReadOnlyPrefixes[w[1]] /\ Plain

Unknown ==
  /\ at = "gate" /\ ~call.known
  /\ Advance("stop")
  /\ UNCHANGED <<settings, log, cancelled, effects, shown, stored, answer, result>>

\* The user's side is requestApproval: a grant or a bypass allows at once.
Answers(decision) ==
  CASE decision = "deny" -> {"denied"}
    [] decision = "allow" -> {"free"}
    [] OTHER -> IF ~interactive THEN {"headless"}
                ELSE {"allowed", "declined"} \cup IF cancelled THEN {"aborted"} ELSE {}
Refusals == {"denied", "declined", "aborted"}

Check ==
  /\ at = "gate" /\ call.known
  /\ LET reads == call.readOnly \/ (call.name = "bash" /\ IsReadOnlyBash(Subject(call.args)))
     IN answer' \in Answers(Decide(reads))
  /\ Advance(IF answer' \in Refusals THEN "stop" ELSE "pretool")
  /\ UNCHANGED <<settings, log, cancelled, effects, shown, stored, result>>

-----------------------------------------------------------------------------
(* Hooks at the call                                                       *)

Gated ==
  /\ at = "pretool" /\ Reported
  /\ Advance(IF blocked THEN "stop" ELSE "tool")
  /\ UNCHANGED <<settings, log, cancelled, effects, shown, stored, answer, result>>

\* Tools look at their context when they like; PostToolUse fires either way.
Execute ==
  /\ at = "tool"
  /\ result' \in {"ok", "error"}
  /\ \/ effects' = Append(effects, Len(log))
     \/ result' = "error" /\ UNCHANGED effects
  /\ Advance("posttool")
  /\ UNCHANGED <<settings, log, cancelled, shown, stored, answer>>

\* SubagentStop: behind a task that ended well in the foreground.
Delegated == call.name = "task" /\ ~call.background /\ result = "ok"

Observed ==
  /\ at \in {"posttool", "subagent", "stop"} /\ Reported
  /\ Advance(CASE at = "stop" -> "end" [] at = "posttool" /\ Delegated -> "subagent"
               [] OTHER -> "stop")
  /\ UNCHANGED <<settings, log, cancelled, effects, shown, stored, answer, result>>

Cancel ==
  /\ at # "end" /\ ~cancelled
  /\ cancelled' = TRUE
  /\ UNCHANGED <<settings, at, pos, log, blocked, effects, shown, stored, answer, result>>

Next ==
  \/ Skip \/ Hook
  \/ Submitted \/ Reasoned \/ Unknown \/ Check \/ Gated \/ Execute \/ Observed \/ Cancel

Spec == Init /\ [][Next]_vars

(* Each hook exits, or is killed at its timeout.                           *)
Fairness == WF_vars(Next)

-----------------------------------------------------------------------------
Fired(e) == {k \in DOMAIN log : log[k].event = e}
Wanted(e) ==
  {p \in DOMAIN Loaded :
     /\ Loaded[p].event = e
     /\ e \in {"PreToolUse", "PostToolUse"} => Loaded[p].match \in {"*", call.name}}

(* Whether a call may write: unless the tool says that it only reads, or   *)
(* the line, whole and by itself, begins as one that reads and has none of *)
(* the arguments by which that command writes.                             *)
Readers == {<<"ls">>, <<"find">>, <<"sort">>, <<"git", "log">>, <<"go", "vet">>}
Writers == {<<"find", "-delete">>, <<"sort", "-o">>, <<"git", "--output">>}
LineReads(l) ==
  /\ ~l.syntax
  /\ \E p \in Readers : Len(p) <= Len(l.words) /\ \A i \in DOMAIN p : l.words[i] = p[i]
  /\ \A i \in 2..Len(l.words) : <<l.words[1], l.words[i]>> \notin Writers
Writes ==
  /\ ~call.readOnly
  /\ call.name = "bash" /\ Subject(call.args) \in DOMAIN Lines => ~LineReads(Lines[Subject(call.args)])

(* A call runs only behind a gate that is complete.  No deny rule names    *)
(* it, whatever the other lists and the mode say; what changes something   *)
(* runs unasked only under an allow rule or the mode allow; who is asked   *)
(* has agreed, and nobody is asked about what only reads unless a rule     *)
(* says so; every PreToolUse hook that matches has returned before and     *)
(* none has said no.                                                       *)
GateHolds ==
  LET Named(rules) == MatchAny(rules, Subject(call.args)) IN
  /\ answer \in {"allowed", "declined", "aborted"} =>
       Named(policy.ask) \/ (Writes /\ ~Named(policy.allow))
  /\ \A i \in DOMAIN effects :
       /\ call.known /\ ~Named(policy.deny)
       /\ Writes \/ Named(policy.ask) =>
            \/ ~interactive /\ (policy.mode # "deny" \/ Named(policy.ask) \/ Named(policy.allow))
            \/ answer = "allowed"
            \/ ~Named(policy.ask) /\ (Named(policy.allow) \/ policy.mode = "allow")
       /\ {log[k].hook : k \in Fired("PreToolUse") \cap 1..effects[i]} = Wanted("PreToolUse")
       /\ \A k \in Fired("PreToolUse") : log[k].decision # "block"

(* Only exit code 2 and a timeout refuse, nothing of that event runs after *)
(* a refusal, a project nobody trusts runs nothing.  PreToolUse fires for  *)
(* no call the gate refused, PostToolUse for exactly the calls that were   *)
(* started, SubagentStop for the delegations that ended well, and Stop for *)
(* the turns that were let in.                                             *)
HooksInOrder ==
  /\ \A j, k \in DOMAIN log : j < k /\ log[j].event = log[k].event =>
       log[j].decision # "block" /\ log[j].hook < log[k].hook
  /\ \A k \in DOMAIN log : ~trusted => Loaded[log[k].hook] \in {global[i] : i \in DOMAIN global}
  /\ ~call.known \/ answer \in Refusals => Fired("PreToolUse") = {}
  /\ at = "end" =>
       LET refused == \E k \in Fired("UserPromptSubmit") : log[k].decision = "block"
           All(e, fires) == {log[k].hook : k \in Fired(e)} = IF fires THEN Wanted(e) ELSE {}
       IN /\ All("PostToolUse", result # None)
          /\ All("SubagentStop", result = "ok" /\ Delegated)
          /\ All("Stop", ~refused)

(* Reasoning under a signature is stored as the provider wrote it.         *)
SignatureFits == signed => stored \in {None, Original}

(* The turn gets past its hooks.                                           *)
TurnEnds == []<>(at = "end")

(* Claimed: a gating hook decides before the call runs; one killed with a  *)
(* cancelled turn lets the call run.                                       *)
NoVerdictNoCall ==
  effects # <<>> => \A k \in Fired("PreToolUse") : log[k].said # "killed"
=============================================================================
