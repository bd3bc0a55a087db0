------------------------------ MODULE AgentTurn ------------------------------
(***************************************************************************)
(* The agent loop of agent/agent.go: RunMessage streams an answer, runs    *)
(* its tool calls in batches, keeps a receipt of each, breaks storms of    *)
(* equal failures, appends the results and compacts the log when it has    *)
(* grown (agent/compact.go).  /compact runs on a goroutine of its own, a   *)
(* frontend saves the log, and the process may die and resume.             *)
(*                                                                         *)
(* Messages and requests are those of ToolPairing.  A call also has cites: *)
(* the tool whose success complete_step claims as evidence.  Token budgets *)
(* are left out: a pass may cut the log wherever tailStart could.          *)
(***************************************************************************)
EXTENDS ToolPairing

CONSTANTS
  Batches,      \* the answers of the model: sequences of [tool, cites, whole]
  Usages,       \* what an answer may tell of the prompt: "none", "low", "high"
  Overlap,      \* /compact may overlap a turn, as through the HTTP server
  MaxParallel,  \* goroutines of one batch
  TailFloor,    \* messages a compaction keeps at least
  MaxSteps,     \* agent.max_steps: tool-call rounds of a turn
  MaxTurns,     \* bound: turns of one behaviour
  MaxRounds,    \* bound: answers of one behaviour
  MaxPasses,    \* bound: passes of /compact
  MaxCrashes    \* bound: crashes

\* What executeOne and partitionToolCalls tell apart of a tool: it only reads,
\* it writes, it reads the ledger of receipts, or there is none of its name.
Tools == {"read", "write", "step", "unknown"}

\* The answers are sequences of calls: providers deliver them in order.
ASSUME BatchesAssumption ==
  Batches \subseteq Seq([tool : Tools, cites : STRING, whole : BOOLEAN])
ASSUME UsagesAssumption == Usages \subseteq {"none", "low", "high"}
ASSUME OverlapAssumption == Overlap \in BOOLEAN
ASSUME LimitsAssumption ==
  MaxParallel \in Nat \ {0} /\ TailFloor \in Nat \ {0, 1}
  /\ MaxSteps \in Nat \ {0}

VARIABLES
  log,       \* session.Messages
  saved,     \* the session file; <<>>: there is none
  idless,    \* the gateway sends no call ids
  pc,        \* where RunMessage stands
  started,   \* length of the log before the turn
  round,     \* step: rounds of this turn
  calls,     \* the calls of the current answer
  usage,     \* what the last answer told of the prompt: none, low or high
  st,        \* where each call of the current answer stands
  nth,       \* results appended so far
  read,      \* the log an automatic pass works on
  ledger,    \* evidence: receipts <<tool, success>> of this turn
  storm,     \* stormSig and stormCount
  latch,     \* consecutiveCompacts and compactStuck
  pass,      \* /compact: "off", "on", "save", with the log it works on
  used,      \* how often each bounded event has happened
  \* History, read by the properties only:
  worked,    \* tools of which a call succeeded in this turn
  hist,      \* what each round of this process failed of
  nudged,    \* the last round got the loop guard's directive
  fired,     \* automatic passes since the prompt was last under the trigger
  overlapped \* /compact has overlapped a turn

turnVars == <<pc, started, round, calls, usage, st, nth, read>>
guardVars == <<ledger, storm, latch>>
ghostVars == <<worked, hist, nudged, fired, overlapped>>
vars == <<log, saved, idless, turnVars, guardVars, pass, used, ghostVars>>

System == Text("system")
User == Text("user")
Kept == 1        \* head of planCompaction: the system prompt
Spend(event, n) == used' = [used EXCEPT ![event] = @ + n]
NoStorm == [sig |-> <<>>, count |-> 0]
NoPass == [at |-> "off", read |-> <<>>]

Clear == [count |-> 0, stuck |-> FALSE]

Init ==
  /\ log = <<System>> /\ saved = <<>> /\ idless \in BOOLEAN
  /\ pc = "idle" /\ started = 0 /\ round = 0 /\ usage = "none"
  /\ calls = <<>> /\ st = <<>> /\ nth = 0 /\ read = <<>>
  /\ ledger = {} /\ storm = NoStorm /\ latch = Clear /\ pass = NoPass
  /\ worked = {} /\ hist = <<>> /\ nudged = FALSE /\ fired = 0
  /\ used = [e \in {"turns", "rounds", "calls", "passes", "crashes"} |-> 0]
  /\ overlapped = FALSE

-----------------------------------------------------------------------------
(* RunMessage up to the answer.                                            *)

KeepLedger == ledger          \* mutant: the receipts of earlier turns count
ResetLedger == {}

StartTurn ==
  /\ pc = "idle"
  /\ ~Overlap => pass = NoPass
  /\ used.turns < MaxTurns
  /\ Spend("turns", 1)
  /\ pc' = "stream" /\ started' = Len(log) /\ round' = 0
  /\ log' = Append(log, User)
  /\ ledger' = ResetLedger
  /\ worked' = {}
  /\ overlapped' = (overlapped \/ pass # NoPass)
  /\ UNCHANGED <<saved, idless, calls, usage, st, nth, read, storm, latch, pass,
                 hist, nudged, fired>>

\* What the client sends to the provider.
Request == SanitizeToolPairing(log)

CallsOf(batch) ==
  [k \in DOMAIN batch |->
     [id |-> IF idless THEN 0 ELSE used.calls + k, serial |-> used.calls + k,
      tool |-> batch[k].tool, cites |-> batch[k].cites,
      whole |-> batch[k].whole]]

\* An answer, with calls or final.  A final one ends the turn.
Answer(batch, u) ==
  /\ pc = "stream"
  /\ used.rounds < MaxRounds
  /\ used' = [used EXCEPT !.rounds = @ + 1, !.calls = @ + Len(batch)]
  /\ calls' = CallsOf(batch)
  /\ log' = Append(log, Calling(CallsOf(batch)))
  /\ usage' = u
  /\ st' = [k \in DOMAIN batch |-> "wait"]
  /\ pc' = IF batch = <<>> THEN "end" ELSE "exec"
  /\ UNCHANGED <<saved, idless, started, round, nth, read, guardVars, pass,
                 ghostVars>>

\* The stream fails, breaks off or is cancelled: nothing is appended.
StreamFails ==
  /\ pc = "stream"
  /\ pc' = "end"
  /\ UNCHANGED <<log, saved, idless, started, round, calls, usage, st, nth,
                 read, guardVars, pass, used, ghostVars>>

-----------------------------------------------------------------------------
(* executeBatch.  The known read-only tools are "read"; complete_step and  *)
(* todo_write, "step", read the ledger and so never run in parallel.       *)

Parallelisable(k) == calls[k].tool = "read"

\* partitionToolCalls: contiguous parallelisable calls are one segment.
SameSegment(i, k) ==
  \/ i = k
  \/ \A m \in DOMAIN calls : (i <= m /\ m <= k) => Parallelisable(m)

Busy(k) == st[k] = "run"
Finished(k) == st[k] \in {"ok", "err", "unknown", "blocked"}

ExecStep(k, s) ==
  /\ pc = "exec"
  /\ st' = [st EXCEPT ![k] = s]
  /\ UNCHANGED <<log, saved, idless, pc, started, round, calls, usage, nth,
                 read, storm, latch, pass, used, hist, nudged, fired,
                 overlapped>>

\* runParallel launches the calls of a segment in order; another segment
\* waits for all of them.
Launch(k) ==
  /\ st[k] = "wait"
  /\ \A i \in 1..k-1 : IF SameSegment(i, k) THEN st[i] # "wait" ELSE Finished(i)
  /\ Cardinality({i \in DOMAIN calls : Busy(i)}) < MaxParallel
  /\ ExecStep(k, "run")
  /\ UNCHANGED <<ledger, worked>>

\* executeOne refuses the call: no such tool, or the permission gate or a
\* hook says no.  There is no receipt.
Refuse(k) ==
  /\ st[k] = "run"
  /\ ExecStep(k, IF calls[k].tool = "unknown" THEN "unknown" ELSE "blocked")
  /\ UNCHANGED <<ledger, worked>>

Accepts(k) ==
  calls[k].cites # "none" => <<calls[k].cites, TRUE>> \in ledger

\* Execute with the receipt; a refused complete_step leaves none.
Execute(k, ok) ==
  /\ st[k] = "run" /\ calls[k].tool # "unknown"
  /\ ok => calls[k].whole /\ Accepts(k)
  /\ ExecStep(k, IF ok THEN "ok" ELSE "err")
  /\ ledger' = IF calls[k].tool = "step" /\ ~ok THEN ledger
               ELSE ledger \cup {<<calls[k].tool, ok>>}
  /\ worked' = IF ok THEN worked \cup {calls[k].tool} ELSE worked

\* batchStormSignature: <<>> unless every call failed and none was blocked.
Signature ==
  IF \E k \in DOMAIN calls : st[k] \in {"ok", "blocked"} THEN <<>>
  ELSE [k \in DOMAIN calls |-> <<calls[k].tool, st[k]>>]

stormBreakThreshold == 3

Counted(sig) ==
  IF sig = <<>> THEN NoStorm
  ELSE IF sig # storm.sig THEN [sig |-> sig, count |-> 1]
  ELSE [storm EXCEPT !.count = @ + 1]

\* The batch is done: applyStormBreaker, then the results in call order.
Collect ==
  /\ pc = "exec" /\ \A k \in DOMAIN calls : Finished(k)
  /\ storm' = Counted(Signature)
  /\ nudged' = (storm'.count >= stormBreakThreshold)
  /\ hist' = Append(hist, Signature)
  /\ pc' = "append" /\ nth' = 0
  /\ UNCHANGED <<log, saved, idless, started, round, calls, usage, st, read,
                 ledger, latch, pass, used, worked, fired, overlapped>>

AppendResult ==
  /\ pc = "append"
  /\ log' = Append(log, Result(calls[nth + 1].id, calls[nth + 1].serial))
  /\ IF nth + 1 = Len(calls)
     THEN pc' = "maintain" /\ nth' = 0 /\ calls' = <<>> /\ st' = <<>>
     ELSE pc' = pc /\ nth' = nth + 1 /\ UNCHANGED <<calls, st>>
  /\ UNCHANGED <<saved, idless, started, round, usage, read, guardVars, pass,
                 used, ghostVars>>

-----------------------------------------------------------------------------
(* Compaction.                                                             *)

NoAlign(msgs, s) == s      \* mutant: the tail may begin with a result
Align(msgs, s) ==
  Max({t \in Kept..s : t = Kept \/ ~IsTool(msgs[t + 1])})

minCompactMessages == 2

\* planCompaction: the lengths of the part before the tail it may choose.
Starts(msgs) ==
  {Align(msgs, s) : s \in Kept + 1..Len(msgs) - TailFloor}

Worthwhile(start) == start - Kept >= minCompactMessages

Compacted(msgs, start) ==
  SubSeq(msgs, 1, Kept) \o <<User>> \o SubSeq(msgs, start + 1, Len(msgs))

\* The next round, unless the turn has had its last one.
NextRound ==
  /\ round' = round + 1
  /\ usage' = "none"
  /\ pc' = IF round + 1 = MaxSteps THEN "end" ELSE "stream"

NeverStuck(n) == [count |-> n, stuck |-> FALSE]      \* mutant
Latched(n) == [count |-> n, stuck |-> n >= 2]

\* A pass that found too little to compact counts like one that compacted.
PassDone ==
  /\ latch' = Latched(latch.count + 1)
  /\ fired' = fired + 1
  /\ NextRound

MaintainVars == <<saved, idless, started, calls, st, nth, ledger, storm,
                  pass, used, worked, hist, nudged, overlapped>>

\* maybeCompact.
Maintain ==
  /\ pc = "maintain"
  /\ \/ /\ usage = "none" \/ (usage = "high" /\ latch.stuck)
        /\ NextRound /\ UNCHANGED <<latch, fired, read>>
     \/ /\ usage = "low"
        /\ latch' = Clear /\ fired' = 0
        /\ NextRound /\ UNCHANGED read
     \/ /\ usage = "high" /\ ~latch.stuck
        /\ \/ \E s \in Starts(log) : Worthwhile(s)
              /\ read' = log /\ pc' = "fold"
              /\ UNCHANGED <<round, usage, latch, fired>>
           \/ /\ \E s \in Starts(log) \cup {Kept} : ~Worthwhile(s)
              /\ PassDone /\ UNCHANGED read
  /\ UNCHANGED <<log, MaintainVars>>

\* compact read the log before it asked for the summary.
Fold ==
  /\ pc = "fold"
  /\ \E s \in Starts(read) : Worthwhile(s) /\ log' = Compacted(read, s)
  /\ read' = <<>>
  /\ PassDone
  /\ UNCHANGED MaintainVars

FoldFails ==
  /\ pc = "fold"
  /\ read' = <<>>
  /\ NextRound
  /\ UNCHANGED <<log, latch, fired, MaintainVars>>

-----------------------------------------------------------------------------
(* The end of a turn, /compact, and a crash.                               *)

\* snapshotActivityIfChanged: a log that has grown is saved.
EndTurn ==
  /\ pc = "end"
  /\ pc' = "idle"
  /\ saved' = IF Len(log) > started THEN log ELSE saved
  /\ UNCHANGED <<log, idless, started, round, calls, usage, st, nth, read,
                 guardVars, pass, used, ghostVars>>

PassVars == <<idless, turnVars, guardVars, worked, hist, nudged, fired>>

PassStarts ==
  /\ pass = NoPass /\ used.passes < MaxPasses
  /\ ~Overlap => pc = "idle"
  /\ \E s \in Starts(log) : Worthwhile(s)
  /\ Spend("passes", 1)
  /\ pass' = [at |-> "on", read |-> log]
  /\ overlapped' = (overlapped \/ pc # "idle")
  /\ UNCHANGED <<log, saved, PassVars>>

PassReplaces ==
  /\ pass.at = "on"
  /\ \E s \in Starts(pass.read) :
       Worthwhile(s) /\ log' = Compacted(pass.read, s)
  /\ pass' = [at |-> "save", read |-> <<>>]
  /\ UNCHANGED <<saved, used, overlapped, PassVars>>

PassFails ==
  /\ pass.at = "on"
  /\ pass' = NoPass
  /\ UNCHANGED <<log, saved, used, overlapped, PassVars>>

\* The terminal saves after the pass, whatever the turn is doing.
PassSaves ==
  /\ pass.at = "save"
  /\ pass' = NoPass
  /\ saved' = log
  /\ UNCHANGED <<log, used, overlapped, PassVars>>

Crash ==
  /\ used.crashes < MaxCrashes
  /\ Spend("crashes", 1)
  /\ log' = IF saved = <<>> THEN <<System>> ELSE saved
  /\ pc' = "idle" /\ started' = 0 /\ round' = 0 /\ usage' = "none"
  /\ calls' = <<>> /\ st' = <<>> /\ nth' = 0 /\ read' = <<>>
  /\ ledger' = {} /\ storm' = NoStorm /\ latch' = Clear /\ pass' = NoPass
  /\ worked' = {} /\ hist' = <<>> /\ nudged' = FALSE /\ fired' = 0
  /\ UNCHANGED <<saved, idless, overlapped>>

Next ==
  \/ StartTurn \/ StreamFails \/ Collect \/ AppendResult
  \/ \E batch \in Batches, u \in Usages : Answer(batch, u)
  \/ \E k \in DOMAIN calls :
       \/ Launch(k)
       \/ Refuse(k)
       \/ \E ok \in BOOLEAN : Execute(k, ok)
  \/ Maintain \/ Fold \/ FoldFails \/ EndTurn
  \/ PassStarts \/ PassReplaces \/ PassFails \/ PassSaves
  \/ Crash

Spec == Init /\ [][Next]_vars

-----------------------------------------------------------------------------
(* The state is well-typed and the loop's place agrees with the batch.     *)
TypeOK ==
  /\ log # <<>> /\ log[1] = System
  /\ pc \in {"idle", "stream", "exec", "append", "maintain", "fold", "end"}
  /\ round \in 0..MaxSteps /\ started \in Nat
  /\ usage \in {"none", "low", "high"}
  /\ DOMAIN st = DOMAIN calls
  /\ nth = 0 \/ nth < Len(calls)
  /\ calls # <<>> <=> pc \in {"exec", "append"}
  /\ pc = "append" => \A k \in DOMAIN calls : Finished(k)
  /\ read # <<>> <=> pc = "fold"
  /\ ledger \subseteq {"read", "write", "step"} \X BOOLEAN
  /\ storm.count \in Nat /\ (storm.count = 0 <=> storm.sig = <<>>)
  /\ latch.stuck => latch.count >= 2
  /\ pass.at \in {"off", "on", "save"}

(* Without an overlapping /compact the log needs no repair when a request  *)
(* is built from it: folds, failed streams, crashes and resumed files keep *)
(* each call with its own result, in call order (agent.go:416, and the     *)
(* alignment of compact.go:279).                                           *)
LogPaired ==
  pc = "stream" /\ ~overlapped =>
    Paired(log) /\ Own(log)

(* Whatever /compact, a crash or a truncated answer left in the log, each  *)
(* request has a result for each call and none astray (provider.go:82).    *)
RequestAnswered ==
  pc = "stream" => Answered(Request) /\ Decodable(Request)

(* The log stays paired by itself, and where /compact can break it the     *)
(* request is repaired; all in a state of the right types.                 *)
PairingHolds == TypeOK /\ LogPaired /\ RequestAnswered

(* A writer, an unknown tool or a reader of the ledger runs when every     *)
(* earlier call has finished and no later one has begun (agent.go:536).    *)
SerialCallsAlone ==
  \A k \in DOMAIN calls :
    Busy(k) /\ calls[k].tool # "read" =>
      /\ \A i \in 1..k-1 : Finished(i)
      /\ \A i \in k+1..Len(calls) : st[i] = "wait"

(* complete_step is accepted only on evidence of a tool that did succeed   *)
(* in this very turn (completestep.go:144).                                *)
EvidenceIsReal ==
  [][\A k \in DOMAIN st \cap DOMAIN st' :
       st[k] = "run" /\ st'[k] = "ok" /\ calls[k].cites # "none" =>
         calls[k].cites \in worked]_vars

(* The ledger is read and written by one call at a time, and complete_step *)
(* finds in it what did happen.                                            *)
LedgerIsTrue == []SerialCallsAlone /\ EvidenceIsReal

\* How many of the last rounds failed, all of them the same way.
Streak ==
  LET n == Len(hist)
  IN Cardinality({m \in 1..n : \A i \in m..n : hist[i] = hist[n] /\ hist[n] # <<>>})

(* The directive to change approach comes exactly when three rounds in a   *)
(* row, of whatever turns, failed the same way (agent.go:647).             *)
NudgedOnThird ==
  pc = "append" => storm.count = Streak /\ (nudged <=> Streak >= 3)

(* Auto-compaction does not fire round after round: it pauses after two    *)
(* passes until the prompt has been under the trigger (compact.go:80).     *)
NoCompactionLoop == fired <= 2

(* Both guards of the loop: against a failure repeated without end and     *)
(* against a compaction repeated without effect.                           *)
LoopGuards == NudgedOnThird /\ NoCompactionLoop

(* Claimed: a result follows "for its id" (provider.go:84).                *)
RequestPaired == pc = "stream" => Paired(Request)

-----------------------------------------------------------------------------
(* A few answers of the model for small instances, with every kind of call *)
(* in some batch.                                                          *)

C(tool, cites, whole) == [tool |-> tool, cites |-> cites, whole |-> whole]
R == C("read", "none", TRUE)
Step == C("step", "read", TRUE)

Bad == C("read", "none", FALSE)
Unknown == C("unknown", "none", TRUE)

Mixed == {<<>>, <<Bad, R>>, <<R, Step>>, <<Unknown>>}
Simple == {<<>>, <<R>>}
=============================================================================
