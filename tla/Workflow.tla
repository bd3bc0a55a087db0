------------------------------ MODULE Workflow ------------------------------
(***************************************************************************)
(* A workflow (workflow/engine.go, host.go) and the sub-agents it starts   *)
(* (agent/task.go): a script on one loop goroutine calls agent() as often  *)
(* as it likes, each call is a worker goroutine that must get under the    *)
(* count, under the token ceiling and into a slot, and its promise is      *)
(* settled back on the loop.  The script may return, or throw, without     *)
(* having awaited its calls.                                               *)
(***************************************************************************)
EXTENDS Naturals, FiniteSets, Sequences, SequencesExt

CONSTANTS
  Agents,         \* calls of agent() the script makes
  MaxConcurrent, MaxAgents,
  MaxTokens,      \* the ceiling; an agent's turn costs one token
  Tools, Meta     \* the parent's tools, and the ones among them barred to a sub-agent

VARIABLES
  at,         \* per call: uncalled, counting, over, counted, queued, running,
              \* settling, settled
  verdict,    \* per call: what its promise is settled with
  spawned, tokens, slots,
  rows,       \* the panel: dispatches and results
  tools,      \* per call, the tools its sub-agent has
  loop,       \* the engine: running, or what Run returned
  done,       \* the settlement of the script, once
  cancelled,  \* the tool call's context
  late        \* history: agents that worked after Run had returned by itself

counters == <<spawned, tokens, slots>>
vars == <<at, verdict, counters, rows, tools, loop, done, cancelled, late>>

None == "none"

Init ==
  /\ at = [a \in Agents |-> "uncalled"] /\ verdict = [a \in Agents |-> None]
  /\ spawned = 0 /\ tokens = 0 /\ slots = {}
  /\ rows = <<>> /\ tools = [a \in Agents |-> {}]
  /\ loop = "running" /\ done = None /\ cancelled = FALSE /\ late = {}

Goto(a, l) == at' = [at EXCEPT ![a] = l]
Settle(a, v) == Goto(a, "settling") /\ verdict' = [verdict EXCEPT ![a] = v]

-----------------------------------------------------------------------------
(* The script, on the loop                                                 *)

Call(a) ==
  /\ loop = "running" /\ done = None /\ at[a] = "uncalled"
  /\ Goto(a, "counting")
  /\ UNCHANGED <<verdict, counters, rows, tools, loop, done, cancelled, late>>

\* The loop settles a promise; one that is stopped never does.
Resolve(a) ==
  /\ at[a] = "settling" /\ loop = "running"
  /\ Goto(a, "settled")
  /\ UNCHANGED <<verdict, counters, rows, tools, loop, done, cancelled, late>>

\* __done or __fail; a call that was rejected may have thrown.
Settles ==
  /\ loop = "running" /\ done = None
  /\ done' \in {"value"} \cup {v \in {"error"} : \E a \in Agents :
                                 at[a] = "settled" /\ verdict[a] # "ok"}
  /\ UNCHANGED <<at, verdict, counters, rows, tools, loop, cancelled, late>>

\* Run's select: either may be taken when both are ready.
Return ==
  /\ loop = "running"
  /\ loop' \in {v \in {done} : done # None} \cup {c \in {"cancelled"} : cancelled}
  /\ UNCHANGED <<at, verdict, counters, rows, tools, done, cancelled, late>>

Cancel ==
  /\ ~cancelled /\ loop = "running"
  /\ cancelled' = TRUE
  /\ UNCHANGED <<at, verdict, counters, rows, tools, loop, done, late>>

-----------------------------------------------------------------------------
(* runOneAgent                                                             *)

\* spawned.Add(1) is one step and the comparison uses its result; above the
\* cap it is rolled back in another.
Count(a) ==
  /\ at[a] = "counting"
  /\ spawned' = spawned + 1
  /\ Goto(a, IF spawned + 1 > MaxAgents THEN "over" ELSE "counted")
  /\ UNCHANGED <<verdict, tokens, slots, rows, tools, loop, done, cancelled, late>>

RollBack(a) ==
  /\ at[a] = "over"
  /\ spawned' = spawned - 1
  /\ Settle(a, "max_agents")
  /\ UNCHANGED <<tokens, slots, rows, tools, loop, done, cancelled, late>>

Ceiling(a) ==
  /\ at[a] = "counted"
  /\ IF tokens >= MaxTokens
     THEN Settle(a, "max_tokens")
     ELSE Goto(a, "queued") /\ UNCHANGED verdict
  /\ UNCHANGED <<counters, rows, tools, loop, done, cancelled, late>>

HasRoom(a) == Cardinality(slots) < MaxConcurrent

FilterRegistry(want) == (IF want = {} THEN Tools ELSE want) \ Meta

\* The slot, the row of the panel, and the sub-agent's registry.
Start(a) ==
  /\ at[a] = "queued" /\ HasRoom(a)
  /\ slots' = slots \cup {a}
  /\ rows' = Append(rows, [a |-> a, end |-> FALSE])
  /\ \E want \in SUBSET Tools : tools' = [tools EXCEPT ![a] = FilterRegistry(want)]
  /\ Goto(a, "running")
  /\ UNCHANGED <<verdict, spawned, tokens, loop, done, cancelled, late>>

NoSlot(a) ==
  /\ at[a] = "queued" /\ cancelled
  /\ Settle(a, "cancelled")
  /\ UNCHANGED <<counters, rows, tools, loop, done, cancelled, late>>

\* A turn of the sub-agent: a call of the model, tools and tokens.
Turn(a) ==
  /\ at[a] = "running" /\ ~cancelled /\ tokens <= MaxTokens   \* bound
  /\ tokens' = tokens + 1
  /\ late' = IF loop \in {"value", "error"} THEN late \cup {a} ELSE late
  /\ UNCHANGED <<at, verdict, spawned, slots, rows, tools, loop, done, cancelled>>

CloseRow(s, a) == Append(s, [a |-> a, end |-> TRUE])

Finish(a) ==
  /\ at[a] = "running"
  /\ \E v \in IF cancelled THEN {"cancelled"} ELSE {"ok", "failed"} :
       /\ Settle(a, v)
       /\ rows' = CloseRow(rows, a)
  /\ slots' = slots \ {a}
  /\ UNCHANGED <<spawned, tokens, tools, loop, done, cancelled, late>>

Work(a) ==
  \/ Count(a) \/ RollBack(a) \/ Ceiling(a) \/ Start(a) \/ NoSlot(a) \/ Turn(a) \/ Finish(a)
  \/ Resolve(a)

Next ==
  \/ \E a \in Agents : Call(a) \/ Work(a)
  \/ Settles \/ Return \/ Cancel

Spec == Init /\ [][Next]_vars

(* Workers move and their sub-agents finish; Run's select is served.  The  *)
(* script itself may loop for ever.                                        *)
Fairness ==
  /\ WF_vars(Return)
  /\ \A a \in Agents : WF_vars(Count(a) \/ RollBack(a) \/ Ceiling(a) \/ NoSlot(a) \/ Finish(a))
                       /\ WF_vars(Start(a)) /\ WF_vars(Resolve(a))

-----------------------------------------------------------------------------
Running == {a \in Agents : at[a] = "running"}
Over == {a \in Agents : at[a] = "over"}
Refused == {a \in Agents : verdict[a] = "max_agents"}
LetIn == {a \in Agents : at[a] \notin {"uncalled", "counting", "over"}} \ Refused

(* The script cannot raise the caps: never more sub-agents at once than    *)
(* slots, never more in all than the cap, and a call is refused for the    *)
(* count, be it one not rolled back yet, only when that many were let in.  *)
(* (runOneAgent)                                                           *)
CapsHold ==
  /\ Cardinality(Running) <= MaxConcurrent /\ Running = slots
  /\ Cardinality(LetIn) + Cardinality(Over) = spawned
  /\ Cardinality(LetIn) <= MaxAgents
  /\ Refused \cup Over # {} => Cardinality(LetIn) = MaxAgents

(* Delegation stays one layer deep: no sub-agent may start another.        *)
OneLayer == \A a \in Agents : tools[a] \cap Meta = {}

(* A row of the panel is opened once, closed once, in that order, and is   *)
(* open exactly while its sub-agent runs.                                  *)
RowsTrue ==
  \A a \in Agents :
    LET opened == {k \in DOMAIN rows : rows[k].a = a /\ ~rows[k].end}
        closed == {k \in DOMAIN rows : rows[k].a = a /\ rows[k].end}
    IN /\ \A j, k \in opened : j = k
       /\ \A j, k \in closed : j = k
       /\ \A k \in closed : \E j \in opened : j < k
       /\ a \in Running <=> opened # {} /\ closed = {}

(* A worker is never stuck: its promise is settled unless the loop, which  *)
(* would have to do it, has stopped; and a cancelled Run returns.          *)
PromisesSettle ==
  /\ []<>(\A a \in Agents : at[a] \in {"uncalled", "settled"} \/ (at[a] = "settling" /\ loop # "running"))
  /\ []<>(~cancelled \/ loop # "running")

(* Claimed: Run runs the script to completion; sub-agents the script did   *)
(* not await go on working after the tool's result is in the log.          *)
NothingAfterReturn == late = {}
=============================================================================
