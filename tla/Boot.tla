-------------------------------- MODULE Boot --------------------------------
(***************************************************************************)
(* The assembly of a session (boot/boot.go) and of the next one that       *)
(* replaces it in the same process (/model, POST /model) up to the exit:   *)
(* the servers by tier, the batch of eager handshakes (plugin/plugin.go), the placeholders*)
(* of the others, the records of startup times and schemas that the next   *)
(* build reads (plugin/stats.go, cache.go), and Close.                     *)
(* A sample of a startup is "over" when it is at or above the budget.      *)
(***************************************************************************)
EXTENDS Naturals, Sequences, FiniteSets

CONSTANTS
  Servers,      \* configured MCP servers, "codegraph" among them
  Tier,         \* their tiers
  SlugOf,       \* the name of a server as a file name
  Concurrency,  \* defaultStartConcurrency
  DemoteAfter,  \* samples over the budget
  MaxSamples,   \* the window
  MaxBuilds,    \* bound: builds
  MaxEdits      \* bound: edits of a server's configuration

VARIABLES
  version,      \* the configuration each server has: its Spec
  edits,
  stats, cache, records,   \* files by slug, and goroutines about to write them
  bundle,       \* codegraph: "absent", "here"
  step, gen,    \* where Build stands, and which build it is
  built,        \* the Specs it works with
  hs, placed,   \* the batch's handshakes, and what became of each server
  demoted,
  alive,        \* server processes <<gen, server>>
  spawning,     \* those a background or lazy spawn shakes hands with
  open,         \* the session in use, 0 for none
  front,        \* "terminal" or "server"
  retired,      \* sessions of the terminal to be closed at its exit
  unowned       \* history: processes of a build that failed, or whose spawn a Close overtook

files == <<stats, cache, records, bundle>>
batch == <<built, hs, placed, demoted>>
ends == <<open, front, retired>>
procs == <<alive, spawning, ends, unowned>>
vars == <<version, edits, files, step, gen, batch, procs>>

Slugs == {SlugOf[n] : n \in Servers}
NoSchema == <<"none", 0>>
Placed(how, schema) == [as |-> how, schema |-> schema]
Nowhere == Placed("nowhere", NoSchema)

Init ==
  /\ version = [n \in Servers |-> 1] /\ edits = 0
  /\ stats = [s \in Slugs |-> <<>>] /\ cache = [s \in Slugs |-> NoSchema] /\ records = {}
  /\ bundle \in {"absent", "here"}
  /\ step = "none" /\ gen = 0 /\ built = version
  /\ hs = [n \in Servers |-> "none"] /\ placed = [n \in Servers |-> Nowhere]
  /\ demoted = {}
  /\ alive = {} /\ spawning = {} /\ open = 0 /\ unowned = {}
  /\ front \in {"terminal", "server"} /\ retired = {}

-----------------------------------------------------------------------------
(* Build                                                                   *)

Recommend(n) ==
  LET s == stats[SlugOf[n]] IN
  Len(s) >= DemoteAfter /\ \A i \in Len(s) - DemoteAfter + 1 .. Len(s) : s[i] = "over"

\* InitForBoot: ready within its budget, or pending, refused or failed.
InitReady == {FALSE, bundle = "here"}

\* codegraph is eager when its bundle is there and its init came in time.
Eager(demote, ready) ==
  ({n \in Servers : Tier[n] = "eager"} \ demote) \cup (IF ready THEN {"codegraph"} ELSE {})

\* Errors before the servers start leave nothing behind.
Begin ==
  /\ step = "none" /\ gen < MaxBuilds
  /\ gen' = gen + 1 /\ step' = "batch"
  /\ built' = version
  /\ demoted' = {n \in Servers : Tier[n] = "eager" /\ Recommend(n)}
  /\ \E ready \in InitReady :
       hs' = [n \in Servers |-> IF n \in Eager(demoted', ready) THEN "queued" ELSE "none"]
  /\ placed' = [n \in Servers |-> Nowhere]
  /\ UNCHANGED <<version, edits, files, procs>>

In(states) == {n \in Servers : hs[n] \in states}
OnlyOk == In({"starting", "failed"})   \* mutant: a failed handshake keeps its slot
Slots == In({"starting"})

Start(n) ==
  /\ step = "batch" /\ hs[n] = "queued" /\ Cardinality(Slots) < Concurrency
  /\ hs' = [hs EXCEPT ![n] = "starting"]
  /\ alive' = alive \cup {<<gen, n>>}
  /\ UNCHANGED <<version, edits, files, step, gen, built, placed, demoted, spawning, ends, unowned>>

Closed(n) == alive \ {<<gen, n>>}

\* Initialize and tools/list, at most for the timeout, which is the budget.
Handshake(n, ok, sample) ==
  /\ step = "batch" /\ hs[n] = "starting" /\ (ok => sample = "under")
  /\ hs' = [hs EXCEPT ![n] = IF ok THEN "ok" ELSE "failed"]
  /\ alive' = IF ok THEN alive ELSE Closed(n)
  /\ records' = records \cup {[spec |-> <<n, built[n]>>, sample |-> sample, ok |-> ok]}
  /\ UNCHANGED <<version, edits, stats, cache, bundle, step, gen, built, placed, demoted,
                 spawning, ends, unowned>>

LoadCachedSchema(n) ==
  IF cache[SlugOf[n]] = <<n, built[n]>> THEN cache[SlugOf[n]] ELSE NoSchema

Deferred(n) == n # "codegraph" /\ (Tier[n] # "eager" \/ n \in demoted)

\* The batch is over: its clients and failures, then the placeholders; those
\* of the background tier start to shake hands.
Register ==
  /\ step = "batch" /\ In({"queued", "starting"}) = {}
  /\ placed' = [n \in Servers |->
       IF hs[n] # "none" THEN Placed(hs[n], NoSchema)
       ELSE IF Deferred(n) THEN Placed("placeholder", LoadCachedSchema(n)) ELSE Nowhere]
  /\ LET kicked == {<<gen, n>> : n \in {m \in Servers : Tier[m] = "background" /\ Deferred(m)}} IN
       spawning' = spawning \cup kicked /\ alive' = alive \cup kicked
  /\ step' = "assemble"
  /\ UNCHANGED <<version, edits, files, gen, built, hs, demoted, ends, unowned>>

Of(g) == {p \in alive : p[1] = g}

\* The planner's provider may not be there: the error leaves the servers.
PlannerFails ==
  /\ step = "assemble"
  /\ step' = "none" /\ unowned' = unowned \cup Of(gen)
  /\ UNCHANGED <<version, edits, files, gen, batch, alive, spawning, ends>>

AtExit == {open} \cup retired

\* Host.Close knows the clients that are listed by then.
Close(gens) ==
  LET of == UNION {Of(g) : g \in gens} IN
  /\ alive' = alive \ (of \ spawning)
  /\ unowned' = unowned \cup (of \cap spawning)

\* The frontend takes the new session; the server closes the old one, the
\* terminal keeps it for its exit.
Swap ==
  /\ step = "assemble"
  /\ step' = "none" /\ open' = gen
  /\ IF front = "server" THEN Close({open}) /\ UNCHANGED retired
     ELSE retired' = retired \cup ({open} \ {0}) /\ UNCHANGED <<alive, unowned>>
  /\ UNCHANGED <<version, edits, files, gen, batch, spawning, front>>

Exit ==
  /\ step = "none" /\ open # 0 /\ gen = MaxBuilds
  /\ Close(AtExit)
  /\ open' = 0 /\ retired' = {}
  /\ UNCHANGED <<version, edits, files, step, gen, batch, spawning, front>>

-----------------------------------------------------------------------------
(* Meanwhile                                                               *)

\* The first call of a lazy tool.
Use(n) ==
  /\ step = "none" /\ open = gen /\ open # 0
  /\ placed[n].as = "placeholder" /\ <<open, n>> \notin alive
  /\ spawning' = spawning \cup {<<open, n>>} /\ alive' = alive \cup {<<open, n>>}
  /\ UNCHANGED <<version, edits, files, step, gen, batch, ends, unowned>>

Spawned(p) ==
  /\ p \in spawning
  /\ spawning' = spawning \ {p}
  /\ alive' \in {alive, alive \ {p}}
  /\ UNCHANGED <<version, edits, files, step, gen, batch, ends, unowned>>

RecordStartup(r) ==
  LET s == Append(stats[SlugOf[r.spec[1]]], r.sample)
  IN [stats EXCEPT ![SlugOf[r.spec[1]]] =
        IF Len(s) > MaxSamples THEN SubSeq(s, Len(s) - MaxSamples + 1, Len(s)) ELSE s]

\* Written on the side, each file by a rename.
Record(r) ==
  /\ stats' = RecordStartup(r)
  /\ cache' = IF r.ok THEN [cache EXCEPT ![SlugOf[r.spec[1]]] = r.spec] ELSE cache
  /\ records' = records \ {r}
  /\ UNCHANGED <<version, edits, bundle, step, gen, batch, procs>>

\* The download ends: checked, unpacked aside and renamed into place.
Install ==
  /\ bundle = "absent" /\ gen > 0 /\ "codegraph" \in Servers
  /\ bundle' = "here"
  /\ UNCHANGED <<version, edits, stats, cache, records, step, gen, batch, procs>>

Edit(n) ==
  /\ edits < MaxEdits /\ n # "codegraph"
  /\ edits' = edits + 1
  /\ version' = [version EXCEPT ![n] = 3 - @]
  /\ UNCHANGED <<files, step, gen, batch, procs>>

Building ==
  \/ \E n \in Servers : Start(n) \/ \E ok \in BOOLEAN, s \in {"under", "over"} : Handshake(n, ok, s)
  \/ Register \/ PlannerFails \/ Swap

Next ==
  \/ Begin \/ Building \/ Install \/ Exit
  \/ \E n \in Servers : Use(n) \/ Edit(n)
  \/ \E p \in spawning : Spawned(p)
  \/ \E r \in records : Record(r)

\* Handshakes end, by their timeout at the latest.
Fairness == WF_vars(Building)
Spec == Init /\ [][Next]_vars /\ Fairness

-----------------------------------------------------------------------------
(* A server process belongs to the session in use, to the build under way, *)
(* where it did not fail, or to a session to be closed at exit; or it is   *)
(* one of those that nobody owns: of a build that failed at its planner,   *)
(* or still shaking hands when its session was closed.                     *)
NoOrphans ==
  \A p \in alive :
    \/ p[1] = gen /\ (step # "none" \/ open = gen) /\ hs[p[2]] # "failed"
    \/ p[1] \in ({open} \cup retired) \ {gen}
    \/ p \in unowned

(* Every server of a session that is built is connected, listed as failed  *)
(* or held by a placeholder, one that was demoted too.  (partitionByTier,  *)
(* registerDeferred)                                                       *)
AllAccounted ==
  step = "assemble" => \A n \in Servers \ {"codegraph"} : placed[n].as # "nowhere"

(* Placeholders offer the tools of a handshake with this very server under *)
(* the configuration the build took, though names and sessions share files.*)
SchemaFits ==
  \A n \in Servers : placed[n].as = "placeholder" =>
    placed[n].schema \in {NoSchema, <<n, built[n]>>}

(* A build comes to its end, whatever the servers do.  (Start)             *)
BuildEnds == []<>(step = "none")

(* Claimed: a demotion is for one session.  A demoted server is not timed  *)
(* again, so that it stays demoted.                                        *)
ForOneSession ==
  [][\A n \in demoted : step = "none" /\ step' = "batch" => n \notin demoted']_vars

(* Claimed: the controller owns the subprocesses of its plugins.           *)
EveryProcessOwned == unowned \cap alive = {}
=============================================================================
