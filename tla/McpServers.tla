----------------------------- MODULE McpServers -----------------------------
(***************************************************************************)
(* One configured MCP server across the session: the host's list of        *)
(* connected clients (plugin/plugin.go), the lazy spawn behind its         *)
(* placeholder tools (plugin/lazy.go), its names in the tool registry      *)
(* (tool/tool.go) and the controller's connect and remove commands         *)
(* (control/controller.go).  A step is a critical section of h.mu, of the  *)
(* spawn's mu or of the registry's mu, or a call outside them.             *)
(***************************************************************************)
EXTENDS Integers, Sequences, FiniteSets

CONSTANTS
  Execs,        \* tool calls of the turns, each made once
  Users,        \* goroutines that run a /mcp command
  Gatings,      \* "terminal": commands run between turns, one at a time; or "server"
  MaxCommands,  \* bound on the commands
  MaxClients    \* bound on the connections

ASSUME ConstantsAssumption ==
  /\ IsFiniteSet(Execs) /\ IsFiniteSet(Users) /\ Execs \cap Users = {}
  /\ {"run", "free"} \cap (Execs \cup Users) = {}
  /\ Gatings \subseteq {"terminal", "server"}
  /\ MaxCommands \in Nat /\ MaxClients \in Nat /\ MaxClients > MaxCommands

VARIABLES
  gating,                 \* the front-end
  tier, cached,           \* how the server is configured, and its schema cache
  boot,                   \* boot's progress with the placeholders
  inConfig,               \* the config file names the server
  clients, failed, prompts,  \* fields of Host
  state, real, swapped,   \* fields of lazySpawn
  spawnMu,                \* who holds its mu
  handshakes,             \* handshakes the spawn has begun
  reg,                    \* what the registry holds under the server's names
  conn,                   \* per connection, where it stands
  fetching,               \* connections whose prompts are being fetched
  pc,                     \* where each goroutine stands
  mine,                   \* the connection it makes or ends
  commands,               \* commands so far
  history                 \* whether the user has removed the server, and since reconnected it

config == <<gating, tier, cached, boot, inConfig>>
host == <<clients, failed, prompts>>
spawn == <<state, real, swapped, spawnMu, handshakes>>
links == <<conn, fetching>>
procs == <<pc, mine>>
env == <<commands, history>>
vars == <<config, host, spawn, reg, links, procs, env>>

Run == "run"              \* the goroutine of lazySpawn.run
Free == "free"            \* spawnMu is not held
Placeholder == -1         \* a name of the registry holds one of these two or a connection
Absent == 0
Tools == {"connect", "call"}   \* the stub of an unknown schema, a real tool

Procs == Execs \cup Users \cup {Run}
Conns == 1..MaxClients
NoConn == 0

\* What boot registers: one placeholder per cached tool, or the stub.
Placeheld == IF cached THEN {"call"} ELSE {"connect"}

Init ==
  /\ gating \in Gatings
  /\ tier \in {"eager", "lazy", "background"} /\ cached \in BOOLEAN
  /\ tier = "eager" => ~cached
  /\ boot = IF tier = "eager" THEN "eager" ELSE "kick"
  /\ inConfig = TRUE
  /\ clients = <<>> /\ failed = FALSE /\ prompts = {}
  /\ state = "idle" /\ real = NoConn /\ swapped = FALSE /\ spawnMu = Free
  /\ handshakes = 0
  /\ reg = [t \in Tools |-> Absent]
  /\ conn = [i \in Conns |-> "unborn"] /\ fetching = {}
  /\ pc = [p \in Procs |-> "idle"] /\ mine = [p \in Procs |-> NoConn]
  /\ commands = 0 /\ history = "never removed"

Goto(p, label) == pc' = [pc EXCEPT ![p] = label]

-----------------------------------------------------------------------------
(* The registry                                                            *)

RemovePrefix == [t \in Tools |-> Absent]
AddReal(i) == [reg EXCEPT !["call"] = i]

-----------------------------------------------------------------------------
(* Boot                                                                    *)

\* Start: the batch of eager servers, each handshake under its own timeout.
EagerUp ==
  /\ boot = "eager"
  /\ clients' = <<1>> /\ conn' = [conn EXCEPT ![1] = "up"]
  /\ reg' = AddReal(1) /\ fetching' = {1}
  /\ boot' = "done"
  /\ UNCHANGED <<gating, tier, cached, inConfig, failed, prompts, spawn, procs, env>>

EagerFails ==
  /\ boot = "eager"
  /\ conn' = [conn EXCEPT ![1] = "closed"]
  /\ failed' = TRUE /\ boot' = "done"
  /\ UNCHANGED <<gating, tier, cached, inConfig, clients, prompts, spawn, reg, fetching, procs, env>>

\* LazyToolset: a background server is kicked before boot adds its tools.
Kick ==
  /\ boot = "kick" /\ spawnMu = Free
  /\ IF tier = "background"
     THEN state' = "inFlight" /\ handshakes' = handshakes + 1 /\ Goto(Run, "has")
     ELSE UNCHANGED <<state, handshakes, pc>>
  /\ boot' = "register"
  /\ UNCHANGED <<gating, tier, cached, inConfig, host, real, swapped, spawnMu, reg, links,
                 mine, env>>

RegisterDeferred ==
  /\ boot = "register"
  /\ reg' = [t \in Tools |-> IF t \in Placeheld THEN Placeholder ELSE reg[t]]
  /\ boot' = "done"
  /\ UNCHANGED <<gating, tier, cached, inConfig, host, spawn, links, procs, env>>

-----------------------------------------------------------------------------
(* Host.Add, on behalf of the spawn goroutine, a call or a command         *)

Unborn == {i \in Conns : conn[i] = "unborn"}
AfterError(p) == IF p \in Users THEN "idle" ELSE "failed"
AfterAdd(p) == IF p \in Users THEN "drop" ELSE "publish"

\* The name is looked up under a lock that is released before the handshake.
AddRefused(p) ==
  /\ pc[p] = "has" /\ clients # <<>>
  /\ Goto(p, AfterError(p))
  /\ UNCHANGED <<config, host, spawn, reg, links, mine, env>>

AddStarts(p) ==
  /\ pc[p] = "has" /\ clients = <<>>
  /\ \E i \in Unborn :
       /\ \A j \in Unborn : i <= j
       /\ conn' = [conn EXCEPT ![i] = "handshake"]
       /\ mine' = [mine EXCEPT ![p] = i]
  /\ Goto(p, "handshake")
  /\ UNCHANGED <<config, host, spawn, reg, fetching, env>>

CloseClient(i) == [conn EXCEPT ![i] = "closed"]

HandshakeFails(p) ==
  /\ pc[p] = "handshake"
  /\ conn' = CloseClient(mine[p])
  /\ mine' = [mine EXCEPT ![p] = NoConn]
  /\ Goto(p, AfterError(p))
  /\ UNCHANGED <<config, host, spawn, reg, fetching, env>>

HandshakeOk(p) ==
  /\ pc[p] = "handshake"
  /\ conn' = [conn EXCEPT ![mine[p]] = "up"]
  /\ Goto(p, "append")
  /\ UNCHANGED <<config, host, spawn, reg, fetching, mine, env>>

ClearFailure == FALSE

AddAppends(p) ==
  /\ pc[p] = "append"
  /\ clients' = Append(clients, mine[p])
  /\ failed' = ClearFailure
  /\ fetching' = fetching \cup {mine[p]}
  /\ Goto(p, AfterAdd(p))
  /\ UNCHANGED <<config, prompts, spawn, reg, conn, mine, env>>

\* fetchPrompts: an auxiliary connection lists them, whatever became of the
\* first.  A fetch that fails changes nothing.
FetchDone(i) ==
  /\ i \in fetching
  /\ fetching' = fetching \ {i}
  /\ prompts' = prompts \cup {i}
  /\ UNCHANGED <<config, clients, failed, spawn, reg, conn, procs, env>>

-----------------------------------------------------------------------------
(* The spawn                                                               *)

SpawnFailed(p) ==
  /\ pc[p] = "failed" /\ spawnMu = Free
  /\ state' = "failed"
  /\ Goto(p, "done")
  /\ UNCHANGED <<config, host, real, swapped, spawnMu, handshakes, reg, links, mine, env>>

\* The result is published, and trySwap begins with the stub.
Publish(p) ==
  /\ pc[p] = "publish" /\ spawnMu = Free
  /\ spawnMu' = p
  /\ state' = "ready" /\ real' = mine[p] /\ mine' = [mine EXCEPT ![p] = NoConn]
  /\ reg' = IF cached THEN reg ELSE RemovePrefix
  /\ Goto(p, "swap")
  /\ UNCHANGED <<config, host, swapped, handshakes, links, env>>

NoSwap == reg                       \* mutant: the real tools are not installed
Installed == AddReal(real)

\* run returns; a call keeps the lock and goes on to the real tool, unless
\* the cached schema was stale.
Swap(p) ==
  /\ pc[p] = "swap"
  /\ reg' = Installed /\ swapped' = TRUE
  /\ \/ Goto(p, "done") /\ spawnMu' = Free
     \/ p # Run /\ Goto(p, "real") /\ UNCHANGED spawnMu
  /\ UNCHANGED <<config, host, state, real, handshakes, links, mine, env>>

-----------------------------------------------------------------------------
(* A tool call                                                             *)

CommandRuns == \E u \in Users : pc[u] # "idle"

Lookup(e) ==
  /\ pc[e] = "idle" /\ boot = "done" /\ (gating = "terminal" => ~CommandRuns)
  /\ \E t \in Tools :
       Goto(e, CASE reg[t] = Absent -> "done"
                 [] reg[t] = Placeholder -> IF t = "call" THEN "ask" ELSE "askStub"
                 [] OTHER -> "real")
  /\ UNCHANGED <<config, host, spawn, reg, links, mine, env>>

Asks(e) == pc[e] \in {"ask", "askStub"} /\ spawnMu = Free

\* A placeholder of a spawn that is ready forwards, if it knows the tool.
Forward(e) ==
  /\ Asks(e) /\ state = "ready"
  /\ \E next \in {"done"} \cup (IF pc[e] = "ask" THEN {"real"} ELSE {}) : Goto(e, next)
  /\ UNCHANGED <<config, host, spawn, reg, links, mine, env>>

Refuse(e) ==
  /\ Asks(e) /\ state \in {"inFlight", "failed"}
  /\ Goto(e, "done")
  /\ UNCHANGED <<config, host, spawn, reg, links, mine, env>>

InFlight == "inFlight"

\* The stub starts the goroutine and asks the model to retry.
SpawnAsync(e) ==
  /\ Asks(e) /\ state = "idle" /\ pc[e] = "askStub"
  /\ state' = InFlight /\ handshakes' = handshakes + 1
  /\ pc' = [pc EXCEPT ![e] = "done", ![Run] = "has"]
  /\ UNCHANGED <<config, host, real, swapped, spawnMu, reg, links, mine, env>>

\* A cached tool shakes hands itself, on the session's context.
SpawnHere(e) ==
  /\ Asks(e) /\ state = "idle" /\ pc[e] = "ask"
  /\ state' = InFlight /\ handshakes' = handshakes + 1
  /\ Goto(e, "has")
  /\ UNCHANGED <<config, host, real, swapped, spawnMu, reg, links, mine, env>>

KeepLock(e) == spawnMu              \* mutant: the deferred unlock is missing
Unlock(e) == IF spawnMu = e THEN Free ELSE spawnMu

\* The real tool answers, fails, or is abandoned with its turn.
RealReturns(e) ==
  /\ pc[e] = "real"
  /\ Goto(e, "done") /\ spawnMu' = Unlock(e)
  /\ UNCHANGED <<config, host, state, real, swapped, handshakes, reg, links, mine, env>>

-----------------------------------------------------------------------------
(* Commands                                                                *)

MayCommand(u) ==
  /\ pc[u] = "idle" /\ boot = "done" /\ commands < MaxCommands
  /\ gating = "terminal" =>
       ~CommandRuns /\ (\A e \in Execs : pc[e] \in {"idle", "done"})

Connect(u) ==
  /\ MayCommand(u) /\ inConfig
  /\ commands' = commands + 1
  /\ history' = IF history = "removed" THEN "reconnected" ELSE history
  /\ Goto(u, "has")
  /\ UNCHANGED <<config, host, spawn, reg, links, mine>>

\* connectMCPSpec drops what the registry has of the server, then adds.
ConnectDrops(u) ==
  /\ pc[u] = "drop"
  /\ reg' = RemovePrefix
  /\ Goto(u, "add")
  /\ UNCHANGED <<config, host, spawn, links, mine, env>>

ConnectAdds(u) ==
  /\ pc[u] = "add"
  /\ reg' = AddReal(mine[u])
  /\ mine' = [mine EXCEPT ![u] = NoConn]
  /\ Goto(u, "idle")
  /\ UNCHANGED <<config, host, spawn, links, env>>

\* RemoveMCPServer and DisconnectMCPServer: first the host's list.  The HTTP
\* server offers neither.
RemoveServer(u) ==
  /\ MayCommand(u) /\ gating = "terminal"
  /\ commands' = commands + 1 /\ history' = "removed"
  /\ IF clients # <<>>
     THEN /\ mine' = [mine EXCEPT ![u] = clients[1]]
          /\ clients' = Tail(clients) /\ prompts' = {} /\ failed' = ClearFailure
          /\ Goto(u, "close")
     ELSE Goto(u, "unregister") /\ UNCHANGED <<mine, host>>
  /\ UNCHANGED <<config, spawn, reg, links>>

\* The subprocess is killed outside the lock.
RemoveCloses(u) ==
  /\ pc[u] = "close"
  /\ conn' = CloseClient(mine[u])
  /\ mine' = [mine EXCEPT ![u] = NoConn]
  /\ Goto(u, "unregister")
  /\ UNCHANGED <<config, host, spawn, reg, fetching, env>>

\* The names go; "remove" also drops the entry in the config file.  (A remove
\* of a name that is neither listed nor in the config only reports it.)
RemoveUnregisters(u) ==
  /\ pc[u] = "unregister"
  /\ reg' = RemovePrefix
  /\ inConfig' \in {inConfig, FALSE}
  /\ Goto(u, "idle")
  /\ UNCHANGED <<gating, tier, cached, boot, host, spawn, links, mine, env>>

-----------------------------------------------------------------------------
Add(p) == AddRefused(p) \/ AddStarts(p) \/ AddAppends(p)
Handshake(p) == HandshakeFails(p) \/ HandshakeOk(p)
Spawning(p) == SpawnFailed(p) \/ Publish(p) \/ Swap(p)
Ask(e) == Forward(e) \/ Refuse(e) \/ SpawnAsync(e) \/ SpawnHere(e)
Commanding(u) ==
  ConnectDrops(u) \/ ConnectAdds(u) \/ RemoveCloses(u) \/ RemoveUnregisters(u)

Next ==
  \/ EagerUp \/ EagerFails \/ Kick \/ RegisterDeferred
  \/ \E p \in Procs : Add(p) \/ Handshake(p) \/ Spawning(p)
  \/ \E i \in Conns : FetchDone(i)
  \/ \E e \in Execs : Lookup(e) \/ Ask(e) \/ RealReturns(e)
  \/ \E u \in Users : Connect(u) \/ RemoveServer(u) \/ Commanding(u)

Spec == Init /\ [][Next]_vars

(* Goroutines that can move do.  Nothing is asked of the server.           *)
Fairness ==
  /\ \A p \in Procs : WF_vars(Add(p)) /\ WF_vars(Spawning(p))
  /\ \A e \in Execs : WF_vars(Ask(e))
  /\ \A u \in Users : WF_vars(Commanding(u))

FairSpec == Spec /\ Fairness

-----------------------------------------------------------------------------
(* Every variable has its type; whoever holds the spawn's lock is swapping *)
(* or runs the real tool; and of all the calls that race on the first use  *)
(* one at most begins a handshake (lazy.go, spawnState).                   *)
TypeOK ==
  /\ gating \in Gatings /\ tier \in {"eager", "lazy", "background"} /\ cached \in BOOLEAN
  /\ boot \in {"eager", "kick", "register", "done"} /\ inConfig \in BOOLEAN
  /\ clients \in Seq(Conns) /\ failed \in BOOLEAN /\ prompts \subseteq Conns
  /\ state \in {"idle", "inFlight", "ready", "failed"}
  /\ real \in Conns \cup {NoConn} /\ swapped \in BOOLEAN
  /\ spawnMu \in Execs \cup {Run, Free}
  /\ spawnMu # Free => pc[spawnMu] \in {"swap", "real"}
  /\ handshakes \in 0..1
  /\ reg \in [Tools -> Conns \cup {Placeholder, Absent}]
  /\ conn \in [Conns -> {"unborn", "handshake", "up", "closed"}] /\ fetching \subseteq Conns
  /\ pc \in [Procs -> {"idle", "has", "handshake", "append", "publish", "failed", "swap",
                       "ask", "askStub", "real", "drop", "add", "close", "unregister", "done"}]
  /\ mine \in [Procs -> Conns \cup {NoConn}]
  /\ commands \in 0..MaxCommands
  /\ history \in {"never removed", "removed", "reconnected"}

Listed == {clients[k] : k \in DOMAIN clients}
HeldBy(p, labels, i) == mine[p] = i /\ pc[p] \in labels

(* The status view is right and no subprocess is lost: whatever is listed  *)
(* is up and no failure stands beside it, whatever is up is listed or in   *)
(* the hands of the goroutine that is about to list or to kill it, and     *)
(* each handshake has its goroutine (Host.Add, Host.Remove, RecordFailure).*)
HostIsHonest ==
  /\ \A i \in Listed : conn[i] = "up"
  /\ failed => clients = <<>>
  /\ \A i \in Conns :
       /\ conn[i] = "up" =>
            i \in Listed \/ \E p \in Procs : HeldBy(p, {"append", "close"}, i)
       /\ conn[i] = "handshake" => \E p \in Procs : HeldBy(p, {"handshake"}, i)

Quiet == boot = "done" /\ \A p \in Procs : pc[p] \in {"idle", "done"}
UpAt(i) == i \in Conns /\ conn[i] = "up"
Usable ==
  \/ reg["call"] \in Conns /\ UpAt(reg["call"])
  \/ reg["call"] = Placeholder /\ state = "ready" /\ UpAt(real)

(* When boot, the spawn and /mcp connect have raced and come to rest, the  *)
(* registry leads to a live connection if there is one: no stub, drop or   *)
(* swap has taken the tools away (trySwap, connectMCPSpec).                *)
ConnectedIsUsable ==
  Quiet /\ history = "never removed" /\ clients # <<>> => Usable

(* Types, status view and registry are right together.                     *)
ServersAreUsable == TypeOK /\ HostIsHonest /\ ConnectedIsUsable

Answers == \A p \in Procs : []<>(pc[p] \notin {"handshake", "real"})

(* While the server ends its handshakes and calls, every call returns,     *)
(* although they queue on the spawn's lock behind the real call of the one *)
(* that shook hands (lazyTool.Execute).                                    *)
CallsReturn ==
  Answers => \A e \in Execs : pc[e] # "idle" ~> pc[e] = "done"

(* Claimed: the tools of a removed server vanish from the next turn.       *)
RemovedIsGone ==
  Quiet /\ history = "removed" => \A t \in Tools : reg[t] = Absent

(* Claimed: a name that is taken is refused.                               *)
OneOfAName == Len(clients) <= 1

(* Claimed: a removed server's prompts are dropped.                        *)
PromptsAreListed == prompts \subseteq Listed
=============================================================================
