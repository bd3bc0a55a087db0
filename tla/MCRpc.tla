------------------------------- MODULE MCRpc -------------------------------
(* The request-response connections side by side: the stdio and the HTTP   *)
(* transport of an MCP server, the connection of a language server, the    *)
(* manager of the language servers, and the ACP agent.  A behaviour moves  *)
(* one of them, focus; the others stay in their initial states.            *)
EXTENDS StdioTransport

CONSTANTS
  Foci,                                     \* the parts that may move
  Notify, MaxEvents, MaxSessions,           \* HttpTransport; its calls are Calls
  LspCalls, MaxRetries, LspPipeCap, LspMaxLines, MaxAsks, Repeats, Reads,  \* LspConn
  Queries, MaxEdits, MaxSpawns, MaxPublish, \* LspServers
  Opens, Prompts, Cancels, Sessions, For, MaxFrames,                       \* AcpServer
  CallOrder, LspOrder, LoadOrder, PromptOrder, \* bounds: the orders in which
                                               \* requests begin that differ in nothing
  MaxBusy   \* bound: the ids the language server answers with ContentModified

ASSUME RpcAssumption ==
  /\ MaxSessions \in Nat
  /\ IsFiniteSet(LspCalls) /\ MaxRetries \in Nat
  /\ MaxSpawns \in Nat
  /\ IsFiniteSet(Opens) /\ IsFiniteSet(Prompts)
  /\ Opens \cap Prompts = {} /\ Opens \cap Cancels = {} /\ Prompts \cap Cancels = {}
  /\ For \in [Opens \cup Prompts \cup Cancels -> Sessions]

VARIABLES
  focus,
  lNextID, lPending, lChan, lClosed, lPc, lId, tries, lCancelled, lOutcome,
  lReader, frame, lServer, lStdin, lStdout, owed, asks, lHeard,
  clients, starting, sClosing, alive, spawned, sPc, use, fi, seen, text, want,
  result, disk, docs, held, published, diags, overlap,
  serving, aPc, ctl, err, answer, sessions, built, shut, replaced, cancelOf,
  ctxDone, grip, aNextID, aPending, aChan, perm, permId, verdict, ran, missed,
  hPc, hNextID, hId, session, with, hHeard, hCancelled, events, got, named, expected

Conn == INSTANCE LspConn
  WITH Calls <- LspCalls, PipeCap <- LspPipeCap, MaxLines <- LspMaxLines,
       nextID <- lNextID, pending <- lPending, chan <- lChan, closed <- lClosed,
       pc <- lPc, id <- lId, cancelled <- lCancelled, outcome <- lOutcome,
       reader <- lReader, server <- lServer, stdin <- lStdin, stdout <- lStdout,
       heard <- lHeard

\* The server names the version of a document in what it publishes.
Servers == INSTANCE LspServers
  WITH Versioned <- TRUE, closing <- sClosing, pc <- sPc

Acp == INSTANCE AcpServer
  WITH pc <- aPc, nextID <- aNextID, pending <- aPending, chan <- aChan

Http == INSTANCE HttpTransport
  WITH pc <- hPc, nextID <- hNextID, id <- hId, heard <- hHeard, cancelled <- hCancelled

connVars == <<lNextID, lPending, lChan, lClosed, lPc, lId, tries, lCancelled, lOutcome,
              lReader, frame, lServer, lStdin, lStdout, owed, asks, lHeard>>
serverVars == <<clients, starting, sClosing, alive, spawned, sPc, use, fi, seen, text,
                want, result, disk, docs, held, published, diags, overlap>>
acpVars == <<serving, aPc, ctl, err, answer, sessions, built, shut, replaced, cancelOf,
             ctxDone, grip, aNextID, aPending, aChan, perm, permId, verdict, ran, missed>>
httpVars == <<hPc, hNextID, hId, session, with, hHeard, hCancelled, events, got, named, expected>>
mcVars == <<focus, vars, connVars, serverVars, acpVars, httpVars>>

MCInit == focus \in Foci /\ Init /\ Conn!Init /\ Servers!Init /\ Acp!Init /\ Http!Init

\* The small instance.
InTurn == <<"c1", "c2", "c3">>
Pair == <<"c1", "c2">>
Loads == <<"load1", "load2">>
Turns == <<"prompt1", "prompt2">>
OneSession == [r \in Opens \cup Prompts \cup Cancels |-> "s"]

\* Requests that differ in nothing are numbered in the order they begin.
Begun(at, order) ==
  \A i \in 2..Len(order) : at[order[i]] # "idle" => at[order[i - 1]] # "idle"

\* The language server puts off the first MaxBusy requests only.
BusyAtFirst == \A i \in DOMAIN lStdout : lStdout[i].busy => lStdout[i].id <= MaxBusy

MCNext ==
  /\ UNCHANGED focus
  /\ \/ /\ focus = "stdio" /\ Next /\ Begun(pc', CallOrder)
        /\ UNCHANGED <<connVars, serverVars, acpVars, httpVars>>
     \/ /\ focus = "lspconn" /\ Conn!Next /\ Begun(lPc', LspOrder) /\ BusyAtFirst'
        /\ UNCHANGED <<vars, serverVars, acpVars, httpVars>>
     \/ /\ focus = "lsp" /\ Servers!Next
        /\ UNCHANGED <<vars, connVars, acpVars, httpVars>>
     \/ /\ focus = "acp" /\ Acp!Next
        /\ Begun(aPc', LoadOrder) /\ Begun(aPc', PromptOrder)
        /\ UNCHANGED <<vars, connVars, serverVars, httpVars>>
     \/ /\ focus = "http" /\ Http!Next
        /\ UNCHANGED <<vars, connVars, serverVars, acpVars>>

\* The Fairness of each module, for the part that moves.
MCFairness ==
  /\ \A c \in Calls : WF_vars(focus = "stdio" /\ Step(c))
  /\ WF_vars(focus = "stdio" /\ ReadLoop) /\ WF_vars(focus = "stdio" /\ closing /\ Exit)
  /\ \A c \in LspCalls : WF_connVars(focus = "lspconn" /\ (Conn!Step(c) \/ Conn!Retry(c)))
  /\ WF_connVars(focus = "lspconn" /\ Conn!Pump) /\ WF_connVars(focus = "lspconn" /\ Conn!Hear)
  /\ \A q \in Queries :
       WF_serverVars(focus = "lsp" /\ (Servers!Step(q) \/ (sPc[q] = "resolve" /\ Servers!Resolve(q))))
  /\ \A r \in Acp!Requests :
       WF_acpVars(/\ focus = "acp"
                  /\ Acp!Handler(r) \/ (r \in Prompts /\ Acp!Done(r) /\ Acp!EndTurn(r)))
  /\ \A p \in Prompts : WF_acpVars(focus = "acp" /\ Acp!Permission(p))
  /\ WF_acpVars(focus = "acp" /\ (Acp!Shutdown \/ Acp!CloseAll))
  /\ WF_httpVars(focus = "http" /\ \E c \in Calls : Http!Post(c))

MCSpec == MCInit /\ [][MCNext]_mcVars /\ MCFairness

(* Each connection keeps what RpcCalls promises: OwnAnswer of the stdio    *)
(* transport, of the event streams of the HTTP transport and of the        *)
(* language server's connection; an ACP tool runs on the client's own      *)
(* answer only, and, as long as no two queries synchronised at once, what  *)
(* a query reads is as new as the file it asks about.                      *)
AnswersAreOwn ==
  /\ OwnAnswer /\ Http!OwnAnswer /\ Conn!OwnAnswer /\ Acp!AllowedByClient
  /\ Servers!SyncedText /\ Servers!CurrentProblems

(* Nothing is left behind by abandoned calls, failed starts, the end of    *)
(* the connection or of the session: no entry, no second server, no turn   *)
(* its cancel cannot find, no older session a request would name.          *)
NothingLeftBehind ==
  /\ TypeOK /\ PendingIsTidy /\ Conn!PendingIsTidy
  /\ Servers!OneServer
  /\ Acp!TornDown /\ Acp!CancelFindsTurn
  /\ Http!OneInSession

(* Every implementation keeps the promise of RpcCalls.                     *)
ImplementsRpc ==
  KeepsPromise /\ Conn!ImplementsRpc /\ Acp!ImplementsRpc /\ Http!ImplementsRpc

(* Calls, queries and the server end.                                      *)
CallsEnd ==
  CallsReturn /\ Conn!CallsReturn /\ Servers!QueriesEnd /\ Acp!ServerEnds /\ Http!QueueMoves
=============================================================================
