--------------------------- MODULE StdioTransport ---------------------------
(***************************************************************************)
(* The stdio transport of an MCP server (plugin/transport_stdio.go): calls *)
(* take turns on callMu, register a channel under a fresh id, write their  *)
(* request to the child's stdin and wait for the reader goroutine, which   *)
(* owns stdout, to route the answer to their id.  A step is a critical     *)
(* section of t.mu, an operation on a channel or a pipe, or a lock.        *)
(***************************************************************************)
EXTENDS Integers, Sequences, FiniteSets

CONSTANTS
  Calls,      \* calls of the transport, each made once
  PipeCap,    \* requests that fit into the stdin pipe
  MaxLines    \* bound on the lines in the stdout pipe

ASSUME BoundsAssumption ==
  /\ IsFiniteSet(Calls)
  /\ {"free", "empty", "closed", "none", "read error", "write error",
      "cancelled"} \cap Calls = {}
  /\ PipeCap \in Nat \ {0} /\ MaxLines \in Nat

VARIABLES
  callMu, nextID, pending, readErr,  \* fields of stdioTransport
  chan,       \* per id, what its channel holds
  pc,         \* where each call stands
  id,         \* the id a call registered
  cancelled,  \* calls whose context is cancelled
  outcome,    \* what a call returns
  reader,     \* what the reader goroutine does
  line,       \* the answer it routes
  waited,     \* waitOnce is through: the child is reaped
  closing,    \* close() has closed stdin and killed the child
  server,     \* the child process
  stdin, stdout, heard  \* the pipes, and the requests the server has read

transport == <<callMu, nextID, pending, readErr>>
calls == <<pc, id, cancelled, outcome>>
readLoop == <<reader, line>>
child == <<server, stdin, stdout, heard>>
vars == <<transport, chan, calls, readLoop, waited, closing, child>>

Free == "free"            \* callMu is not held
Empty == "empty"          \* nothing in the channel
Closed == "closed"        \* the channel is closed
Reading == "reading"      \* the reader waits for a line
Exited == "exited"        \* the reader, or the child, is gone
Noise == [id |-> 0, from |-> "nobody"]  \* a notification, a blank line, no JSON, an unknown id

Ids == 1..Cardinality(Calls)
Answers == [id : Ids, from : Calls]

Init ==
  /\ callMu = Free /\ nextID = 0 /\ pending = {} /\ readErr = FALSE
  /\ chan = [i \in Ids |-> Empty]
  /\ pc = [c \in Calls |-> "idle"] /\ id = [c \in Calls |-> 0]
  /\ cancelled = {} /\ outcome = [c \in Calls |-> "none"]
  /\ reader = Reading /\ line = Noise /\ waited = FALSE /\ closing = FALSE
  /\ server = "up" /\ stdin = <<>> /\ stdout = <<>> /\ heard = {}

-----------------------------------------------------------------------------
(* A call                                                                  *)

Start(c) ==
  /\ pc[c] = "idle"
  /\ pc' = [pc EXCEPT ![c] = "lock"]
  /\ UNCHANGED <<transport, chan, id, cancelled, outcome, readLoop, waited, closing, child>>

Lock(c) ==
  /\ pc[c] = "lock" /\ callMu = Free
  /\ callMu' = c
  /\ pc' = [pc EXCEPT ![c] = "register"]
  /\ UNCHANGED <<nextID, pending, readErr, chan, id, cancelled, outcome, readLoop,
                 waited, closing, child>>

StillReading == ~readErr

FreshId == nextID + 1

FailFast(c) ==
  /\ pc[c] = "register" /\ ~StillReading
  /\ outcome' = [outcome EXCEPT ![c] = "read error"]
  /\ pc' = [pc EXCEPT ![c] = "reap"]
  /\ UNCHANGED <<transport, chan, id, cancelled, readLoop, waited, closing, child>>

Register(c) ==
  /\ pc[c] = "register" /\ StillReading
  /\ nextID' = FreshId /\ id' = [id EXCEPT ![c] = FreshId]
  /\ pending' = pending \cup {FreshId}
  /\ chan' = [chan EXCEPT ![FreshId] = Empty]
  /\ pc' = [pc EXCEPT ![c] = "write"]
  /\ UNCHANGED <<callMu, readErr, cancelled, outcome, readLoop, waited, closing, child>>

\* The write blocks while the pipe is full: it knows no context.
Write(c) ==
  /\ pc[c] = "write"
  /\ server # Exited /\ ~closing /\ Len(stdin) < PipeCap
  /\ stdin' = Append(stdin, [id |-> id[c], from |-> c])
  /\ pc' = [pc EXCEPT ![c] = "wait"]
  /\ UNCHANGED <<transport, chan, id, cancelled, outcome, readLoop, waited, closing,
                 server, stdout, heard>>

WriteFails(c) ==
  /\ pc[c] = "write" /\ (server = Exited \/ closing)
  /\ outcome' = [outcome EXCEPT ![c] = "write error"]
  /\ pc' = [pc EXCEPT ![c] = "reap"]
  /\ UNCHANGED <<transport, chan, id, cancelled, readLoop, waited, closing, child>>

Receive(c) ==
  /\ pc[c] = "wait" /\ chan[id[c]] \in Calls
  /\ outcome' = [outcome EXCEPT ![c] = chan[id[c]]]
  /\ chan' = [chan EXCEPT ![id[c]] = Empty]
  /\ pc' = [pc EXCEPT ![c] = "cleanup"]
  /\ UNCHANGED <<transport, id, cancelled, readLoop, waited, closing, child>>

ReceiveClosed(c) ==
  /\ pc[c] = "wait" /\ chan[id[c]] = Closed
  /\ outcome' = [outcome EXCEPT ![c] = "read error"]
  /\ pc' = [pc EXCEPT ![c] = "reap"]
  /\ UNCHANGED <<transport, chan, id, cancelled, readLoop, waited, closing, child>>

SeeCancel(c) ==
  /\ pc[c] = "wait" /\ c \in cancelled
  /\ outcome' = [outcome EXCEPT ![c] = "cancelled"]
  /\ pc' = [pc EXCEPT ![c] = "cleanup"]
  /\ UNCHANGED <<transport, chan, id, cancelled, readLoop, waited, closing, child>>

\* withStderr waits for the child, whatever the context says.
Reap(c) ==
  /\ pc[c] = "reap" /\ (waited \/ server = Exited)
  /\ waited' = TRUE
  /\ pc' = [pc EXCEPT ![c] = "cleanup"]
  /\ UNCHANGED <<transport, chan, id, cancelled, outcome, readLoop, closing, child>>

DropEntry(c) == pending \ {id[c]}

\* The deferred calls: the entry goes, then callMu.
Cleanup(c) ==
  /\ pc[c] = "cleanup"
  /\ pending' = DropEntry(c)
  /\ callMu' = Free
  /\ pc' = [pc EXCEPT ![c] = "done"]
  /\ UNCHANGED <<nextID, readErr, chan, id, cancelled, outcome, readLoop, waited,
                 closing, child>>

\* Nothing reads the context of a call that is past its select.
Cancel(c) ==
  /\ c \notin cancelled /\ pc[c] \in {"lock", "register", "write", "wait"}
  /\ cancelled' = cancelled \cup {c}
  /\ UNCHANGED <<transport, chan, pc, id, outcome, readLoop, waited, closing, child>>

-----------------------------------------------------------------------------
(* readLoop                                                                *)

\* A line for a registered id takes its channel out of the map.
ReadAnswer ==
  /\ reader = Reading /\ stdout # <<>> /\ stdout[1].id \in pending
  /\ pending' = pending \ {stdout[1].id}
  /\ reader' = "routing" /\ line' = stdout[1]
  /\ stdout' = Tail(stdout)
  /\ UNCHANGED <<callMu, nextID, readErr, chan, calls, waited, closing, server, stdin, heard>>

\* Notifications, garbage and answers nobody waits for are skipped.
ReadOther ==
  /\ reader = Reading /\ stdout # <<>> /\ stdout[1].id \notin pending
  /\ stdout' = Tail(stdout)
  /\ UNCHANGED <<transport, chan, calls, readLoop, waited, closing, server, stdin, heard>>

\* The channel holds one answer: a second send would block the reader.
Route ==
  /\ reader = "routing" /\ chan[line.id] = Empty
  /\ chan' = [chan EXCEPT ![line.id] = line.from]
  /\ reader' = Reading /\ line' = Noise
  /\ UNCHANGED <<transport, calls, waited, closing, child>>

Everybody == pending

\* End of file, or a pipe that Wait has closed: failAll.
ReadFails ==
  /\ reader = Reading
  /\ (stdout = <<>> /\ server # "up") \/ waited
  /\ readErr' = TRUE
  /\ chan' = [i \in Ids |-> IF i \in Everybody THEN Closed ELSE chan[i]]
  /\ pending' = pending \ Everybody
  /\ reader' = Exited
  /\ UNCHANGED <<callMu, nextID, calls, line, waited, closing, child>>

-----------------------------------------------------------------------------
(* close, and the child, which answers late, twice, out of order or never  *)

Close ==
  /\ ~closing
  /\ closing' = TRUE
  /\ UNCHANGED <<transport, chan, calls, readLoop, waited, child>>

ReapClosed ==
  /\ closing /\ server = Exited /\ ~waited
  /\ waited' = TRUE
  /\ UNCHANGED <<transport, chan, calls, readLoop, closing, child>>

Hear ==
  /\ server # Exited /\ stdin # <<>>
  /\ heard' = heard \cup {stdin[1]}
  /\ stdin' = Tail(stdin)
  /\ UNCHANGED <<transport, chan, calls, readLoop, waited, closing, server, stdout>>

Say ==
  /\ server = "up" /\ Len(stdout) < MaxLines
  /\ \E said \in heard \cup {Noise} : stdout' = Append(stdout, said)
  /\ UNCHANGED <<transport, chan, calls, readLoop, waited, closing, server, stdin, heard>>

\* It closes its stdout and goes on running.
FallSilent ==
  /\ server = "up"
  /\ server' = "silent"
  /\ UNCHANGED <<transport, chan, calls, readLoop, waited, closing, stdin, stdout, heard>>

Exit ==
  /\ server # Exited
  /\ server' = Exited
  /\ UNCHANGED <<transport, chan, calls, readLoop, waited, closing, stdin, stdout, heard>>

Step(c) ==
  \/ Lock(c) \/ FailFast(c) \/ Register(c) \/ Write(c) \/ WriteFails(c)
  \/ Receive(c) \/ ReceiveClosed(c) \/ SeeCancel(c) \/ Reap(c) \/ Cleanup(c)

ReadLoop == ReadAnswer \/ ReadOther \/ Route \/ ReadFails

Next ==
  \/ \E c \in Calls : Start(c) \/ Step(c) \/ Cancel(c)
  \/ ReadLoop
  \/ Close \/ ReapClosed
  \/ Hear \/ Say \/ FallSilent \/ Exit

Spec == Init /\ [][Next]_vars

(* Goroutines that can move do; the kill of close() takes effect.  Nothing *)
(* is asked of the server.                                                 *)
Fairness ==
  /\ \A c \in Calls : WF_vars(Step(c))
  /\ WF_vars(ReadLoop)
  /\ WF_vars(closing /\ Exit)

FairSpec == Spec /\ Fairness

-----------------------------------------------------------------------------
(* Every variable has its type; an id is registered by one call at most.   *)
TypeOK ==
  /\ callMu \in Calls \cup {Free} /\ nextID \in 0..Cardinality(Calls)
  /\ pending \subseteq 1..nextID /\ readErr \in BOOLEAN
  /\ chan \in [Ids -> Calls \cup {Empty, Closed}]
  /\ pc \in [Calls -> {"idle", "lock", "register", "write", "wait", "reap",
                       "cleanup", "done"}]
  /\ id \in [Calls -> 0..nextID]
  /\ \A c, d \in Calls : id[c] = id[d] /\ id[c] # 0 => c = d
  /\ cancelled \subseteq Calls
  /\ outcome \in [Calls -> Calls \cup {"none", "read error", "write error", "cancelled"}]
  /\ reader \in {Reading, "routing", Exited} /\ line \in Answers \cup {Noise}
  /\ waited \in BOOLEAN /\ closing \in BOOLEAN
  /\ server \in {"up", "silent", Exited}
  /\ stdin \in Seq(Answers) /\ Len(stdin) <= PipeCap
  /\ stdout \in Seq(Answers \cup {Noise}) /\ Len(stdout) <= MaxLines
  /\ heard \subseteq Answers

(* No call is given the answer to another, although calls are abandoned    *)
(* and the server answers them late, twice or out of order (readLoop).     *)
OwnAnswer == \A c \in Calls : outcome[c] \in Calls => outcome[c] = c

(* The map holds at most the id of the call that has callMu, so nothing is *)
(* left behind by abandoned calls, and nobody registers after failAll has  *)
(* run: whoever waits is still listed, has been answered or told.          *)
PendingIsTidy ==
  /\ \A i \in pending : ~readErr /\ callMu # Free /\ id[callMu] = i
  /\ \A c \in Calls :
       pc[c] \in {"write", "wait"} =>
         \/ id[c] \in pending
         \/ chan[id[c]] # Empty
         \/ reader = "routing" /\ line.id = id[c]

Waits(c) == pc[c] \notin {"idle", "done"}
Answered(c) ==
  \/ \E i \in DOMAIN stdout : stdout[i].from = c
  \/ line.from = c
  \/ chan[id[c]] # Empty

(* No call hangs: one whose answer is in the pipe returns, whatever the    *)
(* server does next; and once the child is gone every call returns, those  *)
(* queued on callMu and those that come later too (readLoop, failAll).     *)
CallsReturn ==
  []<>(\A c \in Calls :
         /\ ~(pc[c] = "wait" /\ Answered(c))
         /\ ~(Waits(c) /\ server = Exited))

(* The transport keeps the promise of RpcCalls: a call is answered only    *)
(* after the server has read its request (call, readLoop).                 *)
HeardCalls == {m.from : m \in heard}
Phase(c) ==
  IF pc[c] # "done" THEN (IF pc[c] = "idle" THEN "idle" ELSE "open")
  ELSE IF outcome[c] \in Calls THEN "answered" ELSE "failed"
Promise == INSTANCE RpcCalls WITH phase <- [c \in Calls |-> Phase(c)], heard <- HeardCalls
KeepsPromise == Promise!Spec

(* Claimed: a cancelled call does not hang with a hung server.             *)
CancelledReturns == \A c \in Calls : pc[c] = "wait" /\ c \in cancelled ~> pc[c] = "done"

=============================================================================
