------------------------------ MODULE LspConn ------------------------------
(***************************************************************************)
(* The connection to a language server (lsp/jsonrpc.go) under the bounded  *)
(* retry of client.go: calls share the pipe, a read pump demultiplexes the *)
(* answers and itself writes the replies to the server's own requests.     *)
(* writeMu is not a variable: who holds it waits only for room in the      *)
(* pipe, so taking it and writing a frame are one step.                    *)
(***************************************************************************)
EXTENDS Integers, Sequences, FiniteSets

CONSTANTS
  Calls,       \* calls, each with its retries
  MaxRetries,  \* attempts of callRetry (5 in the code)
  PipeCap,     \* frames that fit into the server's stdin
  MaxLines,    \* bound on the frames in its stdout
  MaxAsks,     \* bound on the server's own requests, garbled and repeated frames
  Repeats,     \* the server may answer a request twice
  Reads        \* the server goes on reading its stdin

VARIABLES
  nextID, pending, chan, closed,     \* fields of conn
  pc, id, tries, cancelled, outcome, \* the calls
  reader, frame,                     \* readLoop and the frame in its hands
  server, stdin, stdout, owed, asks, \* the server and its pipes
  heard                              \* calls whose request it has read

conn == <<nextID, pending, chan, closed>>
calls == <<pc, id, tries, cancelled, outcome>>
pump == <<reader, frame>>
child == <<server, stdin, stdout, owed, asks, heard>>
vars == <<conn, calls, pump, child>>

Ids == 1..(Cardinality(Calls) * (MaxRetries + 1))
Empty == [id |-> 0, busy |-> FALSE]
Nobody == 0                       \* id of frames that answer no call
Frame(k, i, b) == [kind |-> k, id |-> i, busy |-> b]
NoFrame == Frame("none", Nobody, FALSE)
Open == {"write", "wait", "cleanup", "sleep"}

Init ==
  /\ nextID = 0 /\ pending = {} /\ closed = FALSE
  /\ chan = [i \in Ids |-> Empty]
  /\ pc = [c \in Calls |-> "idle"] /\ id = [c \in Calls |-> 0]
  /\ tries = [c \in Calls |-> 0] /\ cancelled = {}
  /\ outcome = [c \in Calls |-> "none"]
  /\ reader = "reading" /\ frame = NoFrame
  /\ server = "up" /\ stdin = <<>> /\ stdout = <<>> /\ owed = {} /\ asks = 0
  /\ heard = {}

-----------------------------------------------------------------------------
(* call and callRetry                                                      *)

FreshId == nextID + 1

Register(c) ==
  /\ pc[c] = "idle" \/ (pc[c] = "sleep" /\ c \notin cancelled)
  /\ nextID' = FreshId /\ id' = [id EXCEPT ![c] = FreshId]
  /\ pending' = pending \cup {FreshId}
  /\ chan' = [chan EXCEPT ![FreshId] = Empty]
  /\ pc' = [pc EXCEPT ![c] = "write"]
  /\ UNCHANGED <<closed, tries, cancelled, outcome, pump, child>>

Ends(c, how) ==
  /\ outcome' = [outcome EXCEPT ![c] = how]
  /\ pc' = [pc EXCEPT ![c] = "cleanup"]

Write(c) ==
  /\ pc[c] = "write"
  /\ \/ /\ server = "up" /\ Len(stdin) < PipeCap
        /\ stdin' = Append(stdin, Frame("call", id[c], FALSE))
        /\ pc' = [pc EXCEPT ![c] = "wait"]
        /\ UNCHANGED outcome
     \/ server = "gone" /\ Ends(c, "write error") /\ UNCHANGED stdin
  /\ UNCHANGED <<conn, id, tries, cancelled, pump, server, stdout, owed, asks, heard>>

\* The select: whichever is ready.
Select(c) ==
  /\ pc[c] = "wait"
  /\ \/ c \in cancelled /\ Ends(c, "cancelled") /\ UNCHANGED chan
     \/ closed /\ Ends(c, "closed") /\ UNCHANGED chan
     \/ /\ chan[id[c]] # Empty
        /\ Ends(c, IF chan[id[c]].busy THEN "busy"
                   ELSE IF chan[id[c]].id = id[c] THEN "answer" ELSE "crossed")
        /\ chan' = [chan EXCEPT ![id[c]] = Empty]
  /\ UNCHANGED <<nextID, pending, closed, id, tries, cancelled, pump, child>>

DropEntry(c) == pending \ {id[c]}

\* The deferred delete; ContentModified is tried again, a bounded number of times.
Cleanup(c) ==
  /\ pc[c] = "cleanup"
  /\ pending' = DropEntry(c)
  /\ LET again == outcome[c] = "busy" /\ tries[c] < MaxRetries
     IN /\ pc' = [pc EXCEPT ![c] = IF again THEN "sleep" ELSE "done"]
        /\ tries' = [tries EXCEPT ![c] = IF again THEN @ + 1 ELSE @]
  /\ UNCHANGED <<nextID, chan, closed, id, cancelled, outcome, pump, child>>

WakeCancelled(c) ==
  /\ pc[c] = "sleep" /\ c \in cancelled
  /\ outcome' = [outcome EXCEPT ![c] = "cancelled"]
  /\ pc' = [pc EXCEPT ![c] = "done"]
  /\ UNCHANGED <<conn, id, tries, cancelled, pump, child>>

Cancel(c) ==
  /\ pc[c] \in {"write", "wait", "sleep"} /\ c \notin cancelled
  /\ cancelled' = cancelled \cup {c}
  /\ UNCHANGED <<conn, pc, id, tries, outcome, pump, child>>

-----------------------------------------------------------------------------
(* readLoop.  The entry stays in pending: the caller deletes it.           *)

ReadFrame ==
  /\ reader = "reading" /\ stdout # <<>>
  /\ stdout' = Tail(stdout)
  /\ LET f == stdout[1]
     IN \/ f.kind = "answer" /\ f.id \in pending /\ reader' = "deliver" /\ frame' = f
        \/ f.kind = "answer" /\ f.id \notin pending /\ UNCHANGED pump
        \/ f.kind = "ask" /\ reader' = "reply" /\ frame' = f
  /\ UNCHANGED <<conn, calls, server, stdin, owed, asks, heard>>

Deliver ==
  /\ reader = "deliver" /\ chan[frame.id] = Empty
  /\ chan' = [chan EXCEPT ![frame.id] = [id |-> frame.id, busy |-> frame.busy]]
  /\ reader' = "reading" /\ frame' = NoFrame
  /\ UNCHANGED <<nextID, pending, closed, calls, child>>

\* handleRequest replies on this goroutine: nothing is read meanwhile.
Reply ==
  /\ reader = "reply" /\ (server = "gone" \/ Len(stdin) < PipeCap)
  /\ stdin' = IF server = "up" THEN Append(stdin, Frame("reply", Nobody, FALSE)) ELSE stdin
  /\ reader' = "reading" /\ frame' = NoFrame
  /\ UNCHANGED <<conn, calls, server, stdout, owed, asks, heard>>

QuietFail == closed                   \* mutant: the pump ends and tells nobody
TellAll == TRUE

\* End of file, or a header without a usable Content-Length.
ReadFails ==
  /\ reader = "reading"
  /\ \/ stdout = <<>> /\ server = "gone"
     \/ stdout # <<>> /\ stdout[1].kind = "garbled"
  /\ closed' = TellAll
  /\ reader' = "exited"
  /\ UNCHANGED <<nextID, pending, chan, calls, frame, child>>

-----------------------------------------------------------------------------
(* The server answers in any order, late or never                          *)

Hear ==
  /\ server = "up" /\ stdin # <<>>
  /\ stdin' = Tail(stdin)
  /\ owed' = owed \cup {f.id : f \in {g \in {stdin[1]} : g.kind = "call"}}
  /\ heard' = heard \cup {c \in Calls : id[c] = stdin[1].id /\ id[c] # Nobody}
  /\ UNCHANGED <<conn, calls, pump, server, stdout, asks>>

Say ==
  /\ server = "up" /\ Len(stdout) < MaxLines
  /\ \E i \in owed, busy \in BOOLEAN :
       /\ stdout' = Append(stdout, Frame("answer", i, busy))
       /\ \/ owed' = owed \ {i} /\ UNCHANGED asks
          \/ Repeats /\ asks < MaxAsks /\ asks' = asks + 1 /\ UNCHANGED owed
  /\ UNCHANGED <<conn, calls, pump, server, stdin, heard>>

Ask ==
  /\ server = "up" /\ Len(stdout) < MaxLines /\ asks < MaxAsks
  /\ asks' = asks + 1
  /\ \E k \in {"ask", "garbled"} : stdout' = Append(stdout, Frame(k, Nobody, FALSE))
  /\ UNCHANGED <<conn, calls, pump, server, stdin, owed, heard>>

\* It crashes, or close() and the session's context kill it.
Exit ==
  /\ server = "up"
  /\ server' = "gone"
  /\ UNCHANGED <<conn, calls, pump, stdin, stdout, owed, asks, heard>>

Step(c) == Write(c) \/ Select(c) \/ Cleanup(c) \/ WakeCancelled(c)
Retry(c) == pc[c] = "sleep" /\ Register(c)
Pump == ReadFrame \/ Deliver \/ Reply \/ ReadFails

Next ==
  \/ \E c \in Calls : Register(c) \/ Step(c) \/ Cancel(c)
  \/ Pump
  \/ Hear \/ Say \/ Ask \/ Exit

Spec == Init /\ [][Next]_vars

(* Goroutines that can move do; the server goes on reading if Reads.       *)
Fairness ==
  /\ \A c \in Calls : WF_vars(Step(c) \/ Retry(c))
  /\ WF_vars(Pump) /\ WF_vars(Reads /\ Hear)

FairSpec == Spec /\ Fairness

-----------------------------------------------------------------------------
(* Nobody gets the answer to another call or to an attempt it has given    *)
(* up: an answer is for the id that is waited for.  (conn.call, callRetry) *)
OwnAnswer == \A c \in Calls : outcome[c] # "crossed"

(* The map holds exactly the attempts under way, so neither cancelled nor  *)
(* retried calls leave anything behind; whoever waits is still listed.     *)
PendingIsTidy ==
  /\ pending = {id[c] : c \in {d \in Calls : pc[d] \in {"write", "wait", "cleanup"}}}
  /\ \A c, d \in Calls : id[c] = id[d] /\ id[c] # 0 => c = d

Answered(c) ==
  \/ \E i \in DOMAIN stdout : stdout[i].kind = "answer" /\ stdout[i].id = id[c]
  \/ frame.kind = "answer" /\ frame.id = id[c]
  \/ chan[id[c]] # Empty

\* A repeated answer meets a full channel of a call that reads no more.
Jammed ==
  /\ reader = "deliver" /\ chan[frame.id] # Empty
  /\ \A c \in Calls : ~(pc[c] = "wait" /\ id[c] = frame.id)

(* No call hangs: one whose answer is in the pipe gets it, even while the  *)
(* pump answers the server's own requests, one that is cancelled gives up, *)
(* and a lost server or connection releases every caller; but once an      *)
(* answer the server repeated has jammed the pump, a call returns only by  *)
(* its cancel.                                                             *)
Returns(c) ==
  /\ ~(pc[c] = "wait" /\ (Answered(c) \/ closed \/ c \in cancelled))
  /\ ~(pc[c] \in Open /\ server = "gone")
CallsReturn ==
  []<>(\A c \in Calls : Returns(c) \/ (Jammed /\ pc[c] = "wait" /\ c \notin cancelled))

(* Claimed: "id-bearing responses wake the matching call", whatever the    *)
(* server repeats.                                                         *)
RepeatsDoNoHarm == []<>(\A c \in Calls : Returns(c))

(* The connection keeps the promise of RpcCalls.                           *)
Phase(c) ==
  IF pc[c] # "done" THEN (IF pc[c] = "idle" THEN "idle" ELSE "open")
  ELSE IF outcome[c] \in {"answer", "busy"} THEN "answered" ELSE "failed"
Promise == INSTANCE RpcCalls WITH phase <- [c \in Calls |-> Phase(c)], heard <- heard
ImplementsRpc == Promise!Spec
=============================================================================
