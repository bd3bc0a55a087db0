---------------------------- MODULE HttpTransport ----------------------------
(***************************************************************************)
(* MCP over HTTP (plugin/transport_http.go): a POST per call, answered by  *)
(* one JSON body or by a stream of events, all under one mutex; the session*)
(* id comes from the headers of any response and goes out with every       *)
(* request after it.  The server is external.                              *)
(***************************************************************************)
EXTENDS Naturals

CONSTANTS
  Calls,       \* calls of the host; one of them may be a notification
  Notify,      \* the calls that are notifications
  MaxEvents,   \* bound: events of all streams that answer nobody here
  MaxSessions  \* bound: session ids the server hands out

VARIABLES
  pc,          \* "idle", "queued" (at mu), "posted", "reading", "answered", "failed"
  nextID, id,
  session,     \* t.session, 0 when empty
  with,        \* per call, the session its request named
  heard,       \* requests the server has read
  cancelled, events,
  got,         \* history: the id of the event that answered a call
  named, expected   \* history: the last session a response named, and at each post

vars == <<pc, nextID, id, session, with, heard, cancelled, events, got, named, expected>>

Live(c) == pc[c] \in {"posted", "reading"}
Free == \A c \in Calls : ~Live(c)
Goto(c, l) == pc' = [pc EXCEPT ![c] = l]

Init ==
  /\ pc = [c \in Calls |-> "idle"] /\ id = [c \in Calls |-> 0] /\ nextID = 0
  /\ session = 0 /\ with = [c \in Calls |-> 0] /\ heard = {}
  /\ cancelled = {} /\ events = 0 /\ got = [c \in Calls |-> 0] /\ named = 0 /\ expected = [c \in Calls |-> 0]

Open(c) ==
  /\ pc[c] = "idle" /\ Goto(c, "queued")
  /\ UNCHANGED <<nextID, id, session, with, heard, cancelled, events, got, named, expected>>

\* The mutex is taken whatever became of the caller's context; a request
\* that is cancelled by then is not sent.
Post(c) ==
  /\ pc[c] = "queued" /\ Free
  /\ nextID' = IF c \in Notify THEN nextID ELSE nextID + 1
  /\ id' = [id EXCEPT ![c] = IF c \in Notify THEN 0 ELSE nextID']
  /\ with' = [with EXCEPT ![c] = session] /\ expected' = [expected EXCEPT ![c] = named]
  /\ Goto(c, IF c \in cancelled THEN "failed" ELSE "posted")
  /\ UNCHANGED <<session, heard, cancelled, events, got, named>>

\* The connection is refused, or the context ends it.
Fail(c) ==
  /\ Live(c) /\ Goto(c, "failed")
  /\ UNCHANGED <<nextID, id, session, with, heard, cancelled, events, got, named, expected>>

Hear(c) ==
  /\ pc[c] = "posted" /\ c \notin heard
  /\ heard' = heard \cup {c}
  /\ UNCHANGED <<pc, nextID, id, session, with, cancelled, events, got, named, expected>>

\* What a JSON-RPC message says, a result or an error.
Decoded(ok) == IF ok THEN "answered" ELSE "failed"

CaptureSession(sid) == IF sid # 0 THEN sid ELSE session

\* The headers, and for a JSON body or a status the end: what it says is
\* taken for the answer, its id is not compared.
Respond(c, sid, ok) ==
  /\ pc[c] = "posted" /\ c \in heard
  /\ session' = CaptureSession(sid) /\ named' = IF sid # 0 THEN sid ELSE named
  /\ \/ Goto(c, Decoded(ok))
     \/ ok /\ c \notin Notify /\ Goto(c, "reading")
  /\ UNCHANGED <<nextID, id, with, heard, cancelled, events, got, expected>>

Matches(c, i) == i = id[c]

\* One event of the stream: an answer, or the message of somebody else (0:
\* it has no id) to be skipped.
Event(c, i, ok) ==
  /\ pc[c] = "reading"
  /\ \E d \in Calls : i \in {0, id[d]} /\ (i # 0 => d \in heard)
  /\ IF Matches(c, i)
     THEN Goto(c, Decoded(ok)) /\ got' = [got EXCEPT ![c] = i]
          /\ UNCHANGED events
     ELSE events < MaxEvents /\ events' = events + 1 /\ UNCHANGED <<pc, got>>
  /\ UNCHANGED <<nextID, id, session, with, heard, cancelled, named, expected>>

\* The stream ends without the answer.
End(c) ==
  /\ pc[c] = "reading" /\ Goto(c, "failed")
  /\ UNCHANGED <<nextID, id, session, with, heard, cancelled, events, got, named, expected>>

Cancel(c) ==
  /\ pc[c] \in {"queued", "posted", "reading"} /\ c \notin cancelled
  /\ cancelled' = cancelled \cup {c}
  /\ UNCHANGED <<pc, nextID, id, session, with, heard, events, got, named, expected>>

Server(c) ==
  \/ Hear(c) \/ End(c)
  \/ \E ok \in BOOLEAN : (\E sid \in 0..MaxSessions : Respond(c, sid, ok))
                         \/ \E i \in 0..nextID : Event(c, i, ok)

Next == \E c \in Calls : Open(c) \/ Post(c) \/ Fail(c) \/ Server(c) \/ Cancel(c)

\* A mutex that is free is taken; nothing is asked of the server.
Fairness == WF_vars(\E c \in Calls : Post(c))
Spec == Init /\ [][Next]_vars /\ Fairness

-----------------------------------------------------------------------------
(* One request is under way at a time, with an id of its own, and names    *)
(* the session of the latest response that named one, an error too.        *)
OneInSession ==
  /\ \A c, d \in Calls : Live(c) /\ Live(d) => c = d
  /\ \A c, d \in Calls \ Notify : id[c] = id[d] /\ id[c] # 0 => c = d
  /\ \A c \in Calls : Live(c) => with[c] = expected[c]

(* A call that reads a stream is answered by the event with its own id.    *)
OwnAnswer == \A c \in Calls : got[c] # 0 => got[c] = id[c]

Phase(l) == IF l \in {"queued", "posted", "reading"} THEN "open" ELSE l

(* The transport keeps the promise of RpcCalls.                            *)
Promise == INSTANCE RpcCalls WITH phase <- [c \in Calls |-> Phase(pc[c])]
ImplementsRpc == Promise!Spec

(* The queue at the mutex stands still only behind a request under way.    *)
QueueMoves == []<>(Free => \A c \in Calls : pc[c] # "queued")

(* Claimed: a cancelled call returns.  One that waits for the mutex does   *)
(* not look at its context.                                                *)
CancelledReturns == \A c \in Calls : c \in cancelled ~> pc[c] \in {"answered", "failed"}
=============================================================================
