----------------------------- MODULE LspServers -----------------------------
(***************************************************************************)
(* The language servers of a session (lsp/manager.go) and the document     *)
(* they are kept in step with (lsp/client.go): one language, one file.     *)
(* Queries of one batch run in parallel.  A step is a critical section of  *)
(* m.mu or c.mu, a look at the disk, or one message of the connection,     *)
(* which LspConn details.  Texts and stat results are numbered by the edit *)
(* that made them.                                                         *)
(***************************************************************************)
EXTENDS Integers, Sequences, FiniteSets

CONSTANTS
  Queries,     \* diagnostics queries, each made once
  MaxEdits,    \* bound: edits of the file
  MaxSpawns,   \* bound: servers started
  MaxPublish,  \* bound: diagnostics on their way
  Versioned    \* the server publishes diagnostics with the document version

VARIABLES
  clients, starting,          \* Manager: the client of the language, and the gate
  closing,                    \* where Manager.Close is
  alive, spawned,             \* running servers; servers started so far
  pc, use, fi, seen, text, want, result,   \* the queries
  disk,                       \* the file: number of its last edit
  docs,                       \* per client, what it last sent: version and stat
  held,                       \* per server, the document it holds
  published, diags,           \* diagnostics on their way, and the cached ones
  overlap                     \* history: two queries have synchronised at once

manager == <<clients, starting, closing, alive, spawned>>
query == <<pc, use, fi, seen, text, want, result>>
document == <<disk, docs, held, overlap>>
problems == <<published, diags>>
vars == <<manager, query, document, problems>>

Servers == 1..MaxSpawns
NoServer == 0
NotOpen == [version |-> 0, edit |-> 0]
Syncing == {"look", "read", "send", "record"}

Init ==
  /\ clients = NoServer /\ starting = FALSE /\ closing = "no"
  /\ alive = {} /\ spawned = 0
  /\ pc = [q \in Queries |-> "idle"] /\ use = [q \in Queries |-> NoServer]
  /\ fi = [q \in Queries |-> 0] /\ seen = [q \in Queries |-> NotOpen]
  /\ text = [q \in Queries |-> 0] /\ want = [q \in Queries |-> 0]
  /\ result = [q \in Queries |-> "none"]
  /\ disk = 1 /\ overlap = FALSE
  /\ docs = [s \in Servers |-> NotOpen] /\ held = [s \in Servers |-> NotOpen]
  /\ published = <<>> /\ diags = [s \in Servers |-> NotOpen]

Goto(q, l) == pc' = [pc EXCEPT ![q] = l]
Fails(q) == Goto(q, "done") /\ result' = [result EXCEPT ![q] = "error"]

-----------------------------------------------------------------------------
(* resolve: the first query of a language starts its server                *)

Gated == starting

Resolve(q) ==
  /\ pc[q] \in {"idle", "resolve"}
  /\ \/ /\ clients # NoServer
        /\ use' = [use EXCEPT ![q] = clients]
        /\ Goto(q, "stat") /\ UNCHANGED starting
     \/ /\ clients = NoServer /\ Gated
        /\ Goto(q, "gate") /\ UNCHANGED <<use, starting>>
     \/ /\ clients = NoServer /\ ~Gated
        /\ starting' = TRUE
        /\ Goto(q, "spawn") /\ UNCHANGED use
  /\ UNCHANGED <<clients, closing, alive, spawned, fi, seen, text, want, result,
                 document, problems>>

\* The binary is missing, initialize fails, or the session is over.
Spawn(q) ==
  /\ pc[q] = "spawn"
  /\ Goto(q, "register")
  /\ \/ /\ closing # "done" /\ spawned < MaxSpawns
        /\ spawned' = spawned + 1
        /\ alive' = alive \cup {spawned + 1}
        /\ use' = [use EXCEPT ![q] = spawned + 1]
     \/ use' = [use EXCEPT ![q] = NoServer] /\ UNCHANGED <<alive, spawned>>
  /\ UNCHANGED <<clients, starting, closing, fi, seen, text, want, result, document, problems>>

\* Everybody behind the gate resolves again; a failed start is not remembered.
Register(q) ==
  /\ pc[q] = "register"
  /\ starting' = FALSE
  /\ clients' = IF use[q] = NoServer THEN clients ELSE use[q]
  /\ pc' = [p \in Queries |->
              IF p = q THEN (IF use[q] = NoServer THEN "done" ELSE "stat")
              ELSE IF pc[p] = "gate" THEN "resolve" ELSE pc[p]]
  /\ result' = [result EXCEPT ![q] = IF use[q] = NoServer THEN "error" ELSE @]
  /\ UNCHANGED <<closing, alive, spawned, use, fi, seen, text, want, document, problems>>

-----------------------------------------------------------------------------
(* ensureSynced                                                            *)

Stat(q) ==
  /\ pc[q] = "stat"
  /\ fi' = [fi EXCEPT ![q] = disk]
  /\ overlap' = (overlap \/ \E p \in Queries \ {q} : pc[p] \in Syncing)
  /\ Goto(q, "look")
  /\ UNCHANGED <<manager, use, seen, text, want, result, disk, docs, held, problems>>

SameDoc(q) == docs[use[q]].version > 0   \* mutant: an open document is not sent again
UpToDate(q) == docs[use[q]].version > 0 /\ docs[use[q]].edit = fi[q]

Look(q) ==
  /\ pc[q] = "look"
  /\ seen' = [seen EXCEPT ![q] = docs[use[q]]]
  /\ Goto(q, IF UpToDate(q) THEN "want" ELSE "read")
  /\ UNCHANGED <<manager, use, fi, text, want, result, document, problems>>

Read(q) ==
  /\ pc[q] = "read"
  /\ text' = [text EXCEPT ![q] = disk]
  /\ Goto(q, "send")
  /\ UNCHANGED <<manager, use, fi, seen, want, result, document, problems>>

\* didOpen is version 1, didChange one more than the version looked at.
Send(q) ==
  /\ pc[q] = "send"
  /\ held' = IF use[q] \in alive
             THEN [held EXCEPT ![use[q]] = [version |-> seen[q].version + 1, edit |-> text[q]]]
             ELSE held
  /\ result' = [result EXCEPT ![q] = IF use[q] \in alive THEN @ ELSE "error"]
  /\ Goto(q, "record")
  /\ UNCHANGED <<manager, use, fi, seen, text, want, disk, docs, overlap, problems>>

\* What was sent is recorded even if the server never got it.
Record(q) ==
  /\ pc[q] = "record"
  /\ docs' = [docs EXCEPT ![use[q]] = [version |-> seen[q].version + 1, edit |-> fi[q]]]
  /\ Goto(q, IF result[q] = "error" THEN "done" ELSE "want")
  /\ UNCHANGED <<manager, use, fi, seen, text, want, result, disk, held, overlap, problems>>

-----------------------------------------------------------------------------
(* docVersion and waitDiagnostics                                          *)

Want(q) ==
  /\ pc[q] = "want"
  /\ want' = [want EXCEPT ![q] = docs[use[q]].version]
  /\ Goto(q, "wait")
  /\ UNCHANGED <<manager, use, fi, seen, text, result, document, problems>>

Recent(q) == diags[use[q]].version >= want[q]

Wait(q) ==
  /\ pc[q] = "wait"
  /\ \/ /\ Recent(q)
        /\ text' = [text EXCEPT ![q] = diags[use[q]].edit]
        /\ result' = [result EXCEPT ![q] = "current"]
     \/ result' = [result EXCEPT ![q] = "timed out"] /\ UNCHANGED text
  /\ Goto(q, "done")
  /\ UNCHANGED <<manager, use, fi, seen, want, document, problems>>

\* A server reports on the text it holds, whenever it likes.
Publish ==
  /\ Len(published) < MaxPublish
  /\ \E s \in alive :
       /\ held[s].version > 0
       /\ published' = Append(published, [server |-> s, doc |-> held[s]])
  /\ UNCHANGED <<manager, query, document, diags>>

\* handleNotify: an unversioned report is taken for the version sent last.
HandleNotify ==
  /\ published # <<>>
  /\ LET p == published[1]
         version == IF Versioned THEN p.doc.version
                    ELSE IF docs[p.server].version > 0 THEN docs[p.server].version
                    ELSE diags[p.server].version
     IN diags' = [diags EXCEPT ![p.server] = [version |-> version, edit |-> p.doc.edit]]
  /\ published' = Tail(published)
  /\ UNCHANGED <<manager, query, document>>

-----------------------------------------------------------------------------
(* The rest of the session                                                 *)

Edit ==
  /\ disk < MaxEdits
  /\ disk' = disk + 1
  /\ UNCHANGED <<manager, query, docs, held, overlap, problems>>

\* The client of a crashed server stays in the map.
Crash ==
  /\ \E s \in alive : alive' = alive \ {s}
  /\ UNCHANGED <<clients, starting, closing, spawned, query, document, problems>>

\* Close empties the map, stops those servers, then cancels the context the
\* others were started under.
CloseTakes ==
  /\ closing = "no"
  /\ closing' = "stopping"
  /\ alive' = alive \ {clients}
  /\ clients' = NoServer
  /\ UNCHANGED <<starting, spawned, query, document, problems>>

KillAll == {}

CloseCancels ==
  /\ closing = "stopping"
  /\ closing' = "done"
  /\ alive' = KillAll
  /\ UNCHANGED <<clients, starting, spawned, query, document, problems>>

Step(q) ==
  \/ Spawn(q) \/ Register(q) \/ Stat(q) \/ Look(q) \/ Read(q)
  \/ Send(q) \/ Record(q) \/ Want(q) \/ Wait(q)

Next ==
  \/ \E q \in Queries : Resolve(q) \/ Step(q)
  \/ Publish \/ HandleNotify \/ Edit \/ Crash \/ CloseTakes \/ CloseCancels

Spec == Init /\ [][Next]_vars

(* Resolve is fair once the query has begun: a goroutine goes on.          *)
Fairness ==
  \A q \in Queries : WF_vars(Step(q) \/ (pc[q] = "resolve" /\ Resolve(q)))

FairSpec == Spec /\ Fairness

-----------------------------------------------------------------------------
(* A parallel first use starts one server, not one per query: the gate is  *)
(* up exactly while one query starts it.  Only while Close is under way    *)
(* can there be a second, and afterwards none is left.                     *)
OneServer ==
  /\ Cardinality({q \in Queries : pc[q] \in {"spawn", "register"}}) <= 1
  /\ starting <=> \E q \in Queries : pc[q] \in {"spawn", "register"}
  /\ (\E q \in Queries : pc[q] = "gate") => starting
  /\ closing = "no" => Cardinality(alive) <= 1
  /\ closing = "done" => alive = {}

(* Unless two queries synchronised at once, a client that takes the file   *)
(* for sent has sent a text at least as new, under the version it records: *)
(* a write between the stat and the read costs a message, never an update. *)
SyncedText ==
  \A s \in alive :
    docs[s].version > 0 /\ ~overlap /\ (\A q \in Queries : pc[q] # "record") =>
      held[s].edit >= docs[s].edit /\ held[s].version = docs[s].version

(* With a server that names versions, a query that did not time out shows  *)
(* problems of a text no older than the file it was asked about.           *)
(* (handleNotify: "guards waitDiagnostics against ... pre-edit content")   *)
CurrentProblems ==
  \A q \in Queries : result[q] = "current" /\ ~overlap => text[q] >= fi[q]

(* Every query ends, those behind the gate of a start that fails too.      *)
QueriesEnd == []<>(\A q \in Queries : pc[q] \in {"idle", "done"})
=============================================================================
