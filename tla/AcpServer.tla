----------------------------- MODULE AcpServer -----------------------------
(***************************************************************************)
(* An ACP agent on stdin/stdout (acp/server.go, service.go, dispatch.go):  *)
(* one read loop, a goroutine per request, a registry of sessions each     *)
(* with its controller and the cancel func of its turn, and permission     *)
(* requests the other way, awaited under an id.  A session object and its  *)
(* controller are one number.                                              *)
(***************************************************************************)
EXTENDS Naturals, FiniteSets

CONSTANTS
  Opens,      \* session/new and session/load requests
  Prompts,    \* session/prompt requests
  Cancels,    \* session/cancel notifications
  Sessions,   \* session ids
  For,        \* the session each of them names
  MaxFrames   \* bound: requests taken up

VARIABLES
  serving,                        \* the read loop: reading, draining, down, ended
  pc, ctl, err, answer,           \* the handlers
  sessions, built, shut, replaced,\* registry; controllers built, closed, overwritten
  cancelOf, ctxDone, grip,        \* cancel func per session; cancelled turns; the one an abort holds
  nextID, pending, chan, perm, permId, verdict, ran,  \* permission requests
  missed                          \* history: aborts that found no turn to cancel

handlers == <<pc, ctl, err, answer>>
registry == <<sessions, built, shut, replaced>>
turns == <<cancelOf, ctxDone, grip, missed>>
permission == <<nextID, pending, chan, perm, permId, verdict, ran>>
vars == <<serving, handlers, registry, turns, permission>>

Requests == Opens \cup Prompts \cup Cancels
Controllers == 1..Cardinality(Opens)
NoController == 0
Nobody == "nobody"
Nothing == "nothing"
Closed == "closed"
Ids == 1..Cardinality(Prompts)

Init ==
  /\ serving = "reading"
  /\ pc = [r \in Requests |-> "idle"] /\ ctl = [r \in Requests |-> NoController]
  /\ err = [r \in Requests |-> "none"] /\ answer = [r \in Requests |-> "none"]
  /\ sessions = [s \in Sessions |-> NoController] /\ built = 0 /\ shut = {} /\ replaced = {}
  /\ cancelOf = [k \in Controllers |-> Nobody] /\ ctxDone = {}
  /\ grip = [r \in Cancels |-> Nobody] /\ missed = {}
  /\ nextID = 0 /\ pending = {} /\ chan = [i \in Ids |-> Nothing]
  /\ perm = [p \in Prompts |-> "none"] /\ permId = [p \in Prompts |-> 0]
  /\ verdict = [p \in Prompts |-> Nothing] /\ ran = {}

Goto(r, l) == pc' = [pc EXCEPT ![r] = l]
Says(r, what) == Goto(r, "done") /\ answer' = [answer EXCEPT ![r] = what]
Done(p) == p \in ctxDone \/ serving # "reading"    \* runCtx.Err() # nil

-----------------------------------------------------------------------------
(* dispatch: a goroutine per frame, so frames start in any order           *)

Dispatch(r) ==
  /\ serving = "reading" /\ pc[r] = "idle"
  /\ Cardinality({q \in Requests : pc[q] # "idle"}) < MaxFrames
  /\ Goto(r, "begin")
  /\ UNCHANGED <<serving, ctl, err, answer, registry, turns, permission>>

(* session/new and session/load                                            *)

Live(r) == sessions[For[r]] # NoController

\* A session that is live is replayed; another is built, outside the lock.
Open(r) ==
  /\ pc[r] = "begin"
  /\ IF Live(r) THEN Says(r, "replayed") ELSE Goto(r, "build") /\ UNCHANGED answer
  /\ UNCHANGED <<serving, ctl, err, registry, turns, permission>>

Build(r) ==
  /\ pc[r] = "build"
  /\ \/ /\ built' = built + 1 /\ ctl' = [ctl EXCEPT ![r] = built + 1]
        /\ Goto(r, "seed") /\ UNCHANGED answer
     \/ Says(r, "error") /\ UNCHANGED <<built, ctl>>
  /\ UNCHANGED <<serving, err, sessions, shut, replaced, turns, permission>>

\* No transcript: the controller just built is closed.
LeaveOpen(r) == shut                   \* mutant: the early return leaks it
CloseIt(r) == shut \cup {ctl[r]}

Seed(r) ==
  /\ pc[r] = "seed"
  /\ \/ Goto(r, "register") /\ UNCHANGED <<answer, shut>>
     \/ shut' = CloseIt(r) /\ Says(r, "error")
  /\ UNCHANGED <<serving, ctl, err, sessions, built, replaced, turns, permission>>

Register(r) ==
  /\ pc[r] = "register"
  /\ sessions' = [sessions EXCEPT ![For[r]] = ctl[r]]
  /\ replaced' = replaced \cup ({sessions[For[r]]} \ {NoController})
  /\ Says(r, "opened")
  /\ UNCHANGED <<serving, ctl, err, built, shut, turns, permission>>

-----------------------------------------------------------------------------
(* session/prompt                                                          *)

Prompt(p) ==
  /\ pc[p] = "begin"
  /\ LET k == sessions[For[p]]
     IN IF k = NoController
        THEN Says(p, "error") /\ UNCHANGED <<ctl, cancelOf>>
        ELSE /\ ctl' = [ctl EXCEPT ![p] = k]
             /\ cancelOf' = [cancelOf EXCEPT ![k] = p]
             /\ Goto(p, "run") /\ UNCHANGED answer
  /\ UNCHANGED <<serving, err, registry, ctxDone, grip, missed, permission>>

\* A gated call: the sink answers the event on a goroutine of its own.
Ask(p) ==
  /\ pc[p] = "run" /\ perm[p] = "none"
  /\ perm' = [perm EXCEPT ![p] = "request"]
  /\ Goto(p, "ask")
  /\ UNCHANGED <<serving, ctl, err, answer, registry, turns, nextID, pending, chan,
                 permId, verdict, ran>>

Allowed(p) == verdict[p] = "allow"

Told(p) ==
  /\ pc[p] = "ask" /\ verdict[p] # Nothing
  /\ ran' = IF Allowed(p) THEN ran \cup {p} ELSE ran
  /\ Goto(p, "run")
  /\ UNCHANGED <<serving, ctl, err, answer, registry, turns, nextID, pending, chan, perm,
                 permId, verdict>>

\* The model ends the turn, the provider fails, or the context is cancelled.
EndTurn(p) ==
  /\ \/ pc[p] = "run" /\ \E e \in {"none", "failed"} : err' = [err EXCEPT ![p] = e]
     \/ pc[p] \in {"run", "ask"} /\ Done(p) /\ err' = [err EXCEPT ![p] = "cancelled"]
  /\ Goto(p, "finish")
  /\ UNCHANGED <<serving, ctl, answer, registry, turns, permission>>

\* setCancel(nil), then cancel(), then Snapshot.
Finish(p) ==
  /\ pc[p] = "finish"
  /\ cancelOf' = [cancelOf EXCEPT ![ctl[p]] = Nobody]
  /\ ctxDone' = ctxDone \cup {p}
  /\ Goto(p, "answer")
  /\ UNCHANGED <<serving, ctl, err, answer, registry, grip, missed, permission>>

StopReason(p) ==
  IF err[p] = "none" THEN "end_turn" ELSE IF Done(p) THEN "cancelled" ELSE "error"

Answer(p) ==
  /\ pc[p] = "answer"
  /\ Says(p, StopReason(p))
  /\ UNCHANGED <<serving, ctl, err, registry, turns, permission>>

(* session/cancel: the func is read under the lock and called outside      *)

Abort(x) ==
  /\ pc[x] = "begin"
  /\ LET k == sessions[For[x]]
         f == IF k = NoController THEN Nobody ELSE cancelOf[k]
     IN /\ grip' = [grip EXCEPT ![x] = f]
        /\ missed' = missed \cup {p \in Prompts \ {f} : For[p] = For[x] /\ pc[p] \in {"run", "ask"}}
  /\ Goto(x, "abort")
  /\ UNCHANGED <<serving, ctl, err, answer, registry, cancelOf, ctxDone, permission>>

CallCancel(x) ==
  /\ pc[x] = "abort"
  /\ ctxDone' = ctxDone \cup ({grip[x]} \ {Nobody})
  /\ Goto(x, "done")
  /\ UNCHANGED <<serving, ctl, err, answer, registry, cancelOf, grip, missed, permission>>

-----------------------------------------------------------------------------
(* requestPermission over Conn.Request                                     *)

SameId == IF nextID = 0 THEN 1 ELSE nextID   \* mutant: the counter stays
FreshId == nextID + 1

Request(p) ==
  /\ perm[p] = "request"
  /\ nextID' = FreshId /\ permId' = [permId EXCEPT ![p] = FreshId]
  /\ pending' = pending \cup {FreshId}
  /\ perm' = [perm EXCEPT ![p] = "wait"]
  /\ UNCHANGED <<serving, handlers, registry, turns, chan, verdict, ran>>

\* The client's answer, read inline by the read loop.
Resolve(p) ==
  /\ serving = "reading" /\ perm[p] = "wait" /\ permId[p] \in pending
  /\ \E v \in {"allow", "deny"} : chan' = [chan EXCEPT ![permId[p]] = v]
  /\ pending' = pending \ {permId[p]}
  /\ UNCHANGED <<serving, handlers, registry, turns, nextID, perm, permId, verdict, ran>>

\* The answer, or a refusal because the connection is closed.
Approve(p) ==
  /\ perm[p] = "wait"
  /\ chan[permId[p]] # Nothing \/ serving \in {"down", "ended"}
  /\ verdict' = [verdict EXCEPT ![p] = IF chan[permId[p]] = "allow" THEN "allow" ELSE "deny"]
  /\ pending' = pending \ {permId[p]}
  /\ perm' = [perm EXCEPT ![p] = "done"]
  /\ UNCHANGED <<serving, handlers, registry, turns, nextID, chan, permId, ran>>

-----------------------------------------------------------------------------
(* The end of Serve                                                        *)

\* End of input cancels the context of every handler.
Eof ==
  /\ serving = "reading"
  /\ serving' = "draining"
  /\ UNCHANGED <<handlers, registry, turns, permission>>

HandlersDone == \A r \in Requests : pc[r] \in {"idle", "done"}

\* shutdown: outstanding requests fail; their entries are empty channels.
Shutdown ==
  /\ serving = "draining" /\ HandlersDone
  /\ serving' = "down"
  /\ chan' = [i \in Ids |-> IF i \in pending THEN Closed ELSE chan[i]]
  /\ pending' = {}
  /\ UNCHANGED <<handlers, registry, turns, nextID, perm, permId, verdict, ran>>

CloseAll ==
  /\ serving = "down"
  /\ serving' = "ended"
  /\ shut' = shut \cup {sessions[s] : s \in {t \in Sessions : sessions[t] # NoController}}
  /\ sessions' = [s \in Sessions |-> NoController]
  /\ UNCHANGED <<handlers, built, replaced, turns, permission>>

Handler(r) ==
  \/ r \in Opens /\ (Open(r) \/ Build(r) \/ Seed(r) \/ Register(r))
  \/ r \in Prompts /\ (Prompt(r) \/ Told(r) \/ Finish(r) \/ Answer(r))
  \/ r \in Cancels /\ (Abort(r) \/ CallCancel(r))

Permission(p) == Request(p) \/ Approve(p)

Next ==
  \/ \E r \in Requests : Dispatch(r) \/ Handler(r)
  \/ \E p \in Prompts : Ask(p) \/ EndTurn(p) \/ Permission(p) \/ Resolve(p)
  \/ Eof \/ Shutdown \/ CloseAll

Spec == Init /\ [][Next]_vars

(* Handlers run, and the agent heeds a cancelled context: when it ends by  *)
(* itself is up to the model.  Nothing is asked of the client.             *)
Fairness ==
  /\ \A r \in Requests : WF_vars(Handler(r) \/ (r \in Prompts /\ Done(r) /\ EndTurn(r)))
  /\ \A p \in Prompts : WF_vars(Permission(p))
  /\ WF_vars(Shutdown \/ CloseAll)

FairSpec == Spec /\ Fairness

-----------------------------------------------------------------------------
(* A gated tool runs only on the client's own answer to that very request: *)
(* a closed connection, a refusal or another turn's answer never runs it.  *)
AllowedByClient ==
  /\ \A p \in ran : chan[permId[p]] = "allow"
  /\ \A p, q \in Prompts : permId[p] = permId[q] /\ permId[p] # 0 => p = q

(* No handler outlives the connection: when Serve returns, every request   *)
(* taken up has its answer, and of the controllers built only those that a *)
(* second load of the same id has overwritten are still open.              *)
TornDown ==
  /\ serving \in {"down", "ended"} => \A r \in Requests : pc[r] \in {"idle", "done"}
  /\ \A r \in Opens \cup Prompts : pc[r] = "done" <=> answer[r] # "none"
  /\ serving = "ended" => (1..built) \ shut \subseteq replaced

(* Unless two prompts share the session, or a second load has replaced it, *)
(* a cancel that finds a turn running gets hold of that turn's own cancel. *)
CancelFindsTurn ==
  \A p \in missed : ctl[p] \in replaced \/ \E q \in Prompts \ {p} : ctl[q] = ctl[p]

(* A turn reported as cancelled was cancelled: by a session/cancel, or the *)
(* connection ended.                                                       *)
StopReasonTrue ==
  \A p \in Prompts : answer[p] = "cancelled" => err[p] # "failed"

(* The end of the input ends the server: turns unwind, waiting permission  *)
(* requests are released, Serve and closeAll return.                       *)
ServerEnds == []<>(serving \in {"reading", "ended"})

(* The outbound requests keep the promise of RpcCalls.                     *)
Phase(p) ==
  CASE perm[p] \in {"none", "request"} -> "idle"
    [] perm[p] = "wait" -> "open"
    [] OTHER -> IF chan[permId[p]] \in {"allow", "deny"} THEN "answered" ELSE "failed"
Promise == INSTANCE RpcCalls
             WITH Calls <- Prompts, phase <- [p \in Prompts |-> Phase(p)],
                  heard <- {p \in Prompts : permId[p] # 0 /\ chan[permId[p]] \in {"allow", "deny"}}
ImplementsRpc == Promise!Spec
=============================================================================
