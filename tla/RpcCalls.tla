------------------------------ MODULE RpcCalls ------------------------------
(***************************************************************************)
(* What a request-response connection promises its callers, whoever        *)
(* implements it: every call ends at most once, and as answered only when  *)
(* the peer has read that very request.                                    *)
(***************************************************************************)
CONSTANT Calls

VARIABLES
  phase,   \* where each call stands
  heard    \* calls whose request the peer has read

vars == <<phase, heard>>

Init == phase = [c \in Calls |-> "idle"] /\ heard = {}

Open(c) ==
  /\ phase[c] = "idle"
  /\ phase' = [phase EXCEPT ![c] = "open"]
  /\ UNCHANGED heard

\* The request may reach the peer after its caller has given up.
Hear(c) ==
  /\ phase[c] \in {"open", "failed"} /\ c \notin heard
  /\ heard' = heard \cup {c}
  /\ UNCHANGED phase

Answer(c) ==
  /\ phase[c] = "open" /\ c \in heard
  /\ phase' = [phase EXCEPT ![c] = "answered"]
  /\ UNCHANGED heard

\* Cancelled, timed out, written to nobody, or the connection is lost.
Fail(c) ==
  /\ phase[c] = "open"
  /\ phase' = [phase EXCEPT ![c] = "failed"]
  /\ UNCHANGED heard

Next == \E c \in Calls : Open(c) \/ Hear(c) \/ Answer(c) \/ Fail(c)

Spec == Init /\ [][Next]_vars
=============================================================================
