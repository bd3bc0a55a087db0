---------------------------- MODULE AuthRefresh ----------------------------
(***************************************************************************)
(* The ChatGPT login (provider/openairesponses/auth.go): one credential    *)
(* file, read before every attempt to send a request, refreshed when its   *)
(* access token is near its end, and written in place.  Each client has a  *)
(* mutex of its own, so two of them, or a login and a client, meet only in *)
(* the file.  A refresh token is good for one use: the answer brings the   *)
(* next.  Tokens are numbered as the server issues them.                   *)
(***************************************************************************)
EXTENDS Integers

CONSTANTS
  Clients,    \* clients with a mutex each: of the planner, of the executor ...
  Calls,      \* goroutines that send a request, each through ClientOf
  ClientOf,
  MaxTokens   \* bound: tokens the server issues

VARIABLES
  file,       \* the credential file: a token, 0 when absent, Torn while written
  issued,     \* tokens issued
  live,       \* those whose refresh token the server still accepts
  old,        \* tokens whose access token is near its end or past the interval
  lock,       \* per client, the call that holds its mutex
  at, has,    \* per call, where it stands and the token it loaded
  used,       \* per call, the token its request carries
  login,      \* the login command: where it stands, and its token
  rivals      \* history: calls refused though nobody else refreshed meanwhile

vars == <<file, issued, live, old, lock, at, has, used, login, rivals>>

Nobody == "nobody"
Torn == -1
NoLogin == [at |-> "none", token |-> 0]

Init ==
  /\ file = 1 /\ issued = 1 /\ live = {1} /\ old = {}
  /\ lock = [c \in Clients |-> Nobody]
  /\ at = [g \in Calls |-> "start"] /\ has = [g \in Calls |-> 0]
  /\ used = [g \in Calls |-> 0]
  /\ login = NoLogin /\ rivals = {}

Goto(g, l) == at' = [at EXCEPT ![g] = l]
KeepLocked(g) == UNCHANGED lock        \* mutant: an early return keeps the mutex
Leave(g) == lock' = [lock EXCEPT ![ClientOf[g]] = Nobody]

-----------------------------------------------------------------------------
(* apply                                                                   *)

Free(g) == lock[ClientOf[g]] = Nobody

Lock(g) ==
  /\ at[g] = "start" /\ Free(g)
  /\ lock' = [lock EXCEPT ![ClientOf[g]] = g]
  /\ Goto(g, "load")
  /\ UNCHANGED <<file, issued, live, old, has, used, login, rivals>>

\* No file, or one caught while it is rewritten: not signed in.
Load(g) ==
  /\ at[g] = "load"
  /\ IF file \in {0, Torn}
     THEN Goto(g, "signedout") /\ Leave(g) /\ UNCHANGED <<has, used>>
     ELSE /\ has' = [has EXCEPT ![g] = file]
          /\ IF file \in old
             THEN Goto(g, "post") /\ UNCHANGED <<lock, used>>
             ELSE Goto(g, "sent") /\ Leave(g) /\ used' = [used EXCEPT ![g] = file]
  /\ UNCHANGED <<file, issued, live, old, login, rivals>>

\* The server takes a refresh token once; its answer may be lost.
Refresh(g) ==
  /\ at[g] = "post"
  /\ \/ /\ has[g] \in live /\ issued < MaxTokens
        /\ issued' = issued + 1 /\ live' = (live \ {has[g]}) \cup {issued + 1}
        /\ \/ has' = [has EXCEPT ![g] = issued + 1] /\ Goto(g, "save") /\ UNCHANGED lock
           \/ Goto(g, "failed") /\ Leave(g) /\ UNCHANGED has
        /\ UNCHANGED rivals
     \/ /\ has[g] \notin live
        /\ rivals' = rivals \cup {g}
        /\ Goto(g, "failed") /\ Leave(g) /\ UNCHANGED <<issued, live, has>>
     \/ Goto(g, "failed") /\ Leave(g) /\ UNCHANGED <<issued, live, has, rivals>>
  /\ UNCHANGED <<file, old, used, login>>

\* WriteFile truncates, then writes; a failed write leaves the torn file.
Truncate(g) ==
  /\ at[g] = "save"
  /\ file' = Torn
  /\ Goto(g, "write")
  /\ UNCHANGED <<issued, live, old, lock, has, used, login, rivals>>

Stored(g) == has[g]

Write(g) ==
  /\ at[g] = "write"
  /\ \/ file' = Stored(g) /\ Goto(g, "sent") /\ used' = [used EXCEPT ![g] = has[g]]
     \/ Goto(g, "failed") /\ UNCHANGED <<file, used>>
  /\ Leave(g)
  /\ UNCHANGED <<issued, live, old, has, login, rivals>>

-----------------------------------------------------------------------------
(* Login, Logout and the clock                                             *)

\* exchangeCode: a new grant beside the old; the callback answered, with
\* the right state.
Exchange ==
  /\ login = NoLogin /\ issued < MaxTokens
  /\ issued' = issued + 1 /\ live' = live \cup {issued + 1}
  /\ login' = [at |-> "save", token |-> issued + 1]
  /\ UNCHANGED <<file, old, lock, at, has, used, rivals>>

LoginTruncate ==
  /\ login.at = "save"
  /\ file' = Torn /\ login' = [login EXCEPT !.at = "write"]
  /\ UNCHANGED <<issued, live, old, lock, at, has, used, rivals>>

LoginWrite ==
  /\ login.at = "write"
  /\ file' = login.token /\ login' = [login EXCEPT !.at = "done"]
  /\ UNCHANGED <<issued, live, old, lock, at, has, used, rivals>>

Logout ==
  /\ login = NoLogin
  /\ file' = 0 /\ login' = [login EXCEPT !.at = "out"]
  /\ UNCHANGED <<issued, live, old, lock, at, has, used, rivals>>

\* Time passes: a token comes within refreshWindow of its end.
Expire ==
  /\ file \notin old \cup {0, Torn}
  /\ old' = old \cup {file}
  /\ UNCHANGED <<file, issued, live, lock, at, has, used, login, rivals>>

Step(g) == Lock(g) \/ Load(g) \/ Refresh(g) \/ Truncate(g) \/ Write(g)

Next ==
  \/ \E g \in Calls : Step(g)
  \/ Exchange \/ LoginTruncate \/ LoginWrite \/ Logout \/ Expire

Spec == Init /\ [][Next]_vars

(* The calls run and the server or the transport answers.                  *)
Fairness == \A g \in Calls : WF_vars(Step(g))

-----------------------------------------------------------------------------
Ended(g) == at[g] \in {"sent", "failed", "signedout"}
Rival(g) == \E h \in Calls : ClientOf[h] # ClientOf[g] /\ at[h] # "start"
Lost == \E g \in Calls : at[g] = "failed"

(* A refresh is refused only because another client or a login refreshed   *)
(* meanwhile, or an earlier answer or write was lost: calls of one client  *)
(* never spend each other's token.  (oauthCred.mu)                         *)
OneSpenderPerClient ==
  \A g \in rivals : Rival(g) \/ login # NoLogin \/ \E h \in Calls \ {g} : at[h] = "failed"

(* What is stored is what the server takes next, unless a call is between  *)
(* the two, or an answer or a write was lost.                              *)
StoredIsLive ==
  Lost \/ login # NoLogin \/ \/ file \in live
                             \/ \E g \in Calls : at[g] \in {"save", "write"}

(* Each call ends: signed out, failed or sent.                             *)
CallsEnd == []<>(\A g \in Calls : Ended(g))

(* Claimed: Logout removes the stored credential.                          *)
LogoutSticks == login.at = "out" => file = 0
=============================================================================
