----------------------------- MODULE RpcProofs -----------------------------
(***************************************************************************)
(* What MCRpc checks on a small instance holds for all calls, pipes,       *)
(* servers and sessions: each connection keeps an invariant of its own,    *)
(* proved from its Init and its Next; a step of MCNext is a step of the    *)
(* part it moves and stutters in the others.                               *)
(***************************************************************************)
EXTENDS MCRpc, FiniteSetTheorems, TLAPS

(* The instances count as this module does.                                *)
LEMMA Counting ==
  \A S : /\ Conn!Cardinality(S) = Cardinality(S)
         /\ Servers!Cardinality(S) = Cardinality(S)
         /\ Acp!Cardinality(S) = Cardinality(S)
BY DEF Cardinality, Conn!Cardinality, Servers!Cardinality, Acp!Cardinality

-----------------------------------------------------------------------------
(* The HTTP transport of an MCP server (transport_http.go).                *)

(* One request is under way at a time; ids are handed out once; a request  *)
(* carries the session the transport knows, the latest one named; and what *)
(* a stream is read for, the server has read.                              *)
HttpLabels == {"idle", "queued", "posted", "reading", "answered", "failed"}
HttpTypes ==
  /\ hPc \in [Calls -> HttpLabels] /\ hNextID \in Nat /\ hId \in [Calls -> 0..hNextID]
  /\ session \in 0..MaxSessions /\ named \in 0..MaxSessions
  /\ with \in [Calls -> 0..MaxSessions] /\ expected \in [Calls -> 0..MaxSessions]
  /\ got \in [Calls -> Nat] /\ hHeard \subseteq Calls

HttpMutex == \A c, d \in Calls : Http!Live(c) /\ Http!Live(d) => c = d

HttpIds ==
  /\ \A c, d \in Calls \ Notify : hId[c] = hId[d] /\ hId[c] # 0 => c = d
  /\ \A c \in Calls : hPc[c] \in {"idle", "queued"} => hId[c] = 0 /\ got[c] = 0

HttpSession == session = named /\ \A c \in Calls : with[c] = expected[c]

HttpAnswers ==
  \A c \in Calls :
    /\ got[c] # 0 => got[c] = hId[c]
    /\ hPc[c] \in {"reading", "answered"} => c \in hHeard

HttpInv == HttpTypes /\ HttpMutex /\ HttpIds /\ HttpSession /\ HttpAnswers

LEMMA HttpInit == Http!Init => HttpInv
BY RpcAssumption
   DEF Http!Init, HttpInv, HttpTypes, HttpMutex, HttpIds, HttpSession, HttpAnswers,
       HttpLabels, Http!Live

LEMMA HttpStep == HttpInv /\ [Http!Next]_(Http!vars) => HttpInv'
<1> SUFFICES ASSUME HttpInv, [Http!Next]_(Http!vars) PROVE HttpInv'
  OBVIOUS
<1> USE
   DEF HttpInv, HttpTypes, HttpMutex, HttpIds, HttpSession, HttpAnswers, HttpLabels,
       Http!Live, Http!Goto
<1>1. ASSUME NEW c \in Calls, Http!Open(c) PROVE HttpInv'
  BY <1>1 DEF Http!Open
<1>2. ASSUME NEW c \in Calls, Http!Post(c) PROVE HttpInv'
  BY <1>2 DEF Http!Post, Http!Free
<1>3. ASSUME NEW c \in Calls, Http!Fail(c) PROVE HttpInv'
  BY <1>3 DEF Http!Fail
<1>4. ASSUME NEW c \in Calls, Http!Hear(c) PROVE HttpInv'
  BY <1>4 DEF Http!Hear
<1>5. ASSUME NEW c \in Calls, Http!End(c) PROVE HttpInv'
  BY <1>5 DEF Http!End
<1>6. ASSUME NEW c \in Calls, NEW ok \in BOOLEAN, NEW sid \in 0..MaxSessions, Http!Respond(c, sid, ok)
      PROVE  HttpInv'
  BY <1>6, RpcAssumption DEF Http!Respond, Http!Decoded, Http!CaptureSession
<1>7. ASSUME NEW c \in Calls, NEW ok \in BOOLEAN, NEW i \in 0..hNextID, Http!Event(c, i, ok)
      PROVE  HttpInv'
  <2>1. UNCHANGED <<hNextID, hId, with, hHeard, session, named, expected>> /\ hPc[c] = "reading"
    BY <1>7 DEF Http!Event
  <2>2. CASE Http!Matches(c, i)
    <3>1. /\ hPc' = [hPc EXCEPT ![c] = Http!Decoded(ok)] /\ got' = [got EXCEPT ![c] = i]
          /\ Http!Decoded(ok) \in {"answered", "failed"}
      BY <1>7, <2>2 DEF Http!Event, Http!Decoded
    <3>2. i = hId[c] /\ i \in Nat
      BY <2>2 DEF Http!Matches
    <3> QED
      BY <2>1, <3>1, <3>2
  <2>3. CASE ~Http!Matches(c, i)
    BY <1>7, <2>1, <2>3 DEF Http!Event
  <2> QED
    BY <2>2, <2>3
<1>8. ASSUME NEW c \in Calls, Http!Cancel(c) PROVE HttpInv'
  BY <1>8 DEF Http!Cancel
<1>9. CASE UNCHANGED Http!vars
  BY <1>9 DEF Http!vars
<1> QED
  BY <1>1, <1>2, <1>3, <1>4, <1>5, <1>6, <1>7, <1>8, <1>9 DEF Http!Next, Http!Server

LEMMA HttpHolds == Http!Init /\ [][Http!Next]_(Http!vars) => []HttpInv
BY HttpInit, HttpStep, PTL

LEMMA HttpInSession == HttpInv => Http!OneInSession /\ Http!OwnAnswer
BY DEF HttpInv, HttpMutex, HttpIds, HttpSession, HttpAnswers, Http!OneInSession,
       Http!OwnAnswer, Http!Live

HttpPhase == [c \in Calls |-> Http!Phase(hPc[c])]

LEMMA HttpPromiseInit == Http!Init => Http!Promise!Init
BY DEF Http!Init, Http!Promise!Init, Http!Phase

(* A step on one call moves its phase only.                                *)
LEMMA HttpMoves ==
  ASSUME HttpInv, NEW c \in Calls, NEW l \in HttpLabels, Http!Goto(c, l)
  PROVE  /\ HttpPhase[c] = Http!Phase(hPc[c]) /\ HttpPhase'[c] = Http!Phase(l)
         /\ HttpPhase' = [HttpPhase EXCEPT ![c] = Http!Phase(l)]
<1>1. hPc' = [hPc EXCEPT ![c] = l] /\ hPc \in [Calls -> HttpLabels]
  BY DEF Http!Goto, HttpInv, HttpTypes
<1> QED
  BY <1>1 DEF HttpPhase

LEMMA HttpPromiseStep == HttpInv /\ [Http!Next]_(Http!vars) => [Http!Promise!Next]_(Http!Promise!vars)
<1> SUFFICES ASSUME HttpInv, [Http!Next]_(Http!vars)
             PROVE  Http!Promise!Next \/ UNCHANGED <<HttpPhase, hHeard>>
  BY DEF Http!Promise!vars, HttpPhase
<1>0. hPc \in [Calls -> HttpLabels] /\ hHeard \subseteq Calls /\ HttpAnswers
  BY DEF HttpInv, HttpTypes
<1>a. ASSUME NEW c \in Calls, NEW l \in HttpLabels, Http!Goto(c, l), UNCHANGED hHeard,
             Http!Phase(l) = Http!Phase(hPc[c])
      PROVE  UNCHANGED <<HttpPhase, hHeard>>
  BY <1>a, HttpMoves DEF HttpPhase
<1>b. ASSUME NEW c \in Calls, NEW l \in HttpLabels, Http!Goto(c, l), UNCHANGED hHeard,
             Http!Phase(hPc[c]) = "open", Http!Phase(l) = "failed" \/
               (Http!Phase(l) = "answered" /\ c \in hHeard)
      PROVE  Http!Promise!Next
  <2>1. Http!Promise!Fail(c) \/ Http!Promise!Answer(c)
    BY <1>b, HttpMoves DEF Http!Promise!Fail, Http!Promise!Answer, HttpPhase
  <2> QED
    BY <2>1 DEF Http!Promise!Next
<1>1. ASSUME NEW c \in Calls, Http!Open(c) PROVE Http!Promise!Next
  <2>1. Http!Goto(c, "queued") /\ hPc[c] = "idle" /\ UNCHANGED hHeard
    BY <1>1 DEF Http!Open
  <2>2. Http!Promise!Open(c)
    BY <2>1, HttpMoves DEF Http!Promise!Open, HttpPhase, Http!Phase, HttpLabels
  <2> QED
    BY <2>2 DEF Http!Promise!Next
<1>2. ASSUME NEW c \in Calls, Http!Post(c)
      PROVE  Http!Promise!Next \/ UNCHANGED <<HttpPhase, hHeard>>
  <2>1. hPc[c] = "queued" /\ UNCHANGED hHeard /\ (Http!Goto(c, "failed") \/ Http!Goto(c, "posted"))
    BY <1>2 DEF Http!Post
  <2> QED
    BY <1>a, <1>b, <2>1 DEF Http!Phase, HttpLabels
<1>3. ASSUME NEW c \in Calls, Http!Fail(c) \/ Http!End(c) PROVE Http!Promise!Next
  <2>1. Http!Live(c) /\ UNCHANGED hHeard /\ Http!Goto(c, "failed")
    BY <1>3 DEF Http!Fail, Http!End, Http!Live
  <2> QED
    BY <1>b, <2>1 DEF Http!Phase, HttpLabels, Http!Live
<1>4. ASSUME NEW c \in Calls, Http!Hear(c) PROVE Http!Promise!Next
  <2>1. Http!Promise!Hear(c)
    BY <1>0, <1>4 DEF Http!Hear, Http!Promise!Hear, Http!Phase
  <2> QED
    BY <2>1 DEF Http!Promise!Next
<1>6. ASSUME NEW c \in Calls, NEW ok \in BOOLEAN, NEW sid \in 0..MaxSessions, Http!Respond(c, sid, ok)
      PROVE  Http!Promise!Next \/ UNCHANGED <<HttpPhase, hHeard>>
  <2>1. /\ hPc[c] = "posted" /\ c \in hHeard /\ UNCHANGED hHeard
        /\ Http!Goto(c, "answered") \/ Http!Goto(c, "failed") \/ Http!Goto(c, "reading")
    BY <1>6 DEF Http!Respond, Http!Decoded
  <2> QED
    BY <1>a, <1>b, <2>1 DEF Http!Phase, HttpLabels
<1>7. ASSUME NEW c \in Calls, NEW ok \in BOOLEAN, NEW i \in 0..hNextID, Http!Event(c, i, ok)
      PROVE  Http!Promise!Next \/ UNCHANGED <<HttpPhase, hHeard>>
  <2>1. /\ hPc[c] = "reading" /\ c \in hHeard /\ UNCHANGED hHeard
        /\ Http!Goto(c, "answered") \/ Http!Goto(c, "failed") \/ UNCHANGED hPc
    BY <1>0, <1>7 DEF Http!Event, Http!Decoded, HttpAnswers
  <2> QED
    BY <1>b, <2>1 DEF Http!Phase, HttpLabels, HttpPhase
<1>8. ASSUME NEW c \in Calls, Http!Cancel(c) PROVE UNCHANGED <<HttpPhase, hHeard>>
  BY <1>8 DEF Http!Cancel, HttpPhase
<1>9. CASE UNCHANGED Http!vars
  BY <1>9 DEF Http!vars, HttpPhase
<1> QED
  BY <1>1, <1>2, <1>3, <1>4, <1>6, <1>7, <1>8, <1>9 DEF Http!Next, Http!Server

LEMMA HttpKeepsPromise == Http!Init /\ [][Http!Next]_(Http!vars) => Http!ImplementsRpc
  BY HttpHolds, HttpPromiseInit, HttpPromiseStep, PTL
     DEF Http!ImplementsRpc, Http!Promise!Spec

-----------------------------------------------------------------------------
(* The connection of a language server (lsp/jsonrpc.go).                   *)

ConnLabels == {"idle", "write", "wait", "cleanup", "sleep", "done"}
ConnOutcomes == {"none", "cancelled", "closed", "write error", "busy", "answer", "crossed"}
ConnFrames ==
  [kind : {"none", "call", "reply", "ask", "garbled", "answer"}, id : Nat, busy : BOOLEAN]
Listed == {"write", "wait", "cleanup"}

ConnTypes ==
  /\ lNextID \in Nat /\ lPending \subseteq 1..lNextID /\ lClosed \in BOOLEAN
  /\ lChan \in [Conn!Ids -> [id : Nat, busy : BOOLEAN]]
  /\ lPc \in [LspCalls -> ConnLabels] /\ lId \in [LspCalls -> 0..lNextID]
  /\ tries \in [LspCalls -> 0..MaxRetries] /\ lCancelled \subseteq LspCalls
  /\ lOutcome \in [LspCalls -> ConnOutcomes]
  /\ lReader \in {"reading", "deliver", "reply", "exited"} /\ frame \in ConnFrames
  /\ lStdin \in Seq(ConnFrames) /\ lStdout \in Seq(ConnFrames)
  /\ owed \subseteq 1..lNextID /\ lHeard \subseteq LspCalls

(* Each call may make as many attempts as it has slots; Used are those     *)
(* that have begun.  No more ids have been given than that, hence there is *)
(* always one left, with a channel of its own.                             *)
Slots == LspCalls \X (0..MaxRetries)
Attempts(c) == IF lPc[c] = "idle" THEN 0 ELSE IF lPc[c] = "sleep" THEN tries[c] ELSE tries[c] + 1
Used == {s \in Slots : s[2] < Attempts(s[1])}
ConnIds ==
  /\ lNextID <= Cardinality(Used)
  /\ \A c \in LspCalls : lPc[c] = "idle" => lId[c] = 0 /\ tries[c] = 0
  /\ \A c \in LspCalls : lPc[c] # "idle" => lId[c] # 0
  /\ \A c, d \in LspCalls : lId[c] = lId[d] /\ lId[c] # 0 => c = d

ConnTidy == lPending = {lId[c] : c \in {d \in LspCalls : lPc[d] \in Listed}}

(* A channel holds answers to its own id, and an answer is on its way only *)
(* if the server has read the request: of each call that has its id.       *)
Asked(i) == \A c \in LspCalls : lId[c] = i => c \in lHeard
ConnHeard ==
  /\ \A k \in DOMAIN lStdin :
       IF lStdin[k].kind = "call" THEN lStdin[k].id \in 1..lNextID ELSE lStdin[k].id = 0
  /\ \A i \in owed : Asked(i)
  /\ \A k \in DOMAIN lStdout : lStdout[k].kind = "answer" =>
                               lStdout[k].id \in 1..lNextID /\ Asked(lStdout[k].id)
  /\ lReader = "deliver" => frame.id \in 1..lNextID /\ Asked(frame.id)
  /\ \A i \in Conn!Ids : lChan[i] # Conn!Empty => lChan[i].id = i /\ Asked(i)
  /\ \A c \in LspCalls :
       lOutcome[c] # "crossed" /\ (lOutcome[c] \in {"answer", "busy"} => c \in lHeard)

ConnInv == ConnTypes /\ ConnIds /\ ConnTidy /\ ConnHeard

-----------------------------------------------------------------------------
LEMMA SlotsCount ==
  /\ IsFiniteSet(Slots) /\ Cardinality(Slots) = Cardinality(LspCalls) * (MaxRetries + 1)
  /\ IsFiniteSet(Used) /\ Cardinality(Used) \in Nat
  /\ Cardinality(LspCalls) * (MaxRetries + 1) \in Nat
<1>1. IsFiniteSet(LspCalls) /\ Cardinality(LspCalls) \in Nat
  BY RpcAssumption, FS_CardinalityType
<1>2. IsFiniteSet(0..MaxRetries) /\ Cardinality(0..MaxRetries) = MaxRetries + 1
  BY RpcAssumption, FS_Interval
<1>3. IsFiniteSet(Slots) /\ Cardinality(Slots) = Cardinality(LspCalls) * Cardinality(0..MaxRetries)
  BY <1>1, <1>2, FS_Product DEF Slots
<1>4. Used \subseteq Slots
  BY DEF Used
<1>5. IsFiniteSet(Used) /\ Cardinality(Used) \in Nat
  BY <1>3, <1>4, FS_Subset, FS_CardinalityType
<1>6. Cardinality(Slots) \in Nat
  BY <1>3, FS_CardinalityType
<1> QED
  BY <1>2, <1>3, <1>5, <1>6

(* A call that registers uses up a slot.                                   *)
LEMMA SlotTaken ==
  ASSUME ConnTypes, ConnIds, NEW c \in LspCalls, Conn!Register(c)
  PROVE  Conn!FreshId \in Conn!Ids /\ Conn!FreshId <= Cardinality(Used')
<1> DEFINE s == <<c, tries[c]>>
<1>1. s \in Slots
  BY DEF ConnTypes, Slots
<1>2. lPc[c] \in {"idle", "sleep"} /\ tries' = tries /\ lPc' = [lPc EXCEPT ![c] = "write"]
  BY DEF Conn!Register
<1>3. Attempts(c) = tries[c] /\ Attempts(c)' = tries[c] + 1 /\ tries[c] \in Nat
  BY <1>2, RpcAssumption DEF Attempts, ConnTypes, ConnIds
<1>4. \A d \in LspCalls \ {c} : Attempts(d)' = Attempts(d)
  BY <1>2 DEF Attempts, ConnTypes
<1>5. Used' = Used \cup {s} /\ s \notin Used
  <2>1. ASSUME NEW t \in Slots PROVE t[2] < Attempts(t[1])' <=> t[2] < Attempts(t[1]) \/ t = s
    <3>1. PICK d \in LspCalls, k \in 0..MaxRetries : t = <<d, k>>
      BY DEF Slots
    <3>2. CASE d = c
      BY <1>3, <3>1, <3>2, RpcAssumption
    <3>3. CASE d # c
      BY <1>4, <3>1, <3>3
    <3> QED
      BY <3>2, <3>3
  <2>2. Used' = {t \in Slots : t[2] < Attempts(t[1])'}
    BY DEF Used, Slots
  <2>3. s \notin Used
    BY <1>3 DEF Used
  <2> HIDE DEF s
  <2> QED
    BY <1>1, <2>1, <2>2, <2>3 DEF Used
<1>6. Cardinality(Used') = Cardinality(Used) + 1
  <2> HIDE DEF s
  <2> QED
    BY <1>5, SlotsCount, FS_AddElement
<1>7. Cardinality(Used') <= Cardinality(Slots)
  <2>1. Used' \subseteq Slots
    BY DEF Used, Slots
  <2> QED
    BY <2>1, SlotsCount, FS_Subset
<1>8. lNextID \in Nat /\ lNextID <= Cardinality(Used)
  BY DEF ConnTypes, ConnIds
<1> QED
  BY <1>6, <1>7, <1>8, SlotsCount, Counting DEF Conn!FreshId, Conn!Ids

LEMMA ConnInit == Conn!Init => ConnInv
<1> SUFFICES ASSUME Conn!Init PROVE ConnInv
  OBVIOUS
<1>1. ConnTypes
  <2>1. Conn!Empty \in [id : Nat, busy : BOOLEAN] /\ Conn!NoFrame \in ConnFrames
    BY DEF Conn!Init, Conn!Empty, Conn!NoFrame, Conn!Frame, Conn!Nobody, ConnFrames
  <2>2. <<>> \in Seq(ConnFrames)
    OBVIOUS
  <2>3. /\ lPc \in [LspCalls -> ConnLabels] /\ lId \in [LspCalls -> 0..lNextID]
        /\ tries \in [LspCalls -> 0..MaxRetries] /\ lOutcome \in [LspCalls -> ConnOutcomes]
    BY RpcAssumption DEF Conn!Init, ConnLabels, ConnOutcomes
  <2> QED
    BY <2>1, <2>2, <2>3 DEF Conn!Init, ConnTypes
<1>2. ConnIds
  BY SlotsCount DEF Conn!Init, ConnIds
<1>3. ConnTidy /\ ConnHeard
  BY DEF Conn!Init, ConnTidy, ConnHeard, Listed
<1> QED
  BY <1>1, <1>2, <1>3 DEF ConnInv

LEMMA IdsGiven == ConnTypes /\ ConnIds => 1..lNextID \subseteq Conn!Ids
<1> SUFFICES ASSUME ConnTypes, ConnIds PROVE 1..lNextID \subseteq Conn!Ids
  OBVIOUS
<1>1. Cardinality(Used) <= Cardinality(Slots)
  <2>1. Used \subseteq Slots
    BY DEF Used
  <2> QED
    BY <2>1, SlotsCount, FS_Subset
<1>2. lNextID \in Nat /\ lNextID <= Cardinality(Used)
  BY DEF ConnTypes, ConnIds
<1> QED
  BY <1>1, <1>2, SlotsCount, Counting DEF Conn!Ids

LEMMA AppendStays == ASSUME NEW S, NEW s \in Seq(S), NEW x \in S PROVE Append(s, x) \in Seq(S)
OBVIOUS

LEMMA StepConnTypes == ConnInv /\ [Conn!Next]_(Conn!vars) => ConnTypes'
<1> SUFFICES ASSUME ConnInv, [Conn!Next]_(Conn!vars) PROVE ConnTypes'
  OBVIOUS
<1>0. ConnTypes /\ ConnIds /\ ConnHeard
  BY DEF ConnInv
<1> USE <1>0
<1>a. Conn!Empty \in [id : Nat, busy : BOOLEAN] /\ Conn!NoFrame \in ConnFrames
  BY DEF Conn!Empty, Conn!NoFrame, Conn!Frame, Conn!Nobody, ConnFrames
<1>b. 1..lNextID \subseteq Conn!Ids
  BY IdsGiven
<1>1. ASSUME NEW c \in LspCalls, Conn!Register(c) PROVE ConnTypes'
  <2>1. lNextID' = lNextID + 1 /\ lNextID' \in Nat /\ lNextID' \in 1..lNextID'
    BY <1>1 DEF Conn!Register, Conn!FreshId, ConnTypes
  <2>2. lPending' \subseteq 1..lNextID' /\ owed' \subseteq 1..lNextID'
    BY <1>1, <2>1 DEF Conn!Register, Conn!FreshId, ConnTypes, Conn!child
  <2>3. lChan' \in [Conn!Ids -> [id : Nat, busy : BOOLEAN]]
    BY <1>1, <1>a DEF Conn!Register, ConnTypes
  <2>4. lPc' \in [LspCalls -> ConnLabels] /\ lId' \in [LspCalls -> 0..lNextID']
    BY <1>1, <2>1 DEF Conn!Register, Conn!FreshId, ConnTypes, ConnLabels
  <2> QED
    BY <1>1, <2>1, <2>2, <2>3, <2>4 DEF Conn!Register, ConnTypes, Conn!pump, Conn!child
<1>2. ASSUME NEW c \in LspCalls, Conn!Write(c) PROVE ConnTypes'
  <2>1. Conn!Frame("call", lId[c], FALSE) \in ConnFrames
    BY DEF Conn!Frame, ConnFrames, ConnTypes
  <2>a. lStdin \in Seq(ConnFrames)
    BY DEF ConnTypes
  <2>b. lStdin' = Append(lStdin, Conn!Frame("call", lId[c], FALSE)) \/ lStdin' = lStdin
    BY <1>2 DEF Conn!Write
  <2>2. lStdin' \in Seq(ConnFrames)
    BY <2>1, <2>a, <2>b, AppendStays
  <2>3. lPc' \in [LspCalls -> ConnLabels] /\ lOutcome' \in [LspCalls -> ConnOutcomes]
    BY <1>2 DEF Conn!Write, Conn!Ends, ConnTypes, ConnLabels, ConnOutcomes
  <2> QED
    BY <1>2, <2>2, <2>3 DEF Conn!Write, ConnTypes, Conn!conn, Conn!pump
<1>3. ASSUME NEW c \in LspCalls, Conn!Select(c) PROVE ConnTypes'
  <2>1. lChan' \in [Conn!Ids -> [id : Nat, busy : BOOLEAN]]
    BY <1>3, <1>a DEF Conn!Select, ConnTypes
  <2>2. lPc' \in [LspCalls -> ConnLabels] /\ lOutcome' \in [LspCalls -> ConnOutcomes]
    BY <1>3 DEF Conn!Select, Conn!Ends, ConnTypes, ConnLabels, ConnOutcomes
  <2> QED
    BY <1>3, <2>1, <2>2 DEF Conn!Select, ConnTypes, Conn!pump, Conn!child
<1>4. ASSUME NEW c \in LspCalls, Conn!Cleanup(c) PROVE ConnTypes'
  <2>1. lPc' \in [LspCalls -> ConnLabels] /\ tries' \in [LspCalls -> 0..MaxRetries]
    BY <1>4, RpcAssumption DEF Conn!Cleanup, ConnTypes, ConnLabels
  <2>2. lPending' \subseteq 1..lNextID
    BY <1>4 DEF Conn!Cleanup, Conn!DropEntry, ConnTypes
  <2> QED
    BY <1>4, <2>1, <2>2 DEF Conn!Cleanup, ConnTypes, Conn!pump, Conn!child
<1>5. ASSUME NEW c \in LspCalls, Conn!WakeCancelled(c) PROVE ConnTypes'
  BY <1>5
     DEF Conn!WakeCancelled, ConnTypes, ConnLabels, ConnOutcomes, Conn!conn, Conn!pump,
         Conn!child
<1>6. ASSUME NEW c \in LspCalls, Conn!Cancel(c) PROVE ConnTypes'
  BY <1>6 DEF Conn!Cancel, ConnTypes, Conn!conn, Conn!pump, Conn!child
<1>7. CASE Conn!ReadFrame
  <2>1. lStdout' \in Seq(ConnFrames) /\ lStdout[1] \in ConnFrames
    BY <1>7 DEF Conn!ReadFrame, ConnTypes
  <2>2. frame' \in ConnFrames /\ lReader' \in {"reading", "deliver", "reply", "exited"}
    BY <1>7, <2>1 DEF Conn!ReadFrame, ConnTypes, Conn!pump
  <2> QED
    BY <1>7, <2>1, <2>2 DEF Conn!ReadFrame, ConnTypes, Conn!conn, Conn!calls
<1>8. CASE Conn!Deliver
  <2>1. [id |-> frame.id, busy |-> frame.busy] \in [id : Nat, busy : BOOLEAN]
    BY DEF ConnTypes, ConnFrames
  <2>2. lChan' \in [Conn!Ids -> [id : Nat, busy : BOOLEAN]]
    BY <1>8, <2>1 DEF Conn!Deliver, ConnTypes
  <2> QED
    BY <1>8, <1>a, <2>2 DEF Conn!Deliver, ConnTypes, Conn!calls, Conn!child
<1>9. CASE Conn!Reply
  <2>1. Conn!Frame("reply", Conn!Nobody, FALSE) \in ConnFrames
    BY DEF Conn!Frame, Conn!Nobody, ConnFrames
  <2>a. lStdin \in Seq(ConnFrames)
    BY DEF ConnTypes
  <2>b. lStdin' = Append(lStdin, Conn!Frame("reply", Conn!Nobody, FALSE)) \/ lStdin' = lStdin
    BY <1>9 DEF Conn!Reply
  <2>2. lStdin' \in Seq(ConnFrames)
    BY <2>1, <2>a, <2>b, AppendStays
  <2> QED
    BY <1>9, <1>a, <2>2 DEF Conn!Reply, ConnTypes, Conn!conn, Conn!calls
<1>10. CASE Conn!ReadFails
  BY <1>10 DEF Conn!ReadFails, Conn!TellAll, ConnTypes, Conn!calls, Conn!child
<1>11. CASE Conn!Hear
  <2>1. lStdin[1] \in ConnFrames /\ lStdin' \in Seq(ConnFrames) /\ 1 \in DOMAIN lStdin
    BY <1>11 DEF Conn!Hear, ConnTypes
  <2>2. owed' \subseteq 1..lNextID
    <3>1. lStdin[1].kind = "call" => lStdin[1].id \in 1..lNextID
      BY <2>1 DEF ConnHeard
    <3>2. owed' = owed \cup {f.id : f \in {g \in {lStdin[1]} : g.kind = "call"}}
      BY <1>11 DEF Conn!Hear
    <3>3. owed \subseteq 1..lNextID
      BY DEF ConnTypes
    <3> QED
      BY <3>1, <3>2, <3>3
  <2> QED
    BY <1>11, <2>1, <2>2 DEF Conn!Hear, ConnTypes, Conn!conn, Conn!calls, Conn!pump
<1>12. CASE Conn!Say
  <2>1. PICK i \in owed, busy \in BOOLEAN :
          /\ lStdout' = Append(lStdout, Conn!Frame("answer", i, busy))
          /\ owed' \in {owed \ {i}} \cup {o \in {owed} : Repeats}
    BY <1>12 DEF Conn!Say
  <2>2. Conn!Frame("answer", i, busy) \in ConnFrames
    BY DEF Conn!Frame, ConnFrames, ConnTypes
  <2>a. lStdout \in Seq(ConnFrames) /\ owed \subseteq 1..lNextID
    BY DEF ConnTypes
  <2>3. lStdout' \in Seq(ConnFrames) /\ owed' \subseteq 1..lNextID
    BY <2>1, <2>2, <2>a, AppendStays
  <2> QED
    BY <1>12, <2>3 DEF Conn!Say, ConnTypes, Conn!conn, Conn!calls, Conn!pump
<1>13. CASE Conn!Ask
  <2>1. PICK k \in {"ask", "garbled"} : lStdout' = Append(lStdout, Conn!Frame(k, Conn!Nobody, FALSE))
    BY <1>13 DEF Conn!Ask
  <2>2. Conn!Frame(k, Conn!Nobody, FALSE) \in ConnFrames
    BY DEF Conn!Frame, Conn!Nobody, ConnFrames
  <2>a. lStdout \in Seq(ConnFrames)
    BY DEF ConnTypes
  <2>3. lStdout' \in Seq(ConnFrames)
    BY <2>1, <2>2, <2>a, AppendStays
  <2> QED
    BY <1>13, <2>3 DEF Conn!Ask, ConnTypes, Conn!conn, Conn!calls, Conn!pump
<1>14. CASE Conn!Exit
  BY <1>14 DEF Conn!Exit, ConnTypes, Conn!conn, Conn!calls, Conn!pump
<1>15. CASE UNCHANGED Conn!vars
  BY <1>15 DEF Conn!vars, ConnTypes, Conn!conn, Conn!calls, Conn!pump, Conn!child
<1> QED
  BY <1>1, <1>2, <1>3, <1>4, <1>5, <1>6, <1>7, <1>8, <1>9, <1>10, <1>11, <1>12, <1>13, <1>14,
     <1>15 DEF Conn!Next, Conn!Step, Conn!Pump

(* An id is given once, and the calls that have it are its own.            *)
LEMMA StepConnIds == ConnInv /\ [Conn!Next]_(Conn!vars) => ConnIds' /\ ConnTidy'
<1> SUFFICES ASSUME ConnInv, [Conn!Next]_(Conn!vars) PROVE ConnIds' /\ ConnTidy'
  OBVIOUS
<1>0. ConnTypes /\ ConnIds /\ ConnTidy
  BY DEF ConnInv
<1> USE <1>0
<1>a. ASSUME UNCHANGED <<lNextID, lPending, lId, lPc, tries>> PROVE ConnIds' /\ ConnTidy'
  <2>1. Used' = Used
    BY <1>a DEF Used, Attempts, Slots
  <2> QED
    BY <1>a, <2>1 DEF ConnIds, ConnTidy
<1>1. ASSUME NEW c \in LspCalls, Conn!Register(c) PROVE ConnIds' /\ ConnTidy'
  <2>1. /\ lNextID' = lNextID + 1 /\ lId' = [lId EXCEPT ![c] = lNextID + 1]
        /\ lPending' = lPending \cup {lNextID + 1} /\ lPc' = [lPc EXCEPT ![c] = "write"]
        /\ tries' = tries /\ lPc[c] \in {"idle", "sleep"}
    BY <1>1 DEF Conn!Register, Conn!FreshId
  <2>2. lNextID' <= Cardinality(Used')
    BY <1>1, <2>1, SlotTaken DEF Conn!FreshId
  <2>3. \A d \in LspCalls : lId[d] \in 0..lNextID /\ lNextID \in Nat
    BY DEF ConnTypes
  <2>4. \A d \in LspCalls : lId'[d] = IF d = c THEN lNextID + 1 ELSE lId[d]
    BY <2>1 DEF ConnTypes
  <2>5. \A d \in LspCalls : lPc'[d] = IF d = c THEN "write" ELSE lPc[d]
    BY <2>1 DEF ConnTypes
  <2>6. \A d, e \in LspCalls : lId'[d] = lId'[e] /\ lId'[d] # 0 => d = e
    BY <2>3, <2>4 DEF ConnIds
  <2>7. \A d \in LspCalls : (lPc'[d] = "idle" => lId'[d] = 0 /\ tries'[d] = 0) /\
          (lPc'[d] # "idle" => lId'[d] # 0)
    BY <2>1, <2>3, <2>4, <2>5 DEF ConnIds
  <2>8. ConnTidy'
    BY <2>1, <2>4, <2>5 DEF ConnTidy, Listed
  <2> QED
    BY <2>2, <2>6, <2>7, <2>8 DEF ConnIds
<1>b. ASSUME NEW c \in LspCalls, NEW l \in {"wait", "cleanup"}, lPc[c] \in {"write", "wait"},
             lPc' = [lPc EXCEPT ![c] = l], UNCHANGED <<lNextID, lPending, lId, tries>>
      PROVE  ConnIds' /\ ConnTidy'
  <2>1. \A d \in LspCalls : lPc'[d] = IF d = c THEN l ELSE lPc[d]
    BY <1>b DEF ConnTypes
  <2>2. \A d \in LspCalls : Attempts(d)' = Attempts(d)
    BY <1>b, <2>1 DEF Attempts
  <2>3. Used' = Used
    BY <2>2 DEF Used, Slots
  <2>4. \A d \in LspCalls : lPc'[d] \in Listed <=> lPc[d] \in Listed
    BY <1>b, <2>1 DEF Listed
  <2>5. ConnTidy'
    BY <1>b, <2>4 DEF ConnTidy
  <2> QED
    BY <1>b, <2>1, <2>3, <2>5 DEF ConnIds
<1>2. ASSUME NEW c \in LspCalls, Conn!Write(c) \/ Conn!Select(c) PROVE ConnIds' /\ ConnTidy'
  <2>1. /\ lPc[c] \in {"write", "wait"} /\ UNCHANGED <<lNextID, lPending, lId, tries>>
        /\ lPc' = [lPc EXCEPT ![c] = "wait"] \/ lPc' = [lPc EXCEPT ![c] = "cleanup"]
    BY <1>2 DEF Conn!Write, Conn!Select, Conn!Ends, Conn!conn
  <2> QED
    BY <1>b, <2>1
<1>3. ASSUME NEW c \in LspCalls, Conn!Cleanup(c) PROVE ConnIds' /\ ConnTidy'
  <2>1. PICK l \in {"sleep", "done"} :
          /\ lPc' = [lPc EXCEPT ![c] = l]
          /\ tries' = [tries EXCEPT ![c] = IF l = "sleep" THEN @ + 1 ELSE @]
    BY <1>3 DEF Conn!Cleanup
  <2>2. lPc[c] = "cleanup" /\ lPending' = lPending \ {lId[c]} /\ UNCHANGED <<lNextID, lId>>
    BY <1>3 DEF Conn!Cleanup, Conn!DropEntry
  <2>3. \A d \in LspCalls : lPc'[d] = IF d = c THEN l ELSE lPc[d]
    BY <2>1 DEF ConnTypes
  <2>4. \A d \in LspCalls : tries'[d] = IF d = c /\ l = "sleep" THEN tries[d] + 1 ELSE tries[d]
    BY <2>1 DEF ConnTypes
  <2>5. \A d \in LspCalls : Attempts(d)' = Attempts(d)
    BY <2>2, <2>3, <2>4 DEF Attempts
  <2>6. Used' = Used
    BY <2>5 DEF Used, Slots
  <2>7. lId[c] # 0 /\ \A d \in LspCalls : lId[d] = lId[c] => d = c
    BY <2>2 DEF ConnIds
  <2>8. ConnTidy'
    BY <2>2, <2>3, <2>7 DEF ConnTidy, Listed
  <2>9. \A d \in LspCalls : lPc'[d] = "idle" => lPc[d] = "idle" /\ tries'[d] = tries[d]
    BY <2>2, <2>3, <2>4
  <2>10. \A d \in LspCalls : lPc'[d] # "idle" => lPc[d] # "idle"
    BY <2>2, <2>3
  <2> QED
    BY <2>2, <2>6, <2>8, <2>9, <2>10 DEF ConnIds
<1>4. ASSUME NEW c \in LspCalls, Conn!WakeCancelled(c) PROVE ConnIds' /\ ConnTidy'
  <2>1. /\ lPc[c] = "sleep" /\ lPc' = [lPc EXCEPT ![c] = "done"]
        /\ UNCHANGED <<lNextID, lPending, lId, tries>>
    BY <1>4 DEF Conn!WakeCancelled, Conn!conn
  <2>2. \A d \in LspCalls : lPc'[d] = IF d = c THEN "done" ELSE lPc[d]
    BY <2>1 DEF ConnTypes
  <2>3. \A d \in LspCalls : Attempts(d)' \in Int /\ Attempts(d) \in Int /\ Attempts(d)' >= Attempts(d)
    BY <2>1, <2>2, RpcAssumption DEF Attempts, ConnTypes
  <2>4. Used \subseteq Used'
    <3> SUFFICES ASSUME NEW s \in Slots, s[2] < Attempts(s[1]) PROVE s[2] < Attempts(s[1])'
      BY DEF Used, Slots
    <3>1. s[1] \in LspCalls /\ s[2] \in Int
      BY DEF Slots
    <3> QED
      BY <2>3, <3>1
  <2>5. Cardinality(Used) <= Cardinality(Used') /\ Cardinality(Used) \in Nat /\
          Cardinality(Used') \in Nat
    <3>1. Used' \subseteq Slots
      BY DEF Used, Slots
    <3>2. IsFiniteSet(Used')
      BY <3>1, SlotsCount, FS_Subset
    <3> QED
      BY <2>4, <3>2, SlotsCount, FS_Subset, FS_CardinalityType
  <2>6. \A d \in LspCalls : (lPc'[d] \in Listed <=> lPc[d] \in Listed) /\ (lPc'[d] = "idle" <=>
          lPc[d] = "idle")
    BY <2>1, <2>2 DEF Listed
  <2>7. lNextID' <= Cardinality(Used')
    BY <2>1, <2>5 DEF ConnIds, ConnTypes
  <2>8. ConnTidy'
    BY <2>1, <2>6 DEF ConnTidy
  <2> QED
    BY <2>1, <2>6, <2>7, <2>8 DEF ConnIds
<1>5. ASSUME \/ \E c \in LspCalls : Conn!Cancel(c)
             \/ Conn!Pump \/ Conn!Hear \/ Conn!Say \/ Conn!Ask \/ Conn!Exit \/ UNCHANGED Conn!vars
      PROVE  UNCHANGED <<lNextID, lPending, lId, lPc, tries>>
  BY <1>5
     DEF Conn!Cancel, Conn!Pump, Conn!ReadFrame, Conn!Deliver, Conn!Reply, Conn!ReadFails,
         Conn!Hear, Conn!Say, Conn!Ask, Conn!Exit, Conn!vars, Conn!conn, Conn!calls
<1> QED
  BY <1>a, <1>1, <1>2, <1>3, <1>4, <1>5 DEF Conn!Next, Conn!Step

LEMMA TailKeeps ==
  ASSUME NEW S, NEW s \in Seq(S), s # <<>>
  PROVE  /\ Tail(s) \in Seq(S) /\ 1 \in DOMAIN s /\ s[1] \in S
         /\ \A k \in DOMAIN Tail(s) : k + 1 \in DOMAIN s /\ Tail(s)[k] = s[k + 1]
OBVIOUS

LEMMA AppendKeeps ==
  ASSUME NEW S, NEW s \in Seq(S), NEW x \in S, NEW k \in DOMAIN Append(s, x)
  PROVE  (k \in DOMAIN s /\ Append(s, x)[k] = s[k]) \/ Append(s, x)[k] = x
OBVIOUS

(* A request that was heard stays heard, and a fresh id is nobody's yet.   *)
LEMMA AskedStays ==
  ASSUME ConnInv, [Conn!Next]_(Conn!vars), NEW i, i # lNextID + 1 \/ lNextID' = lNextID, Asked(i)
  PROVE  Asked(i)'
<1>0. ConnTypes
  BY DEF ConnInv
<1>1. ASSUME NEW c \in LspCalls, Conn!Register(c) PROVE Asked(i)'
  <2>1. lId' = [lId EXCEPT ![c] = lNextID + 1] /\ lHeard' = lHeard /\ lNextID' = lNextID + 1 /\
          lNextID \in Nat
    BY <1>0, <1>1 DEF Conn!Register, Conn!FreshId, Conn!child, ConnTypes
  <2>2. \A d \in LspCalls : lId'[d] = IF d = c THEN lNextID + 1 ELSE lId[d]
    BY <1>0, <2>1 DEF ConnTypes
  <2> QED
    BY <2>1, <2>2 DEF Asked
<1>2. ASSUME UNCHANGED lId, lHeard \subseteq lHeard' PROVE Asked(i)'
  BY <1>2 DEF Asked
<1>3. CASE Conn!Hear
  BY <1>2, <1>3 DEF Conn!Hear, Conn!calls
<1>4. ASSUME \/ \E c \in LspCalls : Conn!Step(c) \/ Conn!Cancel(c)
             \/ Conn!Pump \/ Conn!Say \/ Conn!Ask \/ Conn!Exit \/ UNCHANGED Conn!vars
      PROVE  UNCHANGED <<lId, lHeard>>
  BY <1>4
     DEF Conn!Step, Conn!Write, Conn!Select, Conn!Cleanup, Conn!WakeCancelled, Conn!Cancel,
         Conn!Pump, Conn!ReadFrame, Conn!Deliver, Conn!Reply, Conn!ReadFails, Conn!Say,
         Conn!Ask, Conn!Exit, Conn!vars, Conn!calls, Conn!child
<1> QED
  BY <1>1, <1>2, <1>3, <1>4 DEF Conn!Next

(* What is on its way to a call answers a request the server has read.     *)
LEMMA StepConnHeard == ConnInv /\ [Conn!Next]_(Conn!vars) => ConnHeard'
<1> SUFFICES ASSUME ConnInv, [Conn!Next]_(Conn!vars) PROVE ConnHeard'
  OBVIOUS
<1>0. ConnTypes /\ ConnIds /\ ConnHeard
  BY DEF ConnInv
<1>a. /\ lNextID \in Nat /\ lStdin \in Seq(ConnFrames) /\ lStdout \in Seq(ConnFrames)
      /\ owed \subseteq 1..lNextID
  BY <1>0 DEF ConnTypes
<1>b. lNextID' \in {lNextID, lNextID + 1}
  BY DEF Conn!Next, Conn!Register, Conn!FreshId, Conn!Step, Conn!Write, Conn!Select,
         Conn!Cleanup, Conn!WakeCancelled, Conn!Cancel, Conn!Pump, Conn!ReadFrame,
         Conn!Deliver, Conn!Reply, Conn!ReadFails, Conn!Hear, Conn!Say, Conn!Ask, Conn!Exit,
         Conn!vars, Conn!conn
<1>c. 1..lNextID \subseteq 1..lNextID' /\ lNextID + 1 \notin 1..lNextID
  BY <1>a, <1>b
<1> DEFINE After(i) == \A c \in LspCalls : lId'[c] = i => c \in lHeard'
<1>d. \A i \in 1..lNextID : Asked(i) => After(i)
  BY <1>c, AskedStays DEF Asked
<1> DEFINE Stdin == \A k \in DOMAIN lStdin' :
              IF lStdin'[k].kind = "call" THEN lStdin'[k].id \in 1..lNextID' ELSE lStdin'[k].id = 0
<1> DEFINE Stdout == \A k \in DOMAIN lStdout' :
              lStdout'[k].kind = "answer" => lStdout'[k].id \in 1..lNextID' /\ After(lStdout'[k].id)
<1> DEFINE Chan == \A i \in Conn!Ids : lChan'[i] # Conn!Empty => lChan'[i].id = i /\ After(i)
<1> DEFINE Outcome == \A c \in LspCalls : lOutcome'[c] # "crossed"
                                     /\ (lOutcome'[c] \in {"answer", "busy"} => c \in lHeard')
<1> HIDE DEF After
<1>e. \A c \in LspCalls : lId[c] # 0 => lId[c] \in 1..lNextID
  BY <1>0 DEF ConnTypes
<1>1. Stdin
  <2>0. \A k \in DOMAIN lStdin :
          IF lStdin[k].kind = "call" THEN lStdin[k].id \in 1..lNextID' ELSE lStdin[k].id = 0
    BY <1>0, <1>c DEF ConnHeard
  <2>1. ASSUME NEW f \in ConnFrames, lStdin' = Append(lStdin, f),
               IF f.kind = "call" THEN f.id \in 1..lNextID' ELSE f.id = 0
        PROVE  Stdin
    <3> SUFFICES ASSUME NEW k \in DOMAIN Append(lStdin, f)
                 PROVE  LET g == Append(lStdin, f)[k]
                        IN IF g.kind = "call" THEN g.id \in 1..lNextID' ELSE g.id = 0
      BY <2>1
    <3> QED
      BY <1>a, <2>0, <2>1, AppendKeeps
  <2>2. ASSUME NEW c \in LspCalls, Conn!Write(c) PROVE Stdin
    <3>1. lId[c] \in 1..lNextID'
      BY <1>0, <1>c, <1>e, <2>2 DEF Conn!Write, ConnIds
    <3>2. Conn!Frame("call", lId[c], FALSE) \in ConnFrames /\
            Conn!Frame("call", lId[c], FALSE).kind = "call"
          /\ Conn!Frame("call", lId[c], FALSE).id = lId[c]
      BY <1>0 DEF Conn!Frame, ConnFrames, ConnTypes
    <3>3. lStdin' = Append(lStdin, Conn!Frame("call", lId[c], FALSE)) \/ lStdin' = lStdin
      BY <2>2 DEF Conn!Write
    <3> QED
      BY <2>0, <2>1, <3>1, <3>2, <3>3
  <2>3. CASE Conn!Reply
    <3>1. lStdin' = Append(lStdin, Conn!Frame("reply", Conn!Nobody, FALSE)) \/ lStdin' = lStdin
      BY <2>3 DEF Conn!Reply
    <3>2. /\ Conn!Frame("reply", Conn!Nobody, FALSE) \in ConnFrames
          /\ Conn!Frame("reply", Conn!Nobody, FALSE).kind # "call" /\
               Conn!Frame("reply", Conn!Nobody, FALSE).id = 0
      BY DEF Conn!Frame, Conn!Nobody, ConnFrames
    <3> QED
      BY <2>0, <2>1, <3>1, <3>2
  <2>4. CASE Conn!Hear
    <3>1. lStdin # <<>> /\ lStdin' = Tail(lStdin)
      BY <2>4 DEF Conn!Hear
    <3> QED
      BY <1>a, <2>0, <3>1, TailKeeps
  <2>5. ASSUME \/ \E c \in LspCalls : Conn!Register(c) \/ Conn!Select(c) \/ Conn!Cleanup(c) \/
                    Conn!WakeCancelled(c) \/ Conn!Cancel(c)
               \/ Conn!ReadFrame \/ Conn!Deliver \/ Conn!ReadFails \/ Conn!Say \/ Conn!Ask \/
                    Conn!Exit \/ UNCHANGED Conn!vars
        PROVE  lStdin' = lStdin
    BY <2>5
       DEF Conn!Register, Conn!Select, Conn!Cleanup, Conn!WakeCancelled, Conn!Cancel,
           Conn!ReadFrame, Conn!Deliver, Conn!ReadFails, Conn!Say, Conn!Ask, Conn!Exit,
           Conn!vars, Conn!child
  <2> QED
    BY <2>0, <2>2, <2>3, <2>4, <2>5 DEF Conn!Next, Conn!Step, Conn!Pump
<1>2. \A i \in owed' : After(i)
  <2>0. \A i \in owed : After(i)
    BY <1>0, <1>a, <1>d DEF ConnHeard
  <2>1. CASE Conn!Hear
    <3>1. lStdin # <<>> /\ owed' = owed \cup {f.id : f \in {g \in {lStdin[1]} : g.kind = "call"}}
          /\ lHeard' = lHeard \cup {c \in LspCalls : lId[c] = lStdin[1].id /\
               lId[c] # Conn!Nobody} /\ UNCHANGED lId
      BY <2>1 DEF Conn!Hear, Conn!calls
    <3>2. lStdin[1].kind = "call" => lStdin[1].id \in 1..lNextID
      BY <1>0, <1>a, <3>1, TailKeeps DEF ConnHeard
    <3>3. lStdin[1].kind = "call" => After(lStdin[1].id)
      BY <3>1, <3>2 DEF Conn!Nobody, After
    <3> QED
      BY <2>0, <3>1, <3>3
  <2>2. ASSUME ~Conn!Hear PROVE owed' \subseteq owed
    BY <2>2
       DEF Conn!Next, Conn!Register, Conn!Step, Conn!Write, Conn!Select, Conn!Cleanup,
           Conn!WakeCancelled, Conn!Cancel, Conn!Pump, Conn!ReadFrame, Conn!Deliver,
           Conn!Reply, Conn!ReadFails, Conn!Say, Conn!Ask, Conn!Exit, Conn!vars, Conn!child
  <2> QED
    BY <2>0, <2>1, <2>2
<1>3. Stdout
  <2>0. \A k \in DOMAIN lStdout :
          lStdout[k].kind = "answer" => lStdout[k].id \in 1..lNextID' /\ After(lStdout[k].id)
    BY <1>0, <1>c, <1>d DEF ConnHeard
  <2>1. CASE Conn!Say
    <3>1. PICK i \in owed, busy \in BOOLEAN : lStdout' = Append(lStdout, Conn!Frame("answer", i, busy))
      BY <2>1 DEF Conn!Say
    <3>2. i \in 1..lNextID' /\ After(i)
      BY <1>0, <1>a, <1>c, <1>d DEF ConnHeard
    <3>3. Conn!Frame("answer", i, busy) \in ConnFrames /\ Conn!Frame("answer", i, busy).id = i
      BY <1>a DEF Conn!Frame, ConnFrames
    <3> QED
      BY <1>a, <2>0, <3>1, <3>2, <3>3, AppendKeeps
  <2>2. CASE Conn!Ask
    <3>1. PICK k \in {"ask", "garbled"} : lStdout' = Append(lStdout, Conn!Frame(k, Conn!Nobody, FALSE))
      BY <2>2 DEF Conn!Ask
    <3>2. Conn!Frame(k, Conn!Nobody, FALSE) \in ConnFrames /\
            Conn!Frame(k, Conn!Nobody, FALSE).kind # "answer"
      BY DEF Conn!Frame, Conn!Nobody, ConnFrames
    <3>3. PICK f \in ConnFrames : f.kind # "answer" /\ lStdout' = Append(lStdout, f)
      BY <3>1, <3>2
    <3> QED
      BY <1>a, <2>0, <3>3, AppendKeeps
  <2>3. CASE Conn!ReadFrame
    <3>1. lStdout # <<>> /\ lStdout' = Tail(lStdout)
      BY <2>3 DEF Conn!ReadFrame
    <3> QED
      BY <1>a, <2>0, <3>1, TailKeeps
  <2>4. ASSUME ~Conn!Say, ~Conn!Ask, ~Conn!ReadFrame PROVE lStdout' = lStdout
    BY <2>4
       DEF Conn!Next, Conn!Register, Conn!Step, Conn!Write, Conn!Select, Conn!Cleanup,
           Conn!WakeCancelled, Conn!Cancel, Conn!Pump, Conn!Deliver, Conn!Reply,
           Conn!ReadFails, Conn!Hear, Conn!Exit, Conn!vars, Conn!child
  <2> QED
    BY <2>0, <2>1, <2>2, <2>3, <2>4
<1>4. lReader' = "deliver" => frame'.id \in 1..lNextID' /\ After(frame'.id)
  <2>1. CASE Conn!ReadFrame
    <3>1. lStdout # <<>> /\ (lReader' = "deliver" => frame' = lStdout[1] /\
            lStdout[1].kind = "answer")
      BY <2>1 DEF Conn!ReadFrame, Conn!pump
    <3>2. lStdout[1].kind = "answer" => lStdout[1].id \in 1..lNextID /\ Asked(lStdout[1].id)
      BY <1>0, <1>a, <3>1, TailKeeps DEF ConnHeard
    <3> QED
      BY <1>c, <1>d, <3>1, <3>2
  <2>2. ASSUME ~Conn!ReadFrame
        PROVE  lReader' = "deliver" => lReader = "deliver" /\ frame' = frame
    BY <2>2
       DEF Conn!Next, Conn!Register, Conn!Step, Conn!Write, Conn!Select, Conn!Cleanup,
           Conn!WakeCancelled, Conn!Cancel, Conn!Pump, Conn!Deliver, Conn!Reply,
           Conn!ReadFails, Conn!Hear, Conn!Say, Conn!Ask, Conn!Exit, Conn!vars, Conn!pump
  <2>3. lReader = "deliver" => frame.id \in 1..lNextID' /\ After(frame.id)
    <3>1. lReader = "deliver" => frame.id \in 1..lNextID /\ Asked(frame.id)
      BY <1>0 DEF ConnHeard
    <3> QED
      BY <1>c, <1>d, <3>1
  <2> QED
    BY <2>1, <2>2, <2>3
<1>5. Chan
  <2>0. lChan \in [Conn!Ids -> [id : Nat, busy : BOOLEAN]] /\
          \A i \in Conn!Ids : lChan[i] # Conn!Empty => lChan[i].id = i /\ Asked(i)
    BY <1>0 DEF ConnTypes, ConnHeard
  <2>1. \A i \in Conn!Ids : i # lNextID + 1 \/ lNextID' = lNextID => (Asked(i) => After(i))
    BY AskedStays DEF Asked, After
  <2>2. ASSUME NEW c \in LspCalls, Conn!Register(c) PROVE Chan
    <3>1. lChan' = [lChan EXCEPT ![lNextID + 1] = Conn!Empty]
      BY <2>2 DEF Conn!Register, Conn!FreshId
    <3>2. \A i \in Conn!Ids : lChan'[i] # Conn!Empty => i # lNextID + 1 /\ lChan'[i] = lChan[i]
      BY <2>0, <3>1
    <3> QED
      BY <2>0, <2>1, <3>2
  <2>3. ASSUME NEW c \in LspCalls, Conn!Select(c) PROVE Chan
    <3>1. lNextID' = lNextID /\ (lChan' = lChan \/ lChan' = [lChan EXCEPT ![lId[c]] = Conn!Empty])
      BY <2>3 DEF Conn!Select
    <3>2. \A i \in Conn!Ids : lChan'[i] # Conn!Empty => lChan'[i] = lChan[i]
      BY <2>0, <3>1
    <3> QED
      BY <2>0, <2>1, <3>1, <3>2
  <2>4. CASE Conn!Deliver
    <3>1. lNextID' = lNextID /\ lChan' = [lChan EXCEPT ![frame.id] = [id |-> frame.id, busy |-> frame.busy]]
          /\ lReader = "deliver"
      BY <2>4 DEF Conn!Deliver
    <3>2. After(frame.id)
      BY <1>0, <1>d, <3>1 DEF ConnHeard
    <3>3. \A i \in Conn!Ids : lChan'[i] = IF i = frame.id THEN [id |-> frame.id, busy |-> frame.busy] ELSE lChan[i]
      BY <2>0, <3>1
    <3> QED
      BY <2>0, <2>1, <3>1, <3>2, <3>3
  <2>5. ASSUME \/ \E c \in LspCalls : Conn!Write(c) \/ Conn!Cleanup(c) \/ Conn!WakeCancelled(c) \/
                    Conn!Cancel(c)
               \/ Conn!ReadFrame \/ Conn!Reply \/ Conn!ReadFails \/ Conn!Hear \/ Conn!Say \/
                    Conn!Ask \/ Conn!Exit \/ UNCHANGED Conn!vars
        PROVE  lChan' = lChan /\ lNextID' = lNextID
    BY <2>5
       DEF Conn!Write, Conn!Cleanup, Conn!WakeCancelled, Conn!Cancel, Conn!ReadFrame,
           Conn!Reply, Conn!ReadFails, Conn!Hear, Conn!Say, Conn!Ask, Conn!Exit, Conn!vars,
           Conn!conn
  <2>6. ASSUME lChan' = lChan /\ lNextID' = lNextID PROVE Chan
    BY <2>0, <2>1, <2>6
  <2> QED
    BY <2>2, <2>3, <2>4, <2>5, <2>6 DEF Conn!Next, Conn!Step, Conn!Pump
<1>6. Outcome
  <2>0. \A c \in LspCalls :
          lOutcome[c] # "crossed" /\ (lOutcome[c] \in {"answer", "busy"} => c \in lHeard)
    BY <1>0 DEF ConnHeard
  <2>1. lHeard \subseteq lHeard' /\ lOutcome \in [LspCalls -> ConnOutcomes]
    <3>1. lHeard \subseteq lHeard'
      BY DEF Conn!Next, Conn!Register, Conn!Step, Conn!Write, Conn!Select, Conn!Cleanup,
             Conn!WakeCancelled, Conn!Cancel, Conn!Pump, Conn!ReadFrame, Conn!Deliver,
             Conn!Reply, Conn!ReadFails, Conn!Hear, Conn!Say, Conn!Ask, Conn!Exit, Conn!vars,
             Conn!child
    <3> QED
      BY <1>0, <3>1 DEF ConnTypes
  <2>2. ASSUME NEW c \in LspCalls, NEW how \in ConnOutcomes, lOutcome' = [lOutcome EXCEPT ![c] = how],
               how # "crossed", how \in {"answer", "busy"} => c \in lHeard
        PROVE  Outcome
    BY <2>0, <2>1, <2>2
  <2>3. ASSUME NEW c \in LspCalls, Conn!Select(c) PROVE Outcome
    <3>1. lChan[lId[c]] # Conn!Empty => lChan[lId[c]].id = lId[c] /\ c \in lHeard
      <4>1. lId[c] \in Conn!Ids
        BY <1>0, <1>e, <2>3, IdsGiven DEF Conn!Select, ConnIds
      <4> QED
        BY <1>0, <4>1 DEF ConnHeard, Asked
    <3>2. \/ lOutcome' = [lOutcome EXCEPT ![c] = "cancelled"]
          \/ lOutcome' = [lOutcome EXCEPT ![c] = "closed"]
          \/ /\ lChan[lId[c]] # Conn!Empty
             /\ \/ lOutcome' = [lOutcome EXCEPT ![c] = "busy"]
                \/ lOutcome' = [lOutcome EXCEPT ![c] = "answer"]
      BY <2>3, <3>1 DEF Conn!Select, Conn!Ends
    <3> QED
      BY <2>2, <3>1, <3>2 DEF ConnOutcomes
  <2>4. ASSUME NEW c \in LspCalls, Conn!Write(c) \/ Conn!WakeCancelled(c) PROVE Outcome
    <3>1. \/ lOutcome' = lOutcome
          \/ lOutcome' = [lOutcome EXCEPT ![c] = "write error"]
          \/ lOutcome' = [lOutcome EXCEPT ![c] = "cancelled"]
      BY <2>4 DEF Conn!Write, Conn!WakeCancelled, Conn!Ends
    <3> QED
      BY <2>0, <2>1, <2>2, <3>1 DEF ConnOutcomes
  <2>5. ASSUME \/ \E c \in LspCalls : Conn!Register(c) \/ Conn!Cleanup(c) \/ Conn!Cancel(c)
               \/ Conn!Pump \/ Conn!Hear \/ Conn!Say \/ Conn!Ask \/ Conn!Exit \/ UNCHANGED Conn!vars
        PROVE  lOutcome' = lOutcome
    BY <2>5
       DEF Conn!Register, Conn!Cleanup, Conn!Cancel, Conn!Pump, Conn!ReadFrame, Conn!Deliver,
           Conn!Reply, Conn!ReadFails, Conn!Hear, Conn!Say, Conn!Ask, Conn!Exit, Conn!vars,
           Conn!calls
  <2> QED
    BY <2>0, <2>1, <2>3, <2>4, <2>5 DEF Conn!Next, Conn!Step
<1> QED
  BY <1>1, <1>2, <1>3, <1>4, <1>5, <1>6 DEF ConnHeard, Asked, After

LEMMA ConnHolds == Conn!Init /\ [][Conn!Next]_(Conn!vars) => []ConnInv
<1>1. ConnInv /\ [Conn!Next]_(Conn!vars) => ConnInv'
  BY StepConnTypes, StepConnIds, StepConnHeard DEF ConnInv
<1> QED
  BY ConnInit, <1>1, PTL

LEMMA ConnIsTidy == ConnInv => Conn!OwnAnswer /\ Conn!PendingIsTidy
BY DEF ConnInv, ConnIds, ConnTidy, ConnHeard, Conn!OwnAnswer, Conn!PendingIsTidy, Listed

ConnPhase == [c \in LspCalls |-> Conn!Phase(c)]

LEMMA ConnPromiseStep == ConnInv /\ [Conn!Next]_(Conn!vars) => [Conn!Promise!Next]_(Conn!Promise!vars)
<1> SUFFICES ASSUME ConnInv, [Conn!Next]_(Conn!vars)
             PROVE  Conn!Promise!Next \/ UNCHANGED <<ConnPhase, lHeard>>
  BY DEF Conn!Promise!vars, ConnPhase
<1>0. /\ lPc \in [LspCalls -> ConnLabels] /\ lOutcome \in [LspCalls -> ConnOutcomes] /\
           lId \in [LspCalls -> 0..lNextID]
      /\ lHeard \subseteq LspCalls /\ ConnIds /\ ConnHeard
  BY DEF ConnInv, ConnTypes
<1>a. ASSUME NEW c \in LspCalls, \A d \in LspCalls \ {c} : lPc'[d] = lPc[d] /\
               lOutcome'[d] = lOutcome[d]
      PROVE  ConnPhase' = [ConnPhase EXCEPT ![c] = Conn!Phase(c)']
  BY <1>a DEF ConnPhase, Conn!Phase
<1>1. ASSUME NEW c \in LspCalls, Conn!Register(c)
      PROVE  Conn!Promise!Next \/ UNCHANGED <<ConnPhase, lHeard>>
  <2>1. /\ lPc[c] \in {"idle", "sleep"} /\ lPc' = [lPc EXCEPT ![c] = "write"]
        /\ UNCHANGED <<lOutcome, lHeard>>
    BY <1>1 DEF Conn!Register, Conn!child
  <2>2. Conn!Phase(c)' = "open" /\ (lPc[c] = "idle" => Conn!Phase(c) = "idle") /\
          (lPc[c] # "idle" => Conn!Phase(c) = "open")
    BY <1>0, <2>1 DEF Conn!Phase
  <2>3. ConnPhase' = [ConnPhase EXCEPT ![c] = "open"]
    BY <1>0, <1>a, <2>1, <2>2
  <2>4. CASE lPc[c] = "idle"
    BY <2>1, <2>2, <2>3, <2>4 DEF Conn!Promise!Next, Conn!Promise!Open, ConnPhase
  <2>5. CASE lPc[c] # "idle"
    BY <2>1, <2>2, <2>3, <2>5 DEF ConnPhase
  <2> QED
    BY <2>4, <2>5
<1>2. ASSUME NEW c \in LspCalls, lPc[c] \in {"write", "wait", "cleanup", "sleep"},
               lPc'[c] # "done", lPc'[c] # "idle",
             \A d \in LspCalls \ {c} : lPc'[d] = lPc[d] /\ lOutcome'[d] = lOutcome[d],
               UNCHANGED lHeard
      PROVE  UNCHANGED <<ConnPhase, lHeard>>
  <2>1. Conn!Phase(c)' = "open" /\ Conn!Phase(c) = "open"
    BY <1>2 DEF Conn!Phase
  <2> QED
    BY <1>2, <1>a, <2>1 DEF ConnPhase
<1>3. ASSUME NEW c \in LspCalls, Conn!Write(c) \/ Conn!Select(c)
      PROVE  UNCHANGED <<ConnPhase, lHeard>>
  <2>1. /\ lPc[c] \in {"write", "wait"} /\ UNCHANGED lHeard
        /\ lPc' = [lPc EXCEPT ![c] = "wait"] \/ lPc' = [lPc EXCEPT ![c] = "cleanup"]
        /\ lOutcome' = lOutcome \/ \E how \in ConnOutcomes : lOutcome' = [lOutcome EXCEPT ![c] = how]
    BY <1>3 DEF Conn!Write, Conn!Select, Conn!Ends, Conn!child, ConnOutcomes
  <2> QED
    BY <1>0, <1>2, <2>1
<1>b. ASSUME NEW c \in LspCalls, Conn!Phase(c) = "open", UNCHANGED lHeard,
               lPc' = [lPc EXCEPT ![c] = "done"],
             \A d \in LspCalls \ {c} : lOutcome'[d] = lOutcome[d],
               lOutcome'[c] \in {"answer", "busy"} => c \in lHeard
      PROVE  Conn!Promise!Next
  <2>1. ConnPhase' = [ConnPhase EXCEPT ![c] = Conn!Phase(c)']
    BY <1>0, <1>a, <1>b
  <2>2. Conn!Phase(c)' = "failed" \/ (Conn!Phase(c)' = "answered" /\ c \in lHeard)
    BY <1>0, <1>b DEF Conn!Phase
  <2>3. Conn!Promise!Answer(c) \/ Conn!Promise!Fail(c)
    BY <1>b, <2>1, <2>2 DEF Conn!Promise!Answer, Conn!Promise!Fail, ConnPhase
  <2> QED
    BY <2>3 DEF Conn!Promise!Next
<1>4. ASSUME NEW c \in LspCalls, Conn!Cleanup(c)
      PROVE  Conn!Promise!Next \/ UNCHANGED <<ConnPhase, lHeard>>
  <2>1. /\ lPc[c] = "cleanup" /\ UNCHANGED <<lOutcome, lHeard>>
        /\ lPc' = [lPc EXCEPT ![c] = "sleep"] \/ lPc' = [lPc EXCEPT ![c] = "done"]
    BY <1>4 DEF Conn!Cleanup, Conn!child
  <2>2. lOutcome[c] \in {"answer", "busy"} => c \in lHeard
    BY <1>0 DEF ConnHeard
  <2> QED
    BY <1>0, <1>2, <1>b, <2>1, <2>2 DEF Conn!Phase
<1>5. ASSUME NEW c \in LspCalls, Conn!WakeCancelled(c) PROVE Conn!Promise!Next
  <2>1. /\ lPc[c] = "sleep" /\ UNCHANGED lHeard /\ lPc' = [lPc EXCEPT ![c] = "done"]
        /\ lOutcome' = [lOutcome EXCEPT ![c] = "cancelled"]
    BY <1>5 DEF Conn!WakeCancelled, Conn!child
  <2> QED
    BY <1>0, <1>b, <2>1 DEF Conn!Phase
<1>6. CASE Conn!Hear
  <2>1. lHeard' = lHeard \cup {c \in LspCalls : lId[c] = lStdin[1].id /\ lId[c] # Conn!Nobody} /\
          ConnPhase' = ConnPhase
    BY <1>6 DEF Conn!Hear, Conn!calls, ConnPhase, Conn!Phase
  <2>2. CASE lHeard' = lHeard
    BY <2>1, <2>2
  <2>3. CASE lHeard' # lHeard
    <3>1. PICK c \in LspCalls : lId[c] = lStdin[1].id /\ lId[c] # Conn!Nobody /\ c \notin lHeard
      BY <2>1, <2>3
    <3>2. \A d \in LspCalls : lId[d] = lStdin[1].id => d = c
      BY <1>0, <3>1 DEF ConnIds, Conn!Nobody
    <3>3. lHeard' = lHeard \cup {c}
      BY <2>1, <3>1, <3>2
    <3>4. Conn!Phase(c) \in {"open", "failed"}
      BY <1>0, <3>1 DEF Conn!Phase, ConnIds, ConnHeard, Conn!Nobody
    <3>5. Conn!Promise!Hear(c)
      BY <2>1, <3>1, <3>3, <3>4 DEF Conn!Promise!Hear, ConnPhase
    <3> QED
      BY <3>5 DEF Conn!Promise!Next
  <2> QED
    BY <2>2, <2>3
<1>7. ASSUME \/ \E c \in LspCalls : Conn!Cancel(c)
             \/ Conn!Pump \/ Conn!Say \/ Conn!Ask \/ Conn!Exit \/ UNCHANGED Conn!vars
      PROVE  UNCHANGED <<ConnPhase, lHeard>>
  <2>1. UNCHANGED <<lPc, lOutcome, lHeard>>
    BY <1>7
       DEF Conn!Cancel, Conn!Pump, Conn!ReadFrame, Conn!Deliver, Conn!Reply, Conn!ReadFails,
           Conn!Say, Conn!Ask, Conn!Exit, Conn!vars, Conn!calls, Conn!child
  <2> QED
    BY <2>1 DEF ConnPhase, Conn!Phase
<1> QED
  BY <1>1, <1>3, <1>4, <1>5, <1>6, <1>7 DEF Conn!Next, Conn!Step

LEMMA ConnKeepsPromise == Conn!Init /\ [][Conn!Next]_(Conn!vars) => Conn!ImplementsRpc
<1>1. Conn!Init => Conn!Promise!Init
  BY DEF Conn!Init, Conn!Promise!Init, Conn!Phase
<1> QED
  BY ConnHolds, <1>1, ConnPromiseStep, PTL DEF Conn!ImplementsRpc, Conn!Promise!Spec

-----------------------------------------------------------------------------
(* The manager of the language servers (lsp/manager.go, client.go).        *)

QueryLabels ==
  {"idle", "gate", "resolve", "spawn", "register", "stat", "look", "read", "send", "record",
   "want", "wait", "done"}
Using == {"stat", "look", "read", "send", "record", "want", "wait"}
Document == [version : Nat, edit : Nat]
ReportOf == [server : Servers!Servers, doc : Document]

(* A server is its number in the order of starts; those not started yet    *)
(* hold nothing, and nothing has been sent to them.                        *)
ServersStarted ==
  /\ spawned \in 0..MaxSpawns /\ clients \in 0..spawned /\ alive \subseteq 1..spawned
  /\ starting \in BOOLEAN /\ sClosing \in {"no", "stopping", "done"}
  /\ sPc \in [Queries -> QueryLabels] /\ use \in [Queries -> 0..spawned]
  /\ \A q \in Queries : sPc[q] \in Using => use[q] # Servers!NoServer
QueriesTyped ==
  /\ fi \in [Queries -> Nat] /\ seen \in [Queries -> Document] /\ text \in [Queries -> Nat]
  /\ want \in [Queries -> Nat] /\ result \in [Queries -> {"none", "error", "current", "timed out"}]
DocsTyped ==
  /\ disk \in Nat /\ overlap \in BOOLEAN
  /\ docs \in [Servers!Servers -> Document] /\ held \in [Servers!Servers -> Document]
  /\ diags \in [Servers!Servers -> Document]
  /\ published \in Seq(ReportOf)
  /\ \A s \in Servers!Servers :
       s > spawned => docs[s] = Servers!NotOpen /\ held[s] = Servers!NotOpen

(* One query holds the gate, and while Close has not begun, the servers    *)
(* that run are the client's and the one about to be registered.           *)
Starter(q) == sPc[q] \in {"spawn", "register"}
ServersGate ==
  /\ \A p, q \in Queries : Starter(p) /\ Starter(q) => p = q
  /\ starting <=> \E q \in Queries : Starter(q)
  /\ \A q \in Queries : sPc[q] = "gate" => starting
  /\ sClosing = "no" /\ starting => clients = Servers!NoServer
  /\ sClosing = "no" => \A s \in alive :
       s = clients \/ \E q \in Queries : sPc[q] = "register" /\ use[q] = s
  /\ sClosing = "done" => alive = {}

(* Queries that synchronise one at a time stat the file in that order, and *)
(* what one of them has looked at is still there when it records.          *)
QueriesSync ==
  /\ \A q \in Queries : fi[q] <= disk
  /\ \A q \in Queries : sPc[q] \in {"send", "record"} => text[q] >= fi[q]
  /\ ~overlap => \A p \in Queries : sPc[p] \in Servers!Syncing =>
       /\ \A q \in Queries \ {p} : sPc[q] \notin Servers!Syncing
       /\ \A q \in Queries : fi[q] <= fi[p]
       /\ sPc[p] \in {"read", "send", "record"} => seen[p] = docs[use[p]]

(* What a server holds or has reported is never ahead of the document sent *)
(* to it but for the text whose sending is not recorded yet.               *)
Reports(s) ==
  {held[s], diags[s]} \cup
  {published[k].doc : k \in {j \in DOMAIN published : published[j].server = s}}
Recording(q, s) == sPc[q] = "record" /\ use[q] = s
Reported(s, d) ==
  /\ d.version = docs[s].version => d.edit >= docs[s].edit
  /\ (\A q \in Queries : ~Recording(q, s)) => d.version <= docs[s].version
  /\ \A q \in Queries : Recording(q, s) =>
       d.version <= docs[s].version + 1 /\ (d.version > docs[s].version => d.edit >= fi[q])
HeldNow(s) ==
  /\ (\A q \in Queries : ~Recording(q, s)) => held[s].version = docs[s].version
  /\ \A q \in Queries : Recording(q, s) => held[s].version = docs[s].version + 1
Awaits(q, d) == d.version >= want[q] => d.edit >= fi[q]
ServersReport ==
  ~overlap =>
    /\ \A s \in Servers!Servers : \A d \in Reports(s) : Reported(s, d)
    /\ \A s \in alive : HeldNow(s)
    /\ \A q \in Queries : sPc[q] = "want" => docs[use[q]].edit >= fi[q]
    /\ \A q \in Queries, s \in Servers!Servers :
         sPc[q] = "wait" /\ use[q] = s => \A d \in Reports(s) : Awaits(q, d)
    /\ \A q \in Queries : result[q] = "current" => sPc[q] = "done" /\ text[q] >= fi[q]

ServersTypes == ServersStarted /\ QueriesTyped /\ DocsTyped
ServersInv == ServersTypes /\ ServersGate /\ QueriesSync /\ ServersReport

-----------------------------------------------------------------------------
LEMMA ServersInit == Servers!Init => ServersInv
<1> SUFFICES ASSUME Servers!Init PROVE ServersInv
  OBVIOUS
<1>1. Servers!NotOpen \in Document /\ Servers!NotOpen.version = 0 /\ Servers!NotOpen.edit = 0
  BY DEF Servers!NotOpen, Document
<1>2. ServersTypes
  <2>1. ServersStarted
    <3>1. 0 \in 0..MaxSpawns /\ 0 \in 0..0
      BY RpcAssumption
    <3>2. \A q \in Queries : sPc[q] = "idle"
      BY DEF Servers!Init
    <3> QED
      BY <3>1, <3>2 DEF Servers!Init, ServersStarted, QueryLabels, Using, Servers!NoServer
  <2>2. QueriesTyped
    BY <1>1 DEF Servers!Init, QueriesTyped
  <2>3. DocsTyped
    <3>1. <<>> \in Seq(ReportOf)
      OBVIOUS
    <3> QED
      BY <1>1, <3>1 DEF Servers!Init, DocsTyped
  <2> QED
    BY <2>1, <2>2, <2>3 DEF ServersTypes
<1>3. ServersGate /\ QueriesSync
  BY DEF Servers!Init, ServersGate, QueriesSync, Starter, Servers!Syncing
<1>4. ServersReport
  <2>1. ASSUME NEW s \in Servers!Servers, NEW d \in Reports(s) PROVE d = Servers!NotOpen
    BY <2>1 DEF Servers!Init, Reports
  <2>2. \A s \in Servers!Servers : docs[s] = Servers!NotOpen /\ held[s] = Servers!NotOpen
    BY DEF Servers!Init
  <2> QED
    BY <1>1, <2>1, <2>2 DEF Servers!Init, ServersReport, Reported, Recording
<1> QED
  BY <1>2, <1>3, <1>4 DEF ServersInv

LEMMA UseStarted ==
  ASSUME ServersTypes
  PROVE  /\ spawned \in Nat /\ 1..spawned \subseteq Servers!Servers /\ alive \subseteq Servers!Servers
         /\ \A q \in Queries : sPc[q] \in Using => use[q] \in 1..spawned /\ use[q] \in Servers!Servers
<1>1. /\ spawned \in 0..MaxSpawns /\ alive \subseteq 1..spawned /\ use \in [Queries -> 0..spawned]
      /\ \A q \in Queries : sPc[q] \in Using => use[q] # Servers!NoServer
  BY DEF ServersTypes, ServersStarted
<1>2. spawned \in Nat /\ 1..spawned \subseteq Servers!Servers
  BY <1>1, RpcAssumption DEF Servers!Servers
<1>3. ASSUME NEW q \in Queries, sPc[q] \in Using PROVE use[q] \in 1..spawned
  <2>1. use[q] \in 0..spawned /\ use[q] # 0
    BY <1>1, <1>3 DEF Servers!NoServer
  <2> QED
    BY <1>2, <2>1
<1> QED
  BY <1>1, <1>2, <1>3

LEMMA StepServersStarted == ServersInv /\ [Servers!Next]_(Servers!vars) => ServersStarted'
<1> SUFFICES ASSUME ServersInv, [Servers!Next]_(Servers!vars) PROVE ServersStarted'
  OBVIOUS
<1>t. /\ spawned \in 0..MaxSpawns /\ clients \in 0..spawned /\ alive \subseteq 1..spawned
      /\ starting \in BOOLEAN /\ sClosing \in {"no", "stopping", "done"}
      /\ sPc \in [Queries -> QueryLabels] /\ use \in [Queries -> 0..spawned]
      /\ \A q \in Queries : sPc[q] \in Using => use[q] # Servers!NoServer
  BY DEF ServersInv, ServersTypes, ServersStarted
<1>1. ASSUME NEW q \in Queries, Servers!Resolve(q) PROVE ServersStarted'
  BY <1>t, <1>1 DEF Servers!Resolve, Servers!Goto, ServersStarted, QueryLabels, Using
<1>2. ASSUME NEW q \in Queries, Servers!Spawn(q) PROVE ServersStarted'
  <2>0. sPc' = [sPc EXCEPT ![q] = "register"] /\ UNCHANGED <<clients, starting, sClosing>>
    BY <1>2 DEF Servers!Spawn, Servers!Goto
  <2>1. CASE spawned < MaxSpawns /\ spawned' = spawned + 1 /\ alive' = alive \cup {spawned + 1}
             /\ use' = [use EXCEPT ![q] = spawned + 1]
    <3>1. spawned + 1 \in 1..(spawned + 1) /\ spawned + 1 \in 0..(spawned + 1) /\
            spawned + 1 \in 0..MaxSpawns
          /\ clients \in 0..(spawned + 1)
      BY <1>t, <2>1, RpcAssumption
    <3>2. alive' \subseteq 1..(spawned + 1) /\ use \in [Queries -> 0..(spawned + 1)]
      BY <1>t, <2>1
    <3> QED
      BY <1>t, <2>0, <2>1, <3>1, <3>2 DEF ServersStarted, QueryLabels, Using
  <2>2. CASE use' = [use EXCEPT ![q] = Servers!NoServer] /\ UNCHANGED <<alive, spawned>>
    BY <1>t, <2>0, <2>2 DEF ServersStarted, QueryLabels, Using, Servers!NoServer
  <2> QED
    BY <1>2, <2>1, <2>2 DEF Servers!Spawn
<1>3. ASSUME NEW q \in Queries, Servers!Register(q) PROVE ServersStarted'
  BY <1>t, <1>3 DEF Servers!Register, ServersStarted, QueryLabels, Using
<1>4. ASSUME NEW q \in Queries,
             Servers!Stat(q) \/ Servers!Look(q) \/ Servers!Read(q) \/ Servers!Send(q) \/
               Servers!Record(q) \/ Servers!Want(q) \/ Servers!Wait(q)
      PROVE  ServersStarted'
  <2>1. sPc[q] \in Using /\ UNCHANGED <<spawned, clients, alive, starting, sClosing, use>>
    BY <1>4
       DEF Servers!Stat, Servers!Look, Servers!Read, Servers!Send, Servers!Record,
           Servers!Want, Servers!Wait, Servers!manager, Using
  <2>2. \E l \in QueryLabels : sPc' = [sPc EXCEPT ![q] = l]
    BY <1>4
       DEF Servers!Stat, Servers!Look, Servers!Read, Servers!Send, Servers!Record,
           Servers!Want, Servers!Wait, Servers!Goto, QueryLabels
  <2> QED
    BY <1>t, <2>1, <2>2 DEF ServersStarted
<1>5. CASE Servers!Crash \/ Servers!CloseTakes \/ Servers!CloseCancels
  <2>1. UNCHANGED <<spawned, starting, sPc, use>> /\ alive' \subseteq alive
    BY <1>5
       DEF Servers!Crash, Servers!CloseTakes, Servers!CloseCancels, Servers!KillAll,
           Servers!query
  <2>2. clients' \in {clients, Servers!NoServer} /\ sClosing' \in {sClosing, "stopping", "done"}
    BY <1>5 DEF Servers!Crash, Servers!CloseTakes, Servers!CloseCancels
  <2>3. clients' \in 0..spawned
    BY <1>t, <2>2, RpcAssumption DEF Servers!NoServer
  <2> QED
    BY <1>t, <2>1, <2>2, <2>3 DEF ServersStarted
<1>6. CASE Servers!Publish \/ Servers!HandleNotify \/ Servers!Edit \/ UNCHANGED Servers!vars
  BY <1>t, <1>6
     DEF Servers!Publish, Servers!HandleNotify, Servers!Edit, Servers!vars, Servers!manager,
         Servers!query, ServersStarted
<1> QED
  BY <1>1, <1>2, <1>3, <1>4, <1>5, <1>6 DEF Servers!Next, Servers!Step

LEMMA StepQueriesTyped == ServersInv /\ [Servers!Next]_(Servers!vars) => QueriesTyped'
<1> SUFFICES ASSUME ServersInv, [Servers!Next]_(Servers!vars) PROVE QueriesTyped'
  OBVIOUS
<1>t. /\ fi \in [Queries -> Nat] /\ seen \in [Queries -> Document] /\ text \in [Queries -> Nat]
      /\ want \in [Queries -> Nat] /\ result \in [Queries -> {"none", "error", "current", "timed out"}]
  BY DEF ServersInv, ServersTypes, QueriesTyped
<1>d. /\ disk \in Nat /\ \A s \in Servers!Servers : docs[s] \in Document /\ diags[s] \in Document
      /\ \A q \in Queries : sPc[q] \in Using => use[q] \in Servers!Servers
  BY UseStarted DEF ServersInv, ServersTypes, DocsTyped
<1>0. \A d \in Document : d.version \in Nat /\ d.edit \in Nat
  BY DEF Document
<1>1. CASE UNCHANGED <<fi, seen, text, want, result>>
  BY <1>t, <1>1 DEF QueriesTyped
<1>2. ASSUME NEW q \in Queries, Servers!Register(q) \/ Servers!Send(q) PROVE QueriesTyped'
  BY <1>t, <1>2 DEF Servers!Register, Servers!Send, QueriesTyped
<1>3. ASSUME NEW q \in Queries, Servers!Stat(q) PROVE QueriesTyped'
  BY <1>t, <1>d, <1>3 DEF Servers!Stat, QueriesTyped
<1>4. ASSUME NEW q \in Queries, Servers!Look(q) PROVE QueriesTyped'
  BY <1>t, <1>d, <1>4 DEF Servers!Look, QueriesTyped, Using
<1>5. ASSUME NEW q \in Queries, Servers!Read(q) PROVE QueriesTyped'
  BY <1>t, <1>d, <1>5 DEF Servers!Read, QueriesTyped
<1>6. ASSUME NEW q \in Queries, Servers!Want(q) PROVE QueriesTyped'
  BY <1>t, <1>d, <1>0, <1>6 DEF Servers!Want, QueriesTyped, Using
<1>7. ASSUME NEW q \in Queries, Servers!Wait(q) PROVE QueriesTyped'
  BY <1>t, <1>d, <1>0, <1>7 DEF Servers!Wait, QueriesTyped, Using
<1>8. ASSUME NEW q \in Queries, Servers!Resolve(q) \/ Servers!Spawn(q) \/ Servers!Record(q)
      PROVE  UNCHANGED <<fi, seen, text, want, result>>
  BY <1>8 DEF Servers!Resolve, Servers!Spawn, Servers!Record
<1>9. CASE Servers!Publish \/ Servers!HandleNotify \/ Servers!Edit \/ Servers!Crash \/
             Servers!CloseTakes \/ Servers!CloseCancels \/ UNCHANGED Servers!vars
  BY <1>1, <1>9
     DEF Servers!Publish, Servers!HandleNotify, Servers!Edit, Servers!Crash,
         Servers!CloseTakes, Servers!CloseCancels, Servers!vars, Servers!query
<1> QED
  BY <1>1, <1>2, <1>3, <1>4, <1>5, <1>6, <1>7, <1>8, <1>9 DEF Servers!Next, Servers!Step

LEMMA StepDocsTyped == ServersInv /\ [Servers!Next]_(Servers!vars) => DocsTyped'
<1> SUFFICES ASSUME ServersInv, [Servers!Next]_(Servers!vars) PROVE DocsTyped'
  OBVIOUS
<1>t. /\ disk \in Nat /\ overlap \in BOOLEAN
      /\ docs \in [Servers!Servers -> Document] /\ held \in [Servers!Servers -> Document] /\
           diags \in [Servers!Servers -> Document]
      /\ published \in Seq(ReportOf)
      /\ \A s \in Servers!Servers : s > spawned => docs[s] = Servers!NotOpen /\
           held[s] = Servers!NotOpen
  BY DEF ServersInv, ServersTypes, DocsTyped
<1>u. /\ \A q \in Queries : fi[q] \in Nat /\ text[q] \in Nat /\ seen[q] \in Document
      /\ \A q \in Queries : sPc[q] \in Using => use[q] \in 1..spawned
      /\ spawned \in Nat /\ alive \subseteq Servers!Servers
  BY UseStarted DEF ServersInv, ServersTypes, QueriesTyped
<1>0. \A v, e \in Nat : [version |-> v, edit |-> e] \in Document
  BY DEF Document
<1>1. CASE UNCHANGED <<Servers!document, Servers!problems, spawned>>
  BY <1>t, <1>1 DEF DocsTyped, Servers!document, Servers!problems
<1>2. ASSUME NEW q \in Queries, Servers!Spawn(q) PROVE DocsTyped'
  <2>1. UNCHANGED <<Servers!document, Servers!problems>> /\ spawned' \in {spawned, spawned + 1}
    BY <1>2 DEF Servers!Spawn
  <2>2. \A s \in Servers!Servers : s > spawned' => s > spawned
    BY <1>u, <2>1 DEF Servers!Servers
  <2> QED
    BY <1>t, <2>1, <2>2 DEF DocsTyped, Servers!document, Servers!problems
<1>3. ASSUME NEW q \in Queries, Servers!Stat(q) PROVE DocsTyped'
  BY <1>t, <1>3 DEF Servers!Stat, Servers!manager, Servers!problems, DocsTyped
<1>4. ASSUME NEW q \in Queries, Servers!Send(q) PROVE DocsTyped'
  <2>1. seen[q].version + 1 \in Nat
    BY <1>u DEF Document
  <2>2. [version |-> seen[q].version + 1, edit |-> text[q]] \in Document /\ use[q] \in 1..spawned
    BY <1>0, <1>u, <1>4, <2>1 DEF Servers!Send, Using
  <2>3. held' \in [Servers!Servers -> Document] /\
          \A s \in Servers!Servers \ {use[q]} : held'[s] = held[s]
    BY <1>t, <1>4, <2>2 DEF Servers!Send
  <2>4. \A s \in Servers!Servers : s > spawned => s # use[q]
    BY <1>u, <2>2 DEF Servers!Servers
  <2>5. UNCHANGED <<disk, overlap, docs, diags, published, spawned>>
    BY <1>4 DEF Servers!Send, Servers!manager, Servers!problems
  <2> QED
    BY <1>t, <2>3, <2>4, <2>5 DEF DocsTyped
<1>5. ASSUME NEW q \in Queries, Servers!Record(q) PROVE DocsTyped'
  <2>1. seen[q].version + 1 \in Nat
    BY <1>u DEF Document
  <2>2. [version |-> seen[q].version + 1, edit |-> fi[q]] \in Document /\ use[q] \in 1..spawned
    BY <1>0, <1>u, <1>5, <2>1 DEF Servers!Record, Using
  <2>3. docs' \in [Servers!Servers -> Document] /\
          \A s \in Servers!Servers \ {use[q]} : docs'[s] = docs[s]
    BY <1>t, <1>5, <2>2 DEF Servers!Record
  <2>4. \A s \in Servers!Servers : s > spawned => s # use[q]
    BY <1>u, <2>2 DEF Servers!Servers
  <2>5. UNCHANGED <<disk, overlap, held, diags, published, spawned>>
    BY <1>5 DEF Servers!Record, Servers!manager, Servers!problems
  <2> QED
    BY <1>t, <2>3, <2>4, <2>5 DEF DocsTyped
<1>6. CASE Servers!Publish
  <2>1. PICK s \in alive : published' = Append(published, [server |-> s, doc |-> held[s]])
    BY <1>6 DEF Servers!Publish
  <2>2. [server |-> s, doc |-> held[s]] \in ReportOf
    BY <1>t, <1>u DEF ReportOf
  <2>3. published' \in Seq(ReportOf)
    BY <1>t, <2>1, <2>2
  <2>4. UNCHANGED <<Servers!document, diags, spawned>>
    BY <1>6 DEF Servers!Publish, Servers!manager
  <2> QED
    BY <1>t, <2>3, <2>4 DEF DocsTyped, Servers!document
<1>7. CASE Servers!HandleNotify
  <2>1. published # <<>> /\ published' = Tail(published)
    BY <1>7 DEF Servers!HandleNotify
  <2>2. published[1] \in ReportOf /\ published' \in Seq(ReportOf)
    BY <1>t, <2>1
  <2>3. /\ published[1].doc \in Document
        /\ diags' = [diags EXCEPT ![published[1].server] =
                       [version |-> published[1].doc.version, edit |-> published[1].doc.edit]]
    BY <1>7, <2>2, RpcAssumption DEF Servers!HandleNotify, ReportOf
  <2>4. diags' \in [Servers!Servers -> Document]
    BY <1>t, <2>3 DEF Document
  <2>5. UNCHANGED <<Servers!document, spawned>>
    BY <1>7 DEF Servers!HandleNotify, Servers!manager
  <2> QED
    BY <1>t, <2>2, <2>4, <2>5 DEF DocsTyped, Servers!document
<1>8. CASE Servers!Edit
  BY <1>t, <1>8 DEF Servers!Edit, Servers!manager, Servers!problems, DocsTyped
<1>9. ASSUME NEW q \in Queries, Servers!Resolve(q) \/ Servers!Register(q) \/ Servers!Look(q) \/
               Servers!Read(q) \/ Servers!Want(q) \/ Servers!Wait(q)
      PROVE  UNCHANGED <<Servers!document, Servers!problems, spawned>>
  BY <1>9
     DEF Servers!Resolve, Servers!Register, Servers!Look, Servers!Read, Servers!Want,
         Servers!Wait, Servers!manager
<1>10. CASE Servers!Crash \/ Servers!CloseTakes \/ Servers!CloseCancels \/ UNCHANGED Servers!vars
  BY <1>1, <1>10
     DEF Servers!Crash, Servers!CloseTakes, Servers!CloseCancels, Servers!vars,
         Servers!manager
<1> QED
  BY <1>1, <1>2, <1>3, <1>4, <1>5, <1>6, <1>7, <1>8, <1>9, <1>10
     DEF Servers!Next, Servers!Step

LEMMA StepServersGate == ServersInv /\ [Servers!Next]_(Servers!vars) => ServersGate'
<1> SUFFICES ASSUME ServersInv, [Servers!Next]_(Servers!vars) PROVE ServersGate'
  OBVIOUS
<1>t. /\ spawned \in 0..MaxSpawns /\ clients \in 0..spawned /\ alive \subseteq 1..spawned
      /\ starting \in BOOLEAN /\ sClosing \in {"no", "stopping", "done"}
      /\ sPc \in [Queries -> QueryLabels] /\ use \in [Queries -> 0..spawned]
  BY DEF ServersInv, ServersTypes, ServersStarted
<1>g. /\ \A p, q \in Queries : Starter(p) /\ Starter(q) => p = q
      /\ starting <=> \E q \in Queries : Starter(q)
      /\ \A q \in Queries : sPc[q] = "gate" => starting
      /\ sClosing = "no" /\ starting => clients = Servers!NoServer
      /\ sClosing = "no" => \A s \in alive : s = clients \/
           \E q \in Queries : sPc[q] = "register" /\ use[q] = s
      /\ sClosing = "done" => alive = {}
  BY DEF ServersInv, ServersGate
<1>1. ASSUME NEW q \in Queries, Servers!Resolve(q) PROVE ServersGate'
  <2>0. sPc[q] \in {"idle", "resolve"} /\ UNCHANGED <<clients, sClosing, alive, spawned>>
    BY <1>1 DEF Servers!Resolve
  <2>1. \A p \in Queries \ {q} : sPc'[p] = sPc[p] /\ use'[p] = use[p]
    BY <1>t, <1>1 DEF Servers!Resolve, Servers!Goto
  <2>2. CASE starting' = starting /\ sPc'[q] \in {"stat", "gate"} /\ (sPc'[q] = "gate" => starting)
    <3>1. \A p \in Queries : Starter(p)' <=> Starter(p)
      BY <2>0, <2>1, <2>2 DEF Starter
    <3>2. \A p \in Queries : sPc[p] = "register" => sPc'[p] = "register" /\ use'[p] = use[p]
      BY <2>0, <2>1
    <3>3. \A p \in Queries : sPc'[p] = "gate" => starting'
      BY <1>g, <2>1, <2>2
    <3> QED
      BY <1>g, <2>0, <2>2, <3>1, <3>2, <3>3 DEF ServersGate
  <2>3. CASE clients = Servers!NoServer /\ ~starting /\ starting' = TRUE /\ sPc'[q] = "spawn"
    <3>1. \A p \in Queries : ~Starter(p)
      BY <1>g, <2>3
    <3>2. \A p \in Queries : Starter(p)' <=> p = q
      BY <2>1, <2>3, <3>1 DEF Starter
    <3>3. \A p \in Queries : sPc[p] # "register"
      BY <3>1 DEF Starter
    <3> QED
      BY <1>g, <2>0, <2>3, <3>2, <3>3 DEF ServersGate
  <2> QED
    BY <1>t, <1>1, <2>2, <2>3 DEF Servers!Resolve, Servers!Goto, Servers!Gated
<1>2. ASSUME NEW q \in Queries, Servers!Spawn(q) PROVE ServersGate'
  <2>0. sPc[q] = "spawn" /\ sPc' = [sPc EXCEPT ![q] = "register"] /\
          UNCHANGED <<clients, starting, sClosing>>
    BY <1>2 DEF Servers!Spawn, Servers!Goto
  <2>1. \A p \in Queries : Starter(p)' <=> Starter(p)
    BY <1>t, <2>0 DEF Starter
  <2>2. \A p \in Queries : sPc'[p] = "gate" => starting'
    BY <1>t, <1>g, <2>0
  <2>3. Starter(q) /\ sPc'[q] = "register"
    BY <1>t, <2>0 DEF Starter
  <2>4. sClosing = "no" => alive = {}
    <3>1. clients = Servers!NoServer \/ sClosing # "no"
      BY <1>g, <2>3
    <3>2. \A p \in Queries : sPc[p] # "register"
      BY <1>g, <2>0, <2>3 DEF Starter
    <3>3. Servers!NoServer \notin alive
      BY <1>t DEF Servers!NoServer
    <3> QED
      BY <1>g, <3>1, <3>2, <3>3
  <2>5. CASE sClosing # "done" /\ alive' = alive \cup {spawned + 1} /\
               use' = [use EXCEPT ![q] = spawned + 1]
    <3>1. use'[q] = spawned + 1
      BY <1>t, <2>5
    <3> QED
      BY <1>g, <2>0, <2>1, <2>2, <2>3, <2>4, <2>5, <3>1 DEF ServersGate
  <2>6. CASE alive' = alive
    BY <1>g, <2>0, <2>1, <2>2, <2>3, <2>4, <2>6 DEF ServersGate
  <2> QED
    BY <1>2, <2>5, <2>6 DEF Servers!Spawn
<1>3. ASSUME NEW q \in Queries, Servers!Register(q) PROVE ServersGate'
  <2>0. /\ sPc[q] = "register" /\ starting' = FALSE /\ UNCHANGED <<sClosing, alive, use>>
        /\ clients' = IF use[q] = Servers!NoServer THEN clients ELSE use[q]
    BY <1>3 DEF Servers!Register
  <2>1. ASSUME NEW p \in Queries PROVE ~Starter(p)' /\ sPc'[p] # "gate"
    <3>1. p # q => ~Starter(p)
      BY <1>g, <2>0 DEF Starter
    <3>2. sPc'[p] = IF p = q THEN (IF use[q] = Servers!NoServer THEN "done" ELSE "stat")
                   ELSE IF sPc[p] = "gate" THEN "resolve" ELSE sPc[p]
      BY <1>3 DEF Servers!Register
    <3> QED
      BY <3>1, <3>2 DEF Starter
  <2>2. ASSUME sClosing = "no", NEW s \in alive PROVE s = clients'
    <3>1. clients = Servers!NoServer /\ Servers!NoServer \notin alive
      BY <1>g, <1>t, <2>0, <2>2 DEF Starter, Servers!NoServer
    <3>2. s = use[q]
      <4>1. PICK p \in Queries : sPc[p] = "register" /\ use[p] = s
        BY <1>g, <2>2, <3>1
      <4> QED
        BY <1>g, <2>0, <4>1 DEF Starter
    <3> QED
      BY <2>0, <2>2, <3>1, <3>2
  <2> QED
    BY <1>g, <2>0, <2>1, <2>2 DEF ServersGate
<1>4. ASSUME NEW q \in Queries,
             Servers!Stat(q) \/ Servers!Look(q) \/ Servers!Read(q) \/ Servers!Send(q) \/
               Servers!Record(q) \/ Servers!Want(q) \/ Servers!Wait(q)
      PROVE  ServersGate'
  <2>1. sPc[q] \in Using /\ UNCHANGED <<spawned, clients, alive, starting, sClosing, use>>
    BY <1>4
       DEF Servers!Stat, Servers!Look, Servers!Read, Servers!Send, Servers!Record,
           Servers!Want, Servers!Wait, Servers!manager, Using
  <2>2. \E l \in Using \cup {"done"} : sPc' = [sPc EXCEPT ![q] = l]
    BY <1>4
       DEF Servers!Stat, Servers!Look, Servers!Read, Servers!Send, Servers!Record,
           Servers!Want, Servers!Wait, Servers!Goto, Using
  <2>3. \A p \in Queries \ {q} : sPc'[p] = sPc[p]
    BY <1>t, <2>2
  <2>4. sPc'[q] \in Using \cup {"done"}
    BY <1>t, <2>2
  <2>5. \A p \in Queries : (Starter(p)' <=> Starter(p)) /\ (sPc'[p] = "gate" => sPc[p] = "gate")
    BY <2>1, <2>3, <2>4 DEF Starter, Using
  <2>6. \A p \in Queries : sPc[p] = "register" => sPc'[p] = "register"
    BY <2>1, <2>3 DEF Using
  <2> QED
    BY <1>g, <2>1, <2>5, <2>6 DEF ServersGate
<1>5. CASE Servers!Publish \/ Servers!HandleNotify \/ Servers!Edit \/ Servers!Crash \/
             Servers!CloseTakes \/ Servers!CloseCancels \/ UNCHANGED Servers!vars
  <2>0. UNCHANGED <<sPc, use, starting>>
    BY <1>5
       DEF Servers!Publish, Servers!HandleNotify, Servers!Edit, Servers!Crash,
           Servers!CloseTakes, Servers!CloseCancels, Servers!vars, Servers!manager,
           Servers!query
  <2>1. \A p \in Queries : Starter(p)' <=> Starter(p)
    BY <2>0 DEF Starter
  <2>2. CASE UNCHANGED <<clients, sClosing, alive>>
    BY <1>g, <2>0, <2>1, <2>2 DEF ServersGate
  <2>3. CASE Servers!Crash
    <3>1. alive' \subseteq alive /\ UNCHANGED <<clients, sClosing>>
      BY <2>3 DEF Servers!Crash
    <3> QED
      BY <1>g, <2>0, <2>1, <3>1 DEF ServersGate
  <2>4. CASE Servers!CloseTakes
    <3>1. sClosing' = "stopping"
      BY <2>4 DEF Servers!CloseTakes
    <3> QED
      BY <1>g, <2>0, <2>1, <3>1 DEF ServersGate
  <2>5. CASE Servers!CloseCancels
    <3>1. sClosing' = "done" /\ alive' = {}
      BY <2>5 DEF Servers!CloseCancels, Servers!KillAll
    <3> QED
      BY <1>g, <2>0, <2>1, <3>1 DEF ServersGate
  <2>6. CASE Servers!Publish \/ Servers!HandleNotify \/ Servers!Edit \/ UNCHANGED Servers!vars
    BY <2>2, <2>6
       DEF Servers!Publish, Servers!HandleNotify, Servers!Edit, Servers!vars, Servers!manager
  <2> QED
    BY <1>5, <2>2, <2>3, <2>4, <2>5, <2>6
<1> QED
  BY <1>1, <1>2, <1>3, <1>4, <1>5 DEF Servers!Next, Servers!Step

LEMMA StepQueriesSync == ServersInv /\ [Servers!Next]_(Servers!vars) => QueriesSync'
<1> SUFFICES ASSUME ServersInv, [Servers!Next]_(Servers!vars) PROVE QueriesSync'
  OBVIOUS
<1>t. /\ sPc \in [Queries -> QueryLabels] /\ use \in [Queries -> 0..spawned]
      /\ fi \in [Queries -> Nat] /\ seen \in [Queries -> Document] /\ text \in [Queries -> Nat]
      /\ disk \in Nat /\ overlap \in BOOLEAN /\ docs \in [Servers!Servers -> Document]
  BY DEF ServersInv, ServersTypes, ServersStarted, QueriesTyped, DocsTyped
<1>s. /\ \A q \in Queries : fi[q] <= disk
      /\ \A q \in Queries : sPc[q] \in {"send", "record"} => text[q] >= fi[q]
      /\ ~overlap => \A p \in Queries : sPc[p] \in Servers!Syncing =>
           /\ \A q \in Queries \ {p} : sPc[q] \notin Servers!Syncing
           /\ \A q \in Queries : fi[q] <= fi[p]
           /\ sPc[p] \in {"read", "send", "record"} => seen[p] = docs[use[p]]
  BY DEF ServersInv, QueriesSync
\* A step that leaves the synchronising queries as they are, or takes one away.
<1>0. ASSUME UNCHANGED <<fi, seen, docs, overlap>>, disk' >= disk, disk' \in Nat,
             \A q \in Queries : sPc'[q] \in Servers!Syncing => sPc'[q] = sPc[q] /\
               use'[q] = use[q] /\ text'[q] = text[q]
      PROVE  QueriesSync'
  <2>1. \A q \in Queries : fi[q] <= disk'
    BY <1>t, <1>s, <1>0
  <2>2. \A q \in Queries : sPc'[q] \in {"send", "record"} =>
          sPc[q] \in {"send", "record"} /\ text'[q] = text[q]
    BY <1>0 DEF Servers!Syncing
  <2>3. \A q \in Queries : sPc'[q] \in Servers!Syncing => sPc[q] \in Servers!Syncing
    BY <1>0
  <2>4. \A q \in Queries : sPc'[q] \in {"read", "send", "record"} =>
          sPc[q] \in {"read", "send", "record"} /\ use'[q] = use[q]
    BY <1>0 DEF Servers!Syncing
  <2> QED
    BY <1>s, <1>0, <2>1, <2>2, <2>3, <2>4 DEF QueriesSync
<1>1. ASSUME NEW q \in Queries, Servers!Resolve(q) \/ Servers!Spawn(q) \/ Servers!Register(q) \/
               Servers!Want(q) \/ Servers!Wait(q)
      PROVE  QueriesSync'
  <2>1. UNCHANGED <<fi, seen, docs, overlap, disk>> /\ sPc[q] \notin Servers!Syncing
    BY <1>1
       DEF Servers!Resolve, Servers!Spawn, Servers!Register, Servers!Want, Servers!Wait,
           Servers!document, Servers!Syncing
  <2>2. \A p \in Queries \ {q} : use'[p] = use[p] /\ text'[p] = text[p]
    BY <1>t, <1>1
       DEF Servers!Resolve, Servers!Spawn, Servers!Register, Servers!Want, Servers!Wait,
           Servers!manager
  <2>3. sPc'[q] \notin Servers!Syncing
    BY <1>t, <1>1
       DEF Servers!Resolve, Servers!Spawn, Servers!Register, Servers!Want, Servers!Wait,
           Servers!Goto, Servers!Syncing
  <2>4. \A p \in Queries \ {q} : sPc'[p] \in Servers!Syncing => sPc'[p] = sPc[p]
    BY <1>t, <1>1
       DEF Servers!Resolve, Servers!Spawn, Servers!Register, Servers!Want, Servers!Wait,
           Servers!Goto, Servers!Syncing
  <2> QED
    BY <1>0, <1>t, <2>1, <2>2, <2>3, <2>4
<1>2. ASSUME NEW q \in Queries, Servers!Stat(q) PROVE QueriesSync'
  <2>1. /\ sPc' = [sPc EXCEPT ![q] = "look"] /\ fi' = [fi EXCEPT ![q] = disk]
        /\ overlap' = (overlap \/ \E p \in Queries \ {q} : sPc[p] \in Servers!Syncing)
        /\ UNCHANGED <<use, seen, text, disk, docs>>
    BY <1>2 DEF Servers!Stat, Servers!Goto, Servers!manager
  <2>2. sPc'[q] = "look" /\ fi'[q] = disk /\ \A p \in Queries \ {q} : sPc'[p] = sPc[p] /\
          fi'[p] = fi[p]
    BY <1>t, <2>1
  <2>3. \A p \in Queries : fi'[p] <= disk
    BY <1>t, <1>s, <2>2
  <2>4. \A p \in Queries : sPc'[p] \in {"send", "record"} => text[p] >= fi'[p]
    BY <1>s, <2>2
  <2>5. ~overlap' => ~overlap /\ \A p \in Queries \ {q} : sPc'[p] \notin Servers!Syncing
    BY <2>1, <2>2
  <2> QED
    BY <2>1, <2>2, <2>3, <2>4, <2>5 DEF QueriesSync
<1>3. ASSUME NEW q \in Queries, Servers!Look(q) \/ Servers!Read(q) \/ Servers!Send(q)
      PROVE  QueriesSync'
  <2>1. /\ sPc[q] \in Servers!Syncing /\ UNCHANGED <<use, fi, disk, docs, overlap>>
        /\ \A p \in Queries \ {q} : sPc'[p] = sPc[p] /\ seen'[p] = seen[p] /\ text'[p] = text[p]
    BY <1>t, <1>3
       DEF Servers!Look, Servers!Read, Servers!Send, Servers!Goto, Servers!manager,
           Servers!document, Servers!Syncing
  <2>2. sPc'[q] \in {"send", "record"} => text'[q] >= fi[q]
    <3>1. CASE Servers!Look(q)
      BY <1>t, <3>1 DEF Servers!Look, Servers!Goto
    <3>2. CASE Servers!Read(q)
      <4>1. text'[q] = disk
        BY <1>t, <3>2 DEF Servers!Read
      <4> QED
        BY <1>t, <1>s, <4>1
    <3>3. CASE Servers!Send(q)
      BY <1>s, <3>3 DEF Servers!Send
    <3> QED
      BY <1>3, <3>1, <3>2, <3>3
  <2>3. ~overlap /\ sPc'[q] \in {"read", "send", "record"} => seen'[q] = docs[use[q]]
    <3>1. CASE Servers!Look(q)
      BY <1>t, <3>1 DEF Servers!Look
    <3>2. CASE Servers!Read(q) \/ Servers!Send(q)
      <4>1. sPc[q] \in {"read", "send"} /\ seen' = seen
        BY <3>2 DEF Servers!Read, Servers!Send
      <4> QED
        BY <1>s, <4>1 DEF Servers!Syncing
    <3> QED
      BY <1>3, <3>1, <3>2
  <2>4. \A p \in Queries : sPc'[p] \in Servers!Syncing => sPc[p] \in Servers!Syncing
    BY <2>1
  <2>5. \A p \in Queries : sPc'[p] \in {"send", "record"} => text'[p] >= fi[p]
    BY <1>s, <2>1, <2>2
  <2>6. ~overlap => \A p \in Queries : sPc'[p] \in {"read", "send", "record"} =>
          seen'[p] = docs[use[p]]
    BY <1>s, <2>1, <2>3 DEF Servers!Syncing
  <2>7. ~overlap => \A p \in Queries : sPc'[p] \in Servers!Syncing =>
          \A r \in Queries \ {p} : sPc'[r] \notin Servers!Syncing
    BY <1>s, <2>4
  <2> QED
    BY <1>s, <2>1, <2>4, <2>5, <2>6, <2>7 DEF QueriesSync
<1>4. ASSUME NEW q \in Queries, Servers!Record(q) PROVE QueriesSync'
  <2>1. /\ sPc[q] = "record" /\ UNCHANGED <<use, fi, seen, text, disk, overlap>>
        /\ sPc'[q] \in {"done", "want"} /\ \A p \in Queries \ {q} : sPc'[p] = sPc[p]
    BY <1>t, <1>4 DEF Servers!Record, Servers!Goto, Servers!manager
  <2>2. ~overlap => \A p \in Queries : sPc'[p] \notin Servers!Syncing
    BY <1>s, <2>1 DEF Servers!Syncing
  <2>3. \A p \in Queries : sPc'[p] \in {"send", "record"} => sPc[p] \in {"send", "record"}
    BY <2>1
  <2> QED
    BY <1>s, <2>1, <2>2, <2>3 DEF QueriesSync
<1>5. CASE Servers!Publish \/ Servers!HandleNotify \/ Servers!Edit \/ Servers!Crash \/
             Servers!CloseTakes \/ Servers!CloseCancels \/ UNCHANGED Servers!vars
  <2>1. UNCHANGED <<sPc, use, fi, seen, text, docs, overlap>> /\ disk' \in {disk, disk + 1}
    BY <1>5
       DEF Servers!Publish, Servers!HandleNotify, Servers!Edit, Servers!Crash,
           Servers!CloseTakes, Servers!CloseCancels, Servers!vars, Servers!manager,
           Servers!query, Servers!document
  <2>2. disk' >= disk /\ disk' \in Nat
    BY <1>t, <2>1
  <2> QED
    BY <1>0, <2>1, <2>2
<1> QED
  BY <1>1, <1>2, <1>3, <1>4, <1>5 DEF Servers!Next, Servers!Step

(* A report on a server was there before, or is of the text just sent.     *)
Sent(q) == [version |-> seen[q].version + 1, edit |-> text[q]]
LEMMA ReportsStay ==
  ASSUME ServersInv, [Servers!Next]_(Servers!vars), NEW s \in Servers!Servers, NEW d \in Reports(s)'
  PROVE  d \in Reports(s) \/ \E q \in Queries : Servers!Send(q) /\ use[q] = s /\ s \in alive /\
           d = Sent(q)
<1>t. /\ held \in [Servers!Servers -> Document] /\ diags \in [Servers!Servers -> Document] /\
           published \in Seq(ReportOf)
      /\ alive \subseteq Servers!Servers
  BY UseStarted DEF ServersInv, ServersTypes, DocsTyped
<1>0. Reports(s)' =
        {held'[s], diags'[s]} \cup {published'[k].doc : k \in {j \in DOMAIN published' : published'[j].server = s}}
  BY DEF Reports
<1>1. CASE UNCHANGED <<held, diags, published>>
  BY <1>0, <1>1 DEF Reports
<1>2. ASSUME NEW q \in Queries, Servers!Send(q)
      PROVE  d \in Reports(s) \/ (use[q] = s /\ s \in alive /\ d = Sent(q))
  <2>1. UNCHANGED <<diags, published>> /\ (use[q] \notin alive => held' = held)
    BY <1>2 DEF Servers!Send, Servers!problems
  <2>2. use[q] \in alive => held' = [held EXCEPT ![use[q]] = Sent(q)]
    BY <1>2 DEF Servers!Send, Sent
  <2>3. held'[s] = held[s] \/ (use[q] = s /\ s \in alive /\ held'[s] = Sent(q))
    BY <1>t, <2>1, <2>2
  <2> QED
    BY <1>0, <2>1, <2>3 DEF Reports
<1>3. CASE Servers!Publish
  <2>1. PICK a \in alive : published' = Append(published, [server |-> a, doc |-> held[a]])
    BY <1>3 DEF Servers!Publish
  <2>2. UNCHANGED <<held, diags>>
    BY <1>3 DEF Servers!Publish, Servers!document
  <2>3. ASSUME NEW k \in DOMAIN published', published'[k].server = s
        PROVE  published'[k].doc \in Reports(s)
    <3>1. (k \in DOMAIN published /\ published'[k] = published[k]) \/
            published'[k] = [server |-> a, doc |-> held[a]]
      BY <1>t, <2>1, <2>3
    <3> QED
      BY <2>3, <3>1 DEF Reports
  <2> QED
    BY <1>0, <2>2, <2>3 DEF Reports
<1>4. CASE Servers!HandleNotify
  <2>1. published # <<>> /\ published' = Tail(published) /\ held' = held
    BY <1>4 DEF Servers!HandleNotify, Servers!document
  <2>2. published[1] \in ReportOf /\ 1 \in DOMAIN published
    BY <1>t, <2>1
  <2>3. diags' = [diags EXCEPT ![published[1].server] =
                    [version |-> published[1].doc.version, edit |-> published[1].doc.edit]]
    BY <1>4, RpcAssumption DEF Servers!HandleNotify
  <2>4. [version |-> published[1].doc.version, edit |-> published[1].doc.edit] = published[1].doc
    BY <2>2 DEF ReportOf, Document
  <2>5. diags'[s] = diags[s] \/ (published[1].server = s /\ diags'[s] = published[1].doc)
    BY <1>t, <2>3, <2>4
  <2>6. ASSUME NEW k \in DOMAIN published'
        PROVE  k + 1 \in DOMAIN published /\ published'[k] = published[k + 1]
    BY <1>t, <2>1, <2>6
  <2> QED
    BY <1>0, <2>1, <2>2, <2>5, <2>6 DEF Reports
<1>5. ASSUME NEW q \in Queries, Servers!Resolve(q) \/ (Servers!Step(q) /\ ~Servers!Send(q))
      PROVE  UNCHANGED <<held, diags, published>>
  BY <1>5
     DEF Servers!Resolve, Servers!Step, Servers!Spawn, Servers!Register, Servers!Stat,
         Servers!Look, Servers!Read, Servers!Record, Servers!Want, Servers!Wait,
         Servers!document, Servers!problems
<1>6. CASE Servers!Edit \/ Servers!Crash \/ Servers!CloseTakes \/ Servers!CloseCancels \/
             UNCHANGED Servers!vars
  BY <1>1, <1>6
     DEF Servers!Edit, Servers!Crash, Servers!CloseTakes, Servers!CloseCancels, Servers!vars,
         Servers!document, Servers!problems
<1> QED
  BY <1>1, <1>2, <1>3, <1>4, <1>5, <1>6 DEF Servers!Next, Servers!Step

LEMMA ReportsTyped ==
  ASSUME ServersTypes, NEW s \in Servers!Servers, NEW d \in Reports(s)
  PROVE  d.version \in Nat /\ d.edit \in Nat
<1>1. /\ held \in [Servers!Servers -> Document] /\ diags \in [Servers!Servers -> Document] /\
           published \in Seq(ReportOf)
  BY DEF ServersTypes, DocsTyped
<1>2. ASSUME NEW k \in DOMAIN published PROVE published[k].doc \in Document
  <2>1. published[k] \in ReportOf
    BY <1>1
  <2> QED
    BY <2>1 DEF ReportOf
<1>3. d \in Document
  BY <1>1, <1>2 DEF Reports
<1> QED
  BY <1>3 DEF Document

LEMMA StepServersReport == ServersInv /\ [Servers!Next]_(Servers!vars) => ServersReport'
<1> SUFFICES ASSUME ServersInv, [Servers!Next]_(Servers!vars), ~overlap' PROVE
      /\ \A s \in Servers!Servers : \A d \in Reports(s)' : Reported(s, d)'
      /\ \A s \in alive' : HeldNow(s)'
      /\ \A q \in Queries : sPc'[q] = "want" => docs'[use'[q]].edit >= fi'[q]
      /\ \A q \in Queries, s \in Servers!Servers :
           sPc'[q] = "wait" /\ use'[q] = s => \A d \in Reports(s)' : Awaits(q, d)'
      /\ \A q \in Queries : result'[q] = "current" => sPc'[q] = "done" /\ text'[q] >= fi'[q]
  BY DEF ServersReport
<1>a. ServersTypes /\ ServersTypes'
  BY StepServersStarted, StepQueriesTyped, StepDocsTyped DEF ServersInv, ServersTypes
<1>o. ~overlap
  <2>1. CASE UNCHANGED overlap
    BY <2>1
  <2>2. ASSUME NEW q \in Queries, Servers!Stat(q) PROVE overlap => overlap'
    BY <2>2 DEF Servers!Stat
  <2>3. ASSUME NEW q \in Queries, Servers!Resolve(q) \/ (Servers!Step(q) /\ ~Servers!Stat(q))
        PROVE  overlap' = overlap
    BY <2>3
       DEF Servers!Resolve, Servers!Step, Servers!Spawn, Servers!Register, Servers!Look,
           Servers!Read, Servers!Send, Servers!Record, Servers!Want, Servers!Wait,
           Servers!document
  <2>4. CASE Servers!Publish \/ Servers!HandleNotify \/ Servers!Edit \/ Servers!Crash \/
               Servers!CloseTakes \/ Servers!CloseCancels \/ UNCHANGED Servers!vars
    BY <2>1, <2>4
       DEF Servers!Publish, Servers!HandleNotify, Servers!Edit, Servers!Crash,
           Servers!CloseTakes, Servers!CloseCancels, Servers!vars, Servers!document
  <2> QED
    BY <2>1, <2>2, <2>3, <2>4 DEF Servers!Next, Servers!Step
<1>t. /\ sPc \in [Queries -> QueryLabels] /\ use \in [Queries -> 0..spawned] /\ spawned \in Nat
      /\ fi \in [Queries -> Nat] /\ seen \in [Queries -> Document] /\ text \in [Queries -> Nat]
      /\ want \in [Queries -> Nat] /\ result \in [Queries -> {"none", "error", "current", "timed out"}]
      /\ disk \in Nat /\ docs \in [Servers!Servers -> Document] /\
           held \in [Servers!Servers -> Document]
      /\ alive \subseteq Servers!Servers
      /\ \A q \in Queries : sPc[q] \in Using => use[q] \in 1..spawned /\ use[q] \in Servers!Servers
      /\ \A s \in Servers!Servers : s > spawned => docs[s] = Servers!NotOpen /\
           held[s] = Servers!NotOpen
  BY <1>a, UseStarted DEF ServersTypes, ServersStarted, QueriesTyped, DocsTyped
<1>n. \A s \in Servers!Servers : docs[s].version \in Nat /\ docs[s].edit \in Nat /\
        held[s].version \in Nat
  BY <1>t DEF Document
<1>y. /\ \A p \in Queries : sPc[p] \in Servers!Syncing =>
           \A q \in Queries \ {p} : sPc[q] \notin Servers!Syncing
      /\ \A p \in Queries : sPc[p] \in Servers!Syncing => \A q \in Queries : fi[q] <= fi[p]
      /\ \A p \in Queries : sPc[p] \in {"read", "send", "record"} => seen[p] = docs[use[p]]
      /\ \A q \in Queries : sPc[q] \in {"send", "record"} => text[q] >= fi[q]
      /\ \A q \in Queries : fi[q] <= disk
  BY <1>o DEF ServersInv, QueriesSync, Servers!Syncing
<1>r. /\ \A s \in Servers!Servers : \A d \in Reports(s) : Reported(s, d)
      /\ \A s \in alive : HeldNow(s)
      /\ \A q \in Queries : sPc[q] = "want" => docs[use[q]].edit >= fi[q]
      /\ \A q \in Queries, s \in Servers!Servers :
         sPc[q] = "wait" /\ use[q] = s => \A d \in Reports(s) : Awaits(q, d)
      /\ \A q \in Queries : result[q] = "current" => sPc[q] = "done" /\ text[q] >= fi[q]
  BY <1>o DEF ServersInv, ServersReport
\* Who records what changes with two steps only.
<1>c. ASSUME NEW q \in Queries, ~Servers!Send(q), ~Servers!Record(q), NEW s \in Servers!Servers
      PROVE  Recording(q, s)' <=> Recording(q, s)
  <2>1. ASSUME NEW p \in Queries, Servers!Resolve(p) \/ Servers!Step(p)
        PROVE  Recording(q, s)' <=> Recording(q, s)
    <3>1. CASE p # q /\ ~Servers!Register(p)
      BY <1>t, <2>1, <3>1
         DEF Servers!Resolve, Servers!Step, Servers!Spawn, Servers!Stat, Servers!Look,
             Servers!Read, Servers!Send, Servers!Record, Servers!Want, Servers!Wait,
             Servers!Goto, Servers!manager, Recording
    <3>2. CASE Servers!Register(p)
      BY <3>2 DEF Servers!Register, Recording
    <3>3. CASE p = q
      BY <1>c, <1>t, <2>1, <3>3
         DEF Servers!Resolve, Servers!Step, Servers!Spawn, Servers!Register, Servers!Stat,
             Servers!Look, Servers!Read, Servers!Want, Servers!Wait, Servers!Goto, Recording
    <3> QED
      BY <3>1, <3>2, <3>3
  <2>2. CASE Servers!Publish \/ Servers!HandleNotify \/ Servers!Edit \/ Servers!Crash \/
               Servers!CloseTakes \/ Servers!CloseCancels \/ UNCHANGED Servers!vars
    BY <2>2
       DEF Servers!Publish, Servers!HandleNotify, Servers!Edit, Servers!Crash,
           Servers!CloseTakes, Servers!CloseCancels, Servers!vars, Servers!query, Recording
  <2> QED
    BY <2>1, <2>2 DEF Servers!Next
<1>1. ASSUME NEW s \in Servers!Servers, NEW d \in Reports(s)' PROVE Reported(s, d)'
  <2>1. ASSUME NEW q \in Queries, Servers!Send(q) PROVE Reported(s, d)'
    <3>1. /\ sPc[q] = "send" /\ sPc' = [sPc EXCEPT ![q] = "record"] /\ UNCHANGED <<use, fi, docs>>
      BY <2>1 DEF Servers!Send, Servers!Goto, Servers!manager
    <3>2. ASSUME NEW p \in Queries
          PROVE  ~Recording(p, s) /\ (Recording(p, s)' <=> p = q /\ use[q] = s)
      <4>1. sPc[p] # "record"
        BY <1>y, <3>1 DEF Servers!Syncing
      <4> QED
        BY <1>t, <3>1, <4>1 DEF Recording
    <3>3. CASE d \in Reports(s)
      <4>1. /\ d.version = docs[s].version => d.edit >= docs[s].edit
            /\ d.version <= docs[s].version /\ d.version \in Nat
        BY <1>r, <1>a, <3>2, <3>3, ReportsTyped DEF Reported
      <4> QED
        BY <1>n, <3>1, <3>2, <4>1 DEF Reported
    <3>4. CASE use[q] = s /\ d = Sent(q)
      <4>1. d.version = docs[s].version + 1 /\ d.edit >= fi[q]
        BY <1>y, <3>1, <3>4 DEF Sent
      <4>2. docs[s].version \in Nat
        BY <1>n
      <4>3. d.version # docs[s].version /\ d.version <= docs[s].version + 1
        BY <4>1, <4>2
      <4> QED
        BY <3>1, <3>2, <3>4, <4>1, <4>3 DEF Reported
    <3>5. \A p \in Queries : Servers!Send(p) => p = q
      BY <1>y, <3>1 DEF Servers!Send, Servers!Syncing
    <3> QED
      BY <3>3, <3>4, <3>5, ReportsStay
  <2>2. ASSUME NEW q \in Queries, Servers!Record(q) PROVE Reported(s, d)'
    <3>1. /\ sPc[q] = "record" /\ UNCHANGED <<use, fi>>
          /\ docs' = [docs EXCEPT ![use[q]] = [version |-> seen[q].version + 1, edit |-> fi[q]]]
          /\ sPc'[q] # "record" /\ \A p \in Queries \ {q} : sPc'[p] = sPc[p]
      BY <1>t, <2>2 DEF Servers!Record, Servers!Goto, Servers!manager
    <3>2. \A p \in Queries \ {q} : ~Recording(p, s)
      BY <1>y, <3>1 DEF Recording, Servers!Syncing
    <3>3. \A p \in Queries : ~Recording(p, s)'
      BY <3>1, <3>2 DEF Recording
    <3>4. ~Servers!Send(q) /\ \A p \in Queries : ~Servers!Send(p)
      BY <1>y, <3>1 DEF Servers!Send, Servers!Syncing
    <3>5. d \in Reports(s) /\ d.version \in Nat
      BY <1>a, <3>4, ReportsStay, ReportsTyped
    <3>6. CASE use[q] = s
      <4>1. docs'[s].version = docs[s].version + 1 /\ docs'[s].edit = fi[q]
        BY <1>t, <1>y, <3>1, <3>6
      <4>2. d.version <= docs[s].version + 1 /\ (d.version > docs[s].version => d.edit >= fi[q])
        BY <1>r, <3>1, <3>5, <3>6 DEF Reported, Recording
      <4>3. d.version = docs[s].version + 1 => d.version > docs[s].version
        BY <1>n, <3>5
      <4> QED
        BY <3>3, <4>1, <4>2, <4>3 DEF Reported
    <3>7. CASE use[q] # s
      <4>1. docs'[s] = docs[s]
        BY <1>t, <3>1, <3>7
      <4>2. ~Recording(q, s)
        BY <3>7 DEF Recording
      <4> QED
        BY <1>r, <3>2, <3>3, <3>5, <4>1, <4>2 DEF Reported
    <3> QED
      BY <3>6, <3>7
  <2>3. CASE \A q \in Queries : ~Servers!Send(q) /\ ~Servers!Record(q)
    <3>1. d \in Reports(s)
      BY <2>3, ReportsStay
    <3>2. docs' = docs
      <4>1. ASSUME NEW q \in Queries, Servers!Resolve(q) \/ Servers!Step(q) PROVE docs' = docs
        BY <2>3, <4>1
           DEF Servers!Resolve, Servers!Step, Servers!Spawn, Servers!Register, Servers!Stat,
               Servers!Look, Servers!Read, Servers!Want, Servers!Wait, Servers!document
      <4> QED
        BY <4>1
           DEF Servers!Next, Servers!Publish, Servers!HandleNotify, Servers!Edit,
               Servers!Crash, Servers!CloseTakes, Servers!CloseCancels, Servers!vars,
               Servers!document
    <3>3. \A q \in Queries : Recording(q, s) => fi'[q] = fi[q]
      <4>1. ASSUME NEW p \in Queries, Servers!Stat(p), NEW q \in Queries, Recording(q, s)
            PROVE  fi'[q] = fi[q]
        BY <1>t, <4>1 DEF Servers!Stat, Recording
      <4>2. ASSUME NEW p \in Queries, Servers!Resolve(p) \/ (Servers!Step(p) /\ ~Servers!Stat(p))
            PROVE  fi' = fi
        BY <2>3, <4>2
           DEF Servers!Resolve, Servers!Step, Servers!Spawn, Servers!Register, Servers!Look,
               Servers!Read, Servers!Want, Servers!Wait
      <4>3. CASE Servers!Publish \/ Servers!HandleNotify \/ Servers!Edit \/ Servers!Crash \/
                   Servers!CloseTakes \/ Servers!CloseCancels \/ UNCHANGED Servers!vars
        BY <4>3
           DEF Servers!Publish, Servers!HandleNotify, Servers!Edit, Servers!Crash,
               Servers!CloseTakes, Servers!CloseCancels, Servers!vars, Servers!query
      <4> QED
        BY <4>1, <4>2, <4>3 DEF Servers!Next, Servers!Step
    <3>4. \A q \in Queries : Recording(q, s)' <=> Recording(q, s)
      BY <1>c, <2>3
    <3>5. Reported(s, d)
      BY <1>r, <3>1
    <3> QED
      BY <3>2, <3>3, <3>4, <3>5 DEF Reported
  <2> QED
    BY <2>1, <2>2, <2>3
\* A query that waits keeps what it asked for.
<1>f. ASSUME NEW q \in Queries, sPc[q] \in {"want", "wait"}, sPc'[q] \in {"want", "wait"}
      PROVE  fi'[q] = fi[q] /\ use'[q] = use[q] /\ (sPc[q] = "wait" => sPc'[q] = "wait" /\
               want'[q] = want[q])
  <2>1. ASSUME NEW p \in Queries, p # q, Servers!Resolve(p) \/ Servers!Step(p)
        PROVE  fi'[q] = fi[q] /\ use'[q] = use[q] /\ want'[q] = want[q] /\ (sPc[q] = "wait" =>
                 sPc'[q] = "wait")
    <3>1. fi'[q] = fi[q] /\ use'[q] = use[q] /\ want'[q] = want[q]
      BY <1>t, <2>1
         DEF Servers!Resolve, Servers!Step, Servers!Spawn, Servers!Register, Servers!Stat,
             Servers!Look, Servers!Read, Servers!Send, Servers!Record, Servers!Want,
             Servers!Wait, Servers!manager
    <3>2. sPc[q] = "wait" => sPc'[q] = "wait"
      BY <1>t, <2>1
         DEF Servers!Resolve, Servers!Step, Servers!Spawn, Servers!Register, Servers!Stat,
             Servers!Look, Servers!Read, Servers!Send, Servers!Record, Servers!Want,
             Servers!Wait, Servers!Goto
    <3> QED
      BY <3>1, <3>2
  <2>2. CASE Servers!Resolve(q) \/ Servers!Step(q)
    <3>1. Servers!Want(q) \/ Servers!Wait(q)
      BY <1>f, <2>2
         DEF Servers!Resolve, Servers!Step, Servers!Spawn, Servers!Register, Servers!Stat,
             Servers!Look, Servers!Read, Servers!Send, Servers!Record
    <3>2. ~Servers!Wait(q)
      BY <1>f, <1>t DEF Servers!Wait, Servers!Goto
    <3> QED
      BY <1>f, <3>1, <3>2 DEF Servers!Want, Servers!manager
  <2>3. CASE Servers!Publish \/ Servers!HandleNotify \/ Servers!Edit \/ Servers!Crash \/
               Servers!CloseTakes \/ Servers!CloseCancels \/ UNCHANGED Servers!vars
    BY <2>3
       DEF Servers!Publish, Servers!HandleNotify, Servers!Edit, Servers!Crash,
           Servers!CloseTakes, Servers!CloseCancels, Servers!vars, Servers!query
  <2> QED
    BY <2>1, <2>2, <2>3 DEF Servers!Next
<1>2. ASSUME NEW s \in alive' PROVE HeldNow(s)'
  <2>0. s \in Servers!Servers
    <3>1. alive' \subseteq 1..spawned' /\ spawned' \in 0..MaxSpawns
      BY <1>a DEF ServersTypes, ServersStarted
    <3> QED
      BY <3>1, RpcAssumption DEF Servers!Servers
  <2>1. ASSUME NEW q \in Queries, Servers!Send(q) PROVE HeldNow(s)'
    <3>1. /\ sPc[q] = "send" /\ sPc' = [sPc EXCEPT ![q] = "record"] /\ UNCHANGED <<use, docs, alive>>
      BY <2>1 DEF Servers!Send, Servers!Goto, Servers!manager
    <3>2. ASSUME NEW p \in Queries
          PROVE  ~Recording(p, s) /\ (Recording(p, s)' <=> p = q /\ use[q] = s)
      <4>1. sPc[p] # "record"
        BY <1>y, <3>1 DEF Servers!Syncing
      <4> QED
        BY <1>t, <3>1, <4>1 DEF Recording
    <3>3. held[s].version = docs[s].version
      BY <1>r, <3>1, <3>2 DEF HeldNow
    <3>4. CASE use[q] = s
      <4>1. held'[s] = Sent(q) /\ seen[q] = docs[s]
        BY <1>t, <1>y, <2>0, <2>1, <3>1, <3>4 DEF Servers!Send, Sent
      <4> QED
        BY <3>1, <3>2, <3>4, <4>1 DEF HeldNow, Sent
    <3>5. CASE use[q] # s
      <4>1. held'[s] = held[s]
        BY <1>t, <2>0, <2>1, <3>5 DEF Servers!Send
      <4> QED
        BY <3>1, <3>2, <3>3, <3>5, <4>1 DEF HeldNow
    <3> QED
      BY <3>4, <3>5
  <2>2. ASSUME NEW q \in Queries, Servers!Record(q) PROVE HeldNow(s)'
    <3>1. /\ sPc[q] = "record" /\ UNCHANGED <<use, held, alive>>
          /\ docs' = [docs EXCEPT ![use[q]] = [version |-> seen[q].version + 1, edit |-> fi[q]]]
          /\ sPc'[q] # "record" /\ \A p \in Queries \ {q} : sPc'[p] = sPc[p]
      BY <1>t, <2>2 DEF Servers!Record, Servers!Goto, Servers!manager
    <3>2. \A p \in Queries \ {q} : ~Recording(p, s)
      BY <1>y, <3>1 DEF Recording, Servers!Syncing
    <3>3. \A p \in Queries : ~Recording(p, s)'
      BY <3>1, <3>2 DEF Recording
    <3>4. CASE use[q] = s
      <4>1. docs'[s].version = docs[s].version + 1
        BY <1>t, <1>y, <2>0, <3>1, <3>4
      <4>2. held[s].version = docs[s].version + 1
        BY <1>r, <3>1, <3>4 DEF HeldNow, Recording
      <4> QED
        BY <3>1, <3>3, <4>1, <4>2 DEF HeldNow
    <3>5. CASE use[q] # s
      <4>1. docs'[s] = docs[s] /\ ~Recording(q, s)
        BY <1>t, <2>0, <3>1, <3>5 DEF Recording
      <4> QED
        BY <1>r, <3>1, <3>2, <3>3, <4>1 DEF HeldNow
    <3> QED
      BY <3>4, <3>5
  <2>3. CASE \A q \in Queries : ~Servers!Send(q) /\ ~Servers!Record(q)
    <3>1. UNCHANGED <<docs, held>>
      <4>1. ASSUME NEW q \in Queries, Servers!Resolve(q) \/ Servers!Step(q)
            PROVE  UNCHANGED <<docs, held>>
        BY <2>3, <4>1
           DEF Servers!Resolve, Servers!Step, Servers!Spawn, Servers!Register, Servers!Stat,
               Servers!Look, Servers!Read, Servers!Want, Servers!Wait, Servers!document
      <4> QED
        BY <4>1
           DEF Servers!Next, Servers!Publish, Servers!HandleNotify, Servers!Edit,
               Servers!Crash, Servers!CloseTakes, Servers!CloseCancels, Servers!vars,
               Servers!document
    <3>2. \A q \in Queries : Recording(q, s)' <=> Recording(q, s)
      BY <1>c, <2>0, <2>3
    <3>3. CASE s \in alive
      BY <1>r, <3>1, <3>2, <3>3 DEF HeldNow
    <3>4. CASE s \notin alive
      <4>1. s = spawned + 1
        <5>1. ASSUME NEW q \in Queries, Servers!Resolve(q) \/ Servers!Step(q)
              PROVE  alive' = alive \/ alive' = alive \cup {spawned + 1}
          BY <5>1
             DEF Servers!Resolve, Servers!Step, Servers!Spawn, Servers!Register, Servers!Stat,
                 Servers!Look, Servers!Read, Servers!Send, Servers!Record, Servers!Want,
                 Servers!Wait, Servers!manager
        <5>2. CASE Servers!Publish \/ Servers!HandleNotify \/ Servers!Edit \/ Servers!Crash \/
                     Servers!CloseTakes \/ Servers!CloseCancels \/ UNCHANGED Servers!vars
          BY <3>4, <5>2
             DEF Servers!Publish, Servers!HandleNotify, Servers!Edit, Servers!Crash,
                 Servers!CloseTakes, Servers!CloseCancels, Servers!KillAll, Servers!vars,
                 Servers!manager
        <5> QED
          BY <3>4, <5>1, <5>2 DEF Servers!Next
      <4>2. docs[s] = Servers!NotOpen /\ held[s] = Servers!NotOpen
        <5>0. spawned \in Nat
          BY <1>t
        <5>1. s > spawned
          BY <4>1, <5>0
        <5> QED
          BY <1>t, <2>0, <5>1
      <4>3. ASSUME NEW q \in Queries PROVE ~Recording(q, s)
        <5>1. use[q] \in 0..spawned /\ spawned \in Nat
          BY <1>t
        <5>2. use[q] # s
          BY <4>1, <5>1
        <5> QED
          BY <5>2 DEF Recording
      <4> QED
        BY <3>1, <3>2, <4>2, <4>3 DEF HeldNow
    <3> QED
      BY <3>3, <3>4
  <2> QED
    BY <1>y, <2>1, <2>2, <2>3
<1>3. ASSUME NEW q \in Queries, sPc'[q] = "want" PROVE docs'[use'[q]].edit >= fi'[q]
  <2>1. CASE Servers!Look(q)
    <3>1. Servers!UpToDate(q) /\ UNCHANGED <<use, docs, fi>> /\ sPc[q] = "look"
      BY <1>3, <1>t, <2>1 DEF Servers!Look, Servers!Goto, Servers!manager, Servers!document
    <3>2. docs[use[q]].edit = fi[q] /\ fi[q] \in Nat
      BY <1>t, <3>1 DEF Servers!UpToDate
    <3> QED
      BY <3>1, <3>2
  <2>2. CASE Servers!Record(q)
    <3>1. use[q] \in Servers!Servers /\ UNCHANGED <<use, fi>>
          /\ docs' = [docs EXCEPT ![use[q]] = [version |-> seen[q].version + 1, edit |-> fi[q]]]
      BY <1>t, <2>2 DEF Servers!Record, Servers!manager, Using
    <3>2. docs'[use[q]].edit = fi[q] /\ fi[q] \in Nat
      BY <1>t, <3>1
    <3> QED
      BY <3>1, <3>2
  <2>3. CASE ~Servers!Look(q) /\ ~Servers!Record(q)
    <3>1. sPc[q] = "want"
      <4>1. ASSUME NEW p \in Queries, p # q, Servers!Resolve(p) \/ Servers!Step(p)
            PROVE  sPc[q] = "want"
        BY <1>3, <1>t, <4>1
           DEF Servers!Resolve, Servers!Step, Servers!Spawn, Servers!Register, Servers!Stat,
               Servers!Look, Servers!Read, Servers!Send, Servers!Record, Servers!Want,
               Servers!Wait, Servers!Goto
      <4>2. ~Servers!Resolve(q) /\ ~Servers!Step(q)
        BY <1>3, <1>t, <2>3
           DEF Servers!Resolve, Servers!Step, Servers!Spawn, Servers!Register, Servers!Stat,
               Servers!Read, Servers!Send, Servers!Want, Servers!Wait, Servers!Goto
      <4>3. CASE Servers!Publish \/ Servers!HandleNotify \/ Servers!Edit \/ Servers!Crash \/
                   Servers!CloseTakes \/ Servers!CloseCancels \/ UNCHANGED Servers!vars
        BY <1>3, <4>3
           DEF Servers!Publish, Servers!HandleNotify, Servers!Edit, Servers!Crash,
               Servers!CloseTakes, Servers!CloseCancels, Servers!vars, Servers!query
      <4> QED
        BY <4>1, <4>2, <4>3 DEF Servers!Next
    <3>2. fi'[q] = fi[q] /\ use'[q] = use[q] /\ docs[use[q]].edit >= fi[q] /\
            use[q] \in Servers!Servers
      BY <1>3, <1>f, <1>r, <1>t, <3>1 DEF Using
    <3>3. CASE docs' = docs
      BY <3>2, <3>3
    <3>4. ASSUME NEW p \in Queries, Servers!Record(p) PROVE docs'[use[q]].edit >= fi[q]
      <4>1. /\ sPc[p] = "record"
            /\ docs' = [docs EXCEPT ![use[p]] = [version |-> seen[p].version + 1, edit |-> fi[p]]]
        BY <3>4 DEF Servers!Record
      <4>2. fi[q] <= fi[p] /\ fi[p] \in Nat /\ fi[q] \in Nat
        BY <1>t, <1>y, <4>1 DEF Servers!Syncing
      <4>3. docs'[use[q]].edit = fi[p] \/ docs'[use[q]] = docs[use[q]]
        BY <1>t, <3>2, <4>1
      <4> QED
        BY <3>2, <4>2, <4>3
    <3>5. ASSUME NEW p \in Queries, Servers!Resolve(p) \/ (Servers!Step(p) /\ ~Servers!Record(p))
          PROVE  docs' = docs
      BY <3>5
         DEF Servers!Resolve, Servers!Step, Servers!Spawn, Servers!Register, Servers!Stat,
             Servers!Look, Servers!Read, Servers!Send, Servers!Want, Servers!Wait,
             Servers!document
    <3>6. CASE Servers!Publish \/ Servers!HandleNotify \/ Servers!Edit \/ Servers!Crash \/
                 Servers!CloseTakes \/ Servers!CloseCancels \/ UNCHANGED Servers!vars
      BY <3>3, <3>6
         DEF Servers!Publish, Servers!HandleNotify, Servers!Edit, Servers!Crash,
             Servers!CloseTakes, Servers!CloseCancels, Servers!vars, Servers!document
    <3> QED
      BY <3>2, <3>3, <3>4, <3>5, <3>6 DEF Servers!Next, Servers!Step
  <2> QED
    BY <2>1, <2>2, <2>3
<1>4. ASSUME NEW q \in Queries, NEW s \in Servers!Servers, sPc'[q] = "wait", use'[q] = s,
               NEW d \in Reports(s)'
      PROVE  Awaits(q, d)'
  <2>1. CASE Servers!Want(q)
    <3>1. /\ sPc[q] = "want" /\ want' = [want EXCEPT ![q] = docs[use[q]].version] /\
               UNCHANGED <<use, fi>>
      BY <2>1 DEF Servers!Want, Servers!manager
    <3>2. use[q] = s /\ want'[q] = docs[s].version /\ docs[s].edit >= fi[q]
      BY <1>4, <1>r, <1>t, <3>1
    <3>3. d \in Reports(s)
      BY <1>4, <2>1 DEF Servers!Want, Servers!document, Servers!problems, Reports
    <3>4. /\ Reported(s, d) /\ d.version \in Nat /\ d.edit \in Nat
          /\ docs[s].version \in Nat /\ docs[s].edit \in Nat /\ fi[q] \in Nat
      BY <1>a, <1>n, <1>r, <1>t, <3>2, <3>3, ReportsTyped
    <3>5. d.version > docs[s].version => d.edit >= fi[q]
      <4>1. ASSUME NEW p \in Queries, Recording(p, s), d.version > docs[s].version
            PROVE  d.edit >= fi[q]
        <5>1. d.edit >= fi[p]
          BY <3>4, <4>1 DEF Reported
        <5>2. fi[q] <= fi[p] /\ fi[p] \in Nat
          BY <1>t, <1>y, <4>1 DEF Recording, Servers!Syncing
        <5> QED
          BY <3>4, <5>1, <5>2
      <4>2. ASSUME \A p \in Queries : ~Recording(p, s) PROVE d.version <= docs[s].version
        BY <3>4, <4>2 DEF Reported
      <4> QED
        BY <3>4, <4>1, <4>2
    <3>6. d.version = docs[s].version => d.edit >= fi[q]
      <4>1. d.version = docs[s].version => d.edit >= docs[s].edit
        BY <3>4 DEF Reported
      <4> QED
        BY <3>2, <3>4, <4>1
    <3> QED
      BY <3>1, <3>2, <3>4, <3>5, <3>6 DEF Awaits
  <2>2. CASE ~Servers!Want(q)
    <3>1. sPc[q] = "wait"
      <4>1. ASSUME NEW p \in Queries, p # q, Servers!Resolve(p) \/ Servers!Step(p)
            PROVE  sPc[q] = "wait"
        BY <1>4, <1>t, <4>1
           DEF Servers!Resolve, Servers!Step, Servers!Spawn, Servers!Register, Servers!Stat,
               Servers!Look, Servers!Read, Servers!Send, Servers!Record, Servers!Want,
               Servers!Wait, Servers!Goto
      <4>2. ~Servers!Resolve(q) /\ ~Servers!Step(q)
        BY <1>4, <1>t, <2>2
           DEF Servers!Resolve, Servers!Step, Servers!Spawn, Servers!Register, Servers!Stat,
               Servers!Look, Servers!Read, Servers!Send, Servers!Record, Servers!Wait,
               Servers!Goto
      <4>3. CASE Servers!Publish \/ Servers!HandleNotify \/ Servers!Edit \/ Servers!Crash \/
                   Servers!CloseTakes \/ Servers!CloseCancels \/ UNCHANGED Servers!vars
        BY <1>4, <4>3
           DEF Servers!Publish, Servers!HandleNotify, Servers!Edit, Servers!Crash,
               Servers!CloseTakes, Servers!CloseCancels, Servers!vars, Servers!query
      <4> QED
        BY <4>1, <4>2, <4>3 DEF Servers!Next
    <3>2. fi'[q] = fi[q] /\ use'[q] = use[q] /\ want'[q] = want[q] /\ use[q] = s
      BY <1>4, <1>f, <3>1
    <3>4. CASE d \in Reports(s)
      BY <1>r, <3>1, <3>2, <3>4 DEF Awaits
    <3>5. ASSUME NEW p \in Queries, Servers!Send(p), d = Sent(p) PROVE d.edit >= fi[q]
      <4>1. text[p] >= fi[p] /\ fi[q] <= fi[p]
        BY <1>y, <3>5 DEF Servers!Send, Servers!Syncing
      <4>2. d.edit = text[p] /\ text[p] \in Nat /\ fi[p] \in Nat /\ fi[q] \in Nat
        BY <1>t, <3>5 DEF Sent
      <4> QED
        BY <4>1, <4>2
    <3> QED
      BY <1>4, <3>2, <3>4, <3>5, ReportsStay DEF Awaits
  <2> QED
    BY <2>1, <2>2
<1>5. ASSUME NEW q \in Queries, result'[q] = "current"
      PROVE  sPc'[q] = "done" /\ text'[q] >= fi'[q]
  <2>1. CASE result[q] = "current"
    <3>1. sPc[q] = "done" /\ text[q] >= fi[q]
      BY <1>r, <2>1
    <3>2. ~Servers!Resolve(q) /\ ~Servers!Step(q)
      BY <3>1
         DEF Servers!Resolve, Servers!Step, Servers!Spawn, Servers!Register, Servers!Stat,
             Servers!Look, Servers!Read, Servers!Send, Servers!Record, Servers!Want,
             Servers!Wait
    <3>3. ASSUME NEW p \in Queries, p # q, Servers!Resolve(p) \/ Servers!Step(p)
          PROVE  sPc'[q] = sPc[q] /\ text'[q] = text[q] /\ fi'[q] = fi[q]
      <4>1. sPc'[q] = sPc[q]
        BY <1>t, <3>1, <3>3
           DEF Servers!Resolve, Servers!Step, Servers!Spawn, Servers!Register, Servers!Stat,
               Servers!Look, Servers!Read, Servers!Send, Servers!Record, Servers!Want,
               Servers!Wait, Servers!Goto
      <4>2. text'[q] = text[q] /\ fi'[q] = fi[q]
        BY <1>t, <3>3
           DEF Servers!Resolve, Servers!Step, Servers!Spawn, Servers!Register, Servers!Stat,
               Servers!Look, Servers!Read, Servers!Send, Servers!Record, Servers!Want,
               Servers!Wait
      <4> QED
        BY <4>1, <4>2
    <3>4. CASE Servers!Publish \/ Servers!HandleNotify \/ Servers!Edit \/ Servers!Crash \/
                 Servers!CloseTakes \/ Servers!CloseCancels \/ UNCHANGED Servers!vars
      BY <3>1, <3>4
         DEF Servers!Publish, Servers!HandleNotify, Servers!Edit, Servers!Crash,
             Servers!CloseTakes, Servers!CloseCancels, Servers!vars, Servers!query
    <3> QED
      BY <3>1, <3>2, <3>3, <3>4 DEF Servers!Next
  <2>2. CASE result[q] # "current"
    <3>1. Servers!Wait(q)
      <4>1. ASSUME NEW p \in Queries, Servers!Resolve(p) \/ Servers!Step(p), ~(p = q /\
                     Servers!Wait(q))
            PROVE  result'[q] # "current"
        BY <1>t, <2>2, <4>1
           DEF Servers!Resolve, Servers!Step, Servers!Spawn, Servers!Register, Servers!Stat,
               Servers!Look, Servers!Read, Servers!Send, Servers!Record, Servers!Want,
               Servers!Wait
      <4>2. CASE Servers!Publish \/ Servers!HandleNotify \/ Servers!Edit \/ Servers!Crash \/
                   Servers!CloseTakes \/ Servers!CloseCancels \/ UNCHANGED Servers!vars
        BY <1>5, <2>2, <4>2
           DEF Servers!Publish, Servers!HandleNotify, Servers!Edit, Servers!Crash,
               Servers!CloseTakes, Servers!CloseCancels, Servers!vars, Servers!query
      <4> QED
        BY <1>5, <4>1, <4>2 DEF Servers!Next
    <3>2. /\ sPc[q] = "wait" /\ Servers!Recent(q) /\
               text' = [text EXCEPT ![q] = diags[use[q]].edit] /\ fi' = fi
          /\ sPc' = [sPc EXCEPT ![q] = "done"]
      BY <1>5, <1>t, <3>1 DEF Servers!Wait, Servers!Goto
    <3>3. use[q] \in Servers!Servers /\ diags[use[q]] \in Reports(use[q])
      BY <1>t, <3>2 DEF Reports, Using
    <3>4. diags[use[q]].edit >= fi[q]
      BY <1>r, <3>2, <3>3 DEF Awaits, Servers!Recent
    <3> QED
      BY <1>t, <3>2, <3>4
  <2> QED
    BY <2>1, <2>2
<1> QED
  BY <1>1, <1>2, <1>3, <1>4, <1>5

LEMMA ServersHold == Servers!Init /\ [][Servers!Next]_(Servers!vars) => []ServersInv
<1>1. ServersInv /\ [Servers!Next]_(Servers!vars) => ServersInv'
  BY StepServersStarted, StepQueriesTyped, StepDocsTyped, StepServersGate, StepQueriesSync,
     StepServersReport DEF ServersInv, ServersTypes
<1> QED
  BY ServersInit, <1>1, PTL

LEMMA AtMostOne ==
  ASSUME NEW S, \A x, y \in S : x = y
  PROVE  Cardinality(S) <= 1
<1>1. CASE S = {}
  BY <1>1, FS_EmptySet
<1>2. CASE S # {}
  <2>1. PICK x \in S : S = {x}
    BY <1>2
  <2> QED
    BY <2>1, FS_Singleton
<1> QED
  BY <1>1, <1>2

LEMMA ServersInStep ==
  ServersInv => Servers!OneServer /\ Servers!SyncedText /\ Servers!CurrentProblems
<1> SUFFICES ASSUME ServersInv
             PROVE  Servers!OneServer /\ Servers!SyncedText /\ Servers!CurrentProblems
  OBVIOUS
<1>1. ServersTypes /\ ServersGate /\ ServersReport
  BY DEF ServersInv
<1>2. Servers!OneServer
  <2>1. Cardinality({q \in Queries : sPc[q] \in {"spawn", "register"}}) <= 1
    <3>1. \A p, q \in {r \in Queries : sPc[r] \in {"spawn", "register"}} : p = q
      BY <1>1 DEF ServersGate, Starter
    <3> QED
      BY <3>1, AtMostOne
  <2>2. ASSUME sClosing = "no" PROVE Cardinality(alive) <= 1
    <3>1. Servers!NoServer \notin alive
      BY <1>1 DEF ServersTypes, ServersStarted, Servers!NoServer
    <3>2. ASSUME NEW a \in alive, NEW b \in alive PROVE a = b
      <4>1. a = clients \/ \E q \in Queries : sPc[q] = "register" /\ use[q] = a
        BY <1>1, <2>2 DEF ServersGate
      <4>2. b = clients \/ \E q \in Queries : sPc[q] = "register" /\ use[q] = b
        BY <1>1, <2>2 DEF ServersGate
      <4>3. (\E q \in Queries : sPc[q] = "register") => clients = Servers!NoServer
        BY <1>1, <2>2 DEF ServersGate, Starter
      <4>4. \A p, q \in Queries : sPc[p] = "register" /\ sPc[q] = "register" => p = q
        BY <1>1 DEF ServersGate, Starter
      <4> QED
        BY <3>1, <4>1, <4>2, <4>3, <4>4
    <3> QED
      BY <3>2, AtMostOne
  <2> QED
    BY <1>1, <2>1, <2>2, Counting DEF Servers!OneServer, ServersGate, Starter
<1>3. Servers!SyncedText
  <2> SUFFICES ASSUME NEW s \in alive, ~overlap, \A q \in Queries : sPc[q] # "record"
               PROVE  held[s].edit >= docs[s].edit /\ held[s].version = docs[s].version
    BY DEF Servers!SyncedText
  <2>1. held[s].version = docs[s].version
    BY <1>1 DEF ServersReport, HeldNow, Recording
  <2>2. s \in Servers!Servers /\ held[s] \in Reports(s)
    BY <1>1, UseStarted DEF Reports
  <2>3. Reported(s, held[s])
    BY <1>1, <2>2 DEF ServersReport
  <2> QED
    BY <2>1, <2>3 DEF Reported
<1>4. Servers!CurrentProblems
  BY <1>1 DEF ServersReport, Servers!CurrentProblems
<1> QED
  BY <1>2, <1>3, <1>4

-----------------------------------------------------------------------------
(* The ACP agent (acp/server.go, service.go, dispatch.go).                 *)

AcpLabels ==
  {"idle", "begin", "build", "seed", "register", "run", "ask", "finish", "answer", "abort", "done"}
AcpAnswers == {"none", "replayed", "error", "opened", "end_turn", "cancelled"}
Opening == {"seed", "register"}
Turning == {"run", "ask", "finish"}
Holders == {r \in Opens : ctl[r] # Acp!NoController}
Askers == {p \in Prompts : permId[p] # 0}

AcpPlaces ==
  /\ serving \in {"reading", "draining", "down", "ended"}
  /\ aPc \in [Acp!Requests -> AcpLabels] /\ answer \in [Acp!Requests -> AcpAnswers]
AcpTables ==
  /\ built \in Nat /\ ctl \in [Acp!Requests -> 0..built] /\ sessions \in [Sessions -> 0..built]
  /\ cancelOf \in [Acp!Controllers -> Prompts \cup {Acp!Nobody}] /\ missed \subseteq Prompts
AcpWire ==
  /\ aNextID \in Nat /\ aPending \subseteq 1..aNextID
  /\ aChan \in [Acp!Ids -> {Acp!Nothing, "allow", "deny", Acp!Closed}]
  /\ perm \in [Prompts -> {"none", "request", "wait", "done"}]
  /\ permId \in [Prompts -> 0..aNextID]
  /\ verdict \in [Prompts -> {Acp!Nothing, "allow", "deny"}] /\ ran \subseteq Prompts
AcpTypes == AcpPlaces /\ AcpTables /\ AcpWire

(* No more controllers are built, and no more ids given, than there are    *)
(* requests to hold them: each has its place in the tables.                *)
Holding(r) ==
  /\ aPc[r] \in {"idle", "begin", "build"} => ctl[r] = Acp!NoController
  /\ aPc[r] \in Opening => ctl[r] # Acp!NoController
AcpCounts ==
  /\ built <= Cardinality(Holders) /\ aNextID <= Cardinality(Askers)
  /\ \A r \in Opens : Holding(r)

(* A controller is closed, replaced, registered, or in the hands of the    *)
(* request that has built it.                                              *)
Accounted(k) ==
  \/ k \in shut \/ k \in replaced
  \/ \E s \in Sessions : sessions[s] = k
  \/ \E r \in Opens : aPc[r] \in Opening /\ ctl[r] = k
AcpOpens ==
  /\ \A k \in 1..built : Accounted(k)
  /\ Acp!TornDown

(* A turn runs on the controller of its session, or on one that has been   *)
(* replaced, and its cancel is where an abort looks for it unless another  *)
(* turn had that controller too.                                           *)
Shared(p) == \E q \in Prompts \ {p} : ctl[q] = ctl[p]
AcpTurns ==
  /\ \A p \in Prompts : aPc[p] \in {"idle", "begin"} => ctl[p] = Acp!NoController
  /\ \A p \in Prompts : aPc[p] \in Turning =>
       /\ ctl[p] # Acp!NoController
       /\ ctl[p] = sessions[For[p]] \/ ctl[p] \in replaced
       /\ cancelOf[ctl[p]] = p \/ Shared(p)
  /\ \A p \in missed : ctl[p] # Acp!NoController
  /\ Acp!CancelFindsTurn

(* A pending id has an empty channel; an id is one request's; a verdict is *)
(* what came on the channel of the request's own id, after it was taken    *)
(* off the pending ones.                                                   *)
AcpPermits ==
  /\ \A p \in Prompts : permId[p] # 0 <=> perm[p] \in {"wait", "done"}
  /\ \A p, q \in Prompts : permId[p] = permId[q] /\ permId[p] # 0 => p = q
  /\ \A i \in Acp!Ids : i \in aPending \/ i > aNextID => aChan[i] = Acp!Nothing
  /\ \A p \in Prompts : perm[p] = "done" => permId[p] \notin aPending
  /\ \A p \in Prompts : verdict[p] = "allow" => perm[p] = "done" /\ aChan[permId[p]] = "allow"
  /\ \A p \in ran : verdict[p] = "allow"

AcpInv == AcpTypes /\ AcpCounts /\ AcpOpens /\ AcpTurns /\ AcpPermits

-----------------------------------------------------------------------------
LEMMA AcpFinite ==
  /\ IsFiniteSet(Opens) /\ Cardinality(Opens) \in Nat
  /\ IsFiniteSet(Prompts) /\ Cardinality(Prompts) \in Nat
BY RpcAssumption, FS_CardinalityType

LEMMA HoldersCount ==
  /\ IsFiniteSet(Holders) /\ Cardinality(Holders) \in Nat
  /\ Cardinality(Holders) <= Cardinality(Opens)
<1>1. Holders \subseteq Opens
  BY DEF Holders
<1> QED
  BY <1>1, AcpFinite, FS_Subset, FS_CardinalityType

LEMMA AskersCount ==
  /\ IsFiniteSet(Askers) /\ Cardinality(Askers) \in Nat
  /\ Cardinality(Askers) <= Cardinality(Prompts)
<1>1. Askers \subseteq Prompts
  BY DEF Askers
<1> QED
  BY <1>1, AcpFinite, FS_Subset, FS_CardinalityType

LEMMA Placed ==
  AcpTypes /\ AcpCounts => 1..built \subseteq Acp!Controllers /\ 1..aNextID \subseteq Acp!Ids
<1> SUFFICES ASSUME AcpTypes, AcpCounts
             PROVE  1..built \subseteq Acp!Controllers /\ 1..aNextID \subseteq Acp!Ids
  OBVIOUS
<1>1. built \in Nat /\ built <= Cardinality(Holders)
  BY DEF AcpTypes, AcpTables, AcpWire, AcpCounts
<1>2. aNextID \in Nat /\ aNextID <= Cardinality(Askers)
  BY DEF AcpTypes, AcpTables, AcpWire, AcpCounts
<1>3. 1..built \subseteq Acp!Controllers
  BY <1>1, HoldersCount, AcpFinite, Counting DEF Acp!Controllers
<1>4. 1..aNextID \subseteq Acp!Ids
  BY <1>2, AskersCount, AcpFinite, Counting DEF Acp!Ids
<1> QED
  BY <1>3, <1>4

LEMMA AcpInit == Acp!Init => AcpInv
<1> SUFFICES ASSUME Acp!Init PROVE AcpInv
  OBVIOUS
<1>1. AcpTypes
  BY DEF Acp!Init, AcpTypes, AcpPlaces, AcpTables, AcpWire, AcpLabels, AcpAnswers,
         Acp!NoController, Acp!Nobody, Acp!Nothing, Acp!Closed
<1>2. AcpCounts
  <2>1. built = 0 /\ aNextID = 0 /\ \A r \in Opens : aPc[r] = "idle" /\ ctl[r] = Acp!NoController
    BY DEF Acp!Init, Acp!Requests
  <2> QED
    BY <2>1, HoldersCount, AskersCount DEF AcpCounts, Holding, Opening
<1>3. AcpOpens
  BY DEF Acp!Init, AcpOpens, Acp!TornDown, Acp!Requests
<1>4. AcpTurns
  BY DEF Acp!Init, AcpTurns, Acp!CancelFindsTurn, Acp!Requests, Turning
<1>5. AcpPermits
  BY DEF Acp!Init, AcpPermits, Acp!Nothing
<1> QED
  BY <1>1, <1>2, <1>3, <1>4, <1>5 DEF AcpInv

-----------------------------------------------------------------------------
LEMMA StepAcpTypes == AcpInv /\ [Acp!Next]_(Acp!vars) => AcpTypes'
<1> SUFFICES ASSUME AcpInv, [Acp!Next]_(Acp!vars) PROVE AcpTypes'
  OBVIOUS
<1>0. AcpTypes /\ AcpCounts
  BY DEF AcpInv
<1>h. Acp!Requests = Opens \cup Prompts \cup Cancels /\ For \in [Acp!Requests -> Sessions]
  BY RpcAssumption DEF Acp!Requests
<1>1. /\ serving' \in {"reading", "draining", "down", "ended"}
      /\ aPc' \in [Acp!Requests -> AcpLabels]
  <2>1. CASE UNCHANGED <<serving, aPc>>
    BY <1>0, <2>1 DEF AcpTypes, AcpPlaces
  <2>2. CASE serving' = serving /\ \E r \in Acp!Requests, l \in AcpLabels : Acp!Goto(r, l)
    BY <1>0, <2>2 DEF AcpTypes, AcpPlaces, Acp!Goto
  <2>3. CASE Acp!Eof \/ Acp!Shutdown \/ Acp!CloseAll
    BY <1>0, <2>3 DEF AcpTypes, AcpPlaces, Acp!Eof, Acp!Shutdown, Acp!CloseAll, Acp!handlers
  <2>4. ASSUME NEW r \in Acp!Requests, Acp!Dispatch(r) \/ Acp!Handler(r)
        PROVE  serving' = serving /\ \E l \in AcpLabels : Acp!Goto(r, l)
    BY <2>4
       DEF Acp!Dispatch, Acp!Handler, Acp!Open, Acp!Build, Acp!Seed, Acp!Register, Acp!Prompt,
           Acp!Told, Acp!Finish, Acp!Answer, Acp!Abort, Acp!CallCancel, Acp!Says, AcpLabels
  <2>5. ASSUME NEW p \in Prompts, Acp!Ask(p) \/ Acp!EndTurn(p) \/ Acp!Permission(p) \/ Acp!Resolve(p)
        PROVE  /\ serving' = serving
               /\ aPc' = aPc \/ \E l \in AcpLabels : Acp!Goto(p, l)
    BY <2>5
       DEF Acp!Ask, Acp!EndTurn, Acp!Permission, Acp!Request, Acp!Approve, Acp!Resolve,
           Acp!handlers, AcpLabels
  <2> QED
    BY <1>h, <2>1, <2>2, <2>3, <2>4, <2>5 DEF Acp!Next, Acp!vars, Acp!handlers
<1>2. answer' \in [Acp!Requests -> AcpAnswers]
  <2>1. CASE answer' = answer
    BY <1>0, <2>1 DEF AcpTypes, AcpPlaces
  <2>2. CASE \E r \in Acp!Requests, what \in AcpAnswers : answer' = [answer EXCEPT ![r] = what]
    BY <1>0, <2>2 DEF AcpTypes, AcpPlaces
  <2>3. ASSUME NEW r \in Acp!Requests, Acp!Dispatch(r) \/ Acp!Handler(r)
        PROVE  answer' = answer \/ \E what \in AcpAnswers : answer' = [answer EXCEPT ![r] = what]
    BY <2>3
       DEF Acp!Dispatch, Acp!Handler, Acp!Open, Acp!Build, Acp!Seed, Acp!Register, Acp!Prompt,
           Acp!Told, Acp!Finish, Acp!Answer, Acp!Abort, Acp!CallCancel, Acp!Says,
           Acp!StopReason, AcpAnswers
  <2>4. ASSUME NEW p \in Prompts, Acp!Ask(p) \/ Acp!EndTurn(p) \/ Acp!Permission(p) \/ Acp!Resolve(p)
        PROVE  answer' = answer
    BY <2>4
       DEF Acp!Ask, Acp!EndTurn, Acp!Permission, Acp!Request, Acp!Approve, Acp!Resolve,
           Acp!handlers
  <2>5. CASE Acp!Eof \/ Acp!Shutdown \/ Acp!CloseAll
    BY <2>1, <2>5 DEF Acp!Eof, Acp!Shutdown, Acp!CloseAll, Acp!handlers
  <2> QED
    BY <2>1, <2>2, <2>3, <2>4, <2>5 DEF Acp!Next, Acp!vars, Acp!handlers
<1>3. AcpTables'
  <2>t. /\ built \in Nat /\ ctl \in [Acp!Requests -> 0..built] /\ sessions \in [Sessions -> 0..built]
        /\ cancelOf \in [Acp!Controllers -> Prompts \cup {Acp!Nobody}] /\ missed \subseteq Prompts
    BY <1>0 DEF AcpTypes, AcpTables
  <2>0. CASE UNCHANGED <<built, ctl, sessions, cancelOf, missed>>
    BY <2>t, <2>0 DEF AcpTables
  <2>1. ASSUME NEW r \in Opens, Acp!Build(r) PROVE AcpTables'
    <3>1. CASE built' = built + 1 /\ ctl' = [ctl EXCEPT ![r] = built + 1]
      <4>1. UNCHANGED <<sessions, cancelOf, missed>>
        BY <2>1 DEF Acp!Build, Acp!turns
      <4>2. sessions \in [Sessions -> 0..(built + 1)] /\ ctl \in [Acp!Requests -> 0..(built + 1)]
        BY <2>t
      <4>3. built' \in Nat /\ built + 1 \in 0..(built + 1)
        BY <2>t, <3>1
      <4>4. ctl' \in [Acp!Requests -> 0..(built + 1)]
        BY <3>1, <4>2, <4>3
      <4> QED
        BY <2>t, <3>1, <4>1, <4>2, <4>3, <4>4 DEF AcpTables
    <3>2. CASE UNCHANGED <<built, ctl>>
      BY <2>0, <2>1, <3>2 DEF Acp!Build, Acp!turns
    <3> QED
      BY <2>1, <3>1, <3>2 DEF Acp!Build
  <2>2. ASSUME NEW r \in Opens, Acp!Register(r) PROVE AcpTables'
    BY <1>h, <2>t, <2>2 DEF Acp!Register, Acp!turns, AcpTables
  <2>3. ASSUME NEW p \in Prompts, Acp!Prompt(p) PROVE AcpTables'
    BY <1>h, <2>t, <2>3 DEF Acp!Prompt, Acp!registry, AcpTables
  <2>4. ASSUME NEW p \in Prompts, Acp!Finish(p) PROVE AcpTables'
    BY <2>t, <2>4 DEF Acp!Finish, Acp!registry, AcpTables
  <2>5. ASSUME NEW x \in Cancels, Acp!Abort(x) PROVE AcpTables'
    BY <2>t, <2>5 DEF Acp!Abort, Acp!registry, AcpTables
  <2>6. CASE Acp!CloseAll
    BY <2>t, <2>6 DEF Acp!CloseAll, Acp!handlers, Acp!turns, Acp!NoController, AcpTables
  <2>7. ASSUME NEW r \in Acp!Requests, Acp!Dispatch(r) \/ Acp!Open(r) \/ Acp!Seed(r) \/
                 Acp!Told(r) \/ Acp!Answer(r) \/ Acp!CallCancel(r)
        PROVE  UNCHANGED <<built, ctl, sessions, cancelOf, missed>>
    BY <2>7
       DEF Acp!Dispatch, Acp!Open, Acp!Seed, Acp!Told, Acp!Answer, Acp!CallCancel,
           Acp!registry, Acp!turns
  <2>8. ASSUME NEW p \in Prompts, Acp!Ask(p) \/ Acp!EndTurn(p) \/ Acp!Permission(p) \/ Acp!Resolve(p)
        PROVE  UNCHANGED <<built, ctl, sessions, cancelOf, missed>>
    BY <2>8
       DEF Acp!Ask, Acp!EndTurn, Acp!Permission, Acp!Request, Acp!Approve, Acp!Resolve,
           Acp!handlers, Acp!registry, Acp!turns
  <2>9. CASE Acp!Eof \/ Acp!Shutdown \/ UNCHANGED Acp!vars
    BY <2>0, <2>9 DEF Acp!Eof, Acp!Shutdown, Acp!vars, Acp!handlers, Acp!registry, Acp!turns
  <2> QED
    BY <2>0, <2>1, <2>2, <2>3, <2>4, <2>5, <2>6, <2>7, <2>8, <2>9 DEF Acp!Next, Acp!Handler
<1>4. AcpWire'
  <2>t. /\ aNextID \in Nat /\ aPending \subseteq 1..aNextID
        /\ aChan \in [Acp!Ids -> {Acp!Nothing, "allow", "deny", Acp!Closed}]
        /\ perm \in [Prompts -> {"none", "request", "wait", "done"}]
        /\ permId \in [Prompts -> 0..aNextID]
        /\ verdict \in [Prompts -> {Acp!Nothing, "allow", "deny"}] /\ ran \subseteq Prompts
    BY <1>0 DEF AcpTypes, AcpWire
  <2>0. CASE UNCHANGED Acp!permission
    BY <2>t, <2>0 DEF Acp!permission, AcpWire
  <2>1. ASSUME NEW p \in Prompts, Acp!Ask(p) \/ Acp!Told(p) PROVE AcpWire'
    BY <2>t, <2>1 DEF Acp!Ask, Acp!Told, AcpWire
  <2>2. ASSUME NEW p \in Prompts, Acp!Request(p) PROVE AcpWire'
    <3>1. permId \in [Prompts -> 0..(aNextID + 1)] /\ aNextID + 1 \in 0..(aNextID + 1)
      BY <2>t
    <3> QED
      BY <2>t, <2>2, <3>1 DEF Acp!Request, Acp!FreshId, AcpWire
  <2>3. ASSUME NEW p \in Prompts, Acp!Resolve(p) PROVE AcpWire'
    BY <2>t, <2>3 DEF Acp!Resolve, AcpWire
  <2>4. ASSUME NEW p \in Prompts, Acp!Approve(p) PROVE AcpWire'
    BY <2>t, <2>4 DEF Acp!Approve, AcpWire
  <2>5. CASE Acp!Shutdown
    <3>1. aPending' = {} /\ UNCHANGED <<aNextID, perm, permId, verdict, ran>>
      BY <2>5 DEF Acp!Shutdown
    <3>2. aChan' \in [Acp!Ids -> {Acp!Nothing, "allow", "deny", Acp!Closed}]
      BY <2>t, <2>5 DEF Acp!Shutdown
    <3> QED
      BY <2>t, <3>1, <3>2 DEF AcpWire
  <2>6. ASSUME NEW r \in Acp!Requests, Acp!Dispatch(r) \/ Acp!Handler(r), ~(r \in Prompts /\
                 Acp!Told(r))
        PROVE  UNCHANGED Acp!permission
    BY <2>6
       DEF Acp!Dispatch, Acp!Handler, Acp!Open, Acp!Build, Acp!Seed, Acp!Register, Acp!Prompt,
           Acp!Finish, Acp!Answer, Acp!Abort, Acp!CallCancel
  <2>7. ASSUME NEW p \in Prompts, Acp!EndTurn(p) PROVE UNCHANGED Acp!permission
    BY <2>7 DEF Acp!EndTurn
  <2>8. CASE Acp!Eof \/ Acp!CloseAll \/ UNCHANGED Acp!vars
    BY <2>0, <2>8 DEF Acp!Eof, Acp!CloseAll, Acp!vars, AcpWire
  <2> QED
    BY <2>0, <2>1, <2>2, <2>3, <2>4, <2>5, <2>6, <2>7, <2>8 DEF Acp!Next, Acp!Permission
<1> QED
  BY <1>1, <1>2, <1>3, <1>4 DEF AcpTypes, AcpPlaces

LEMMA StepAcpCounts == AcpInv /\ [Acp!Next]_(Acp!vars) => AcpCounts'
<1> SUFFICES ASSUME AcpInv, [Acp!Next]_(Acp!vars) PROVE AcpCounts'
  OBVIOUS
<1>0. AcpTypes /\ AcpCounts /\ AcpPermits
  BY DEF AcpInv
<1>h. Acp!Requests = Opens \cup Prompts \cup Cancels
  BY DEF Acp!Requests
<1>1. built' <= Cardinality(Holders)'
  <2>0. CASE UNCHANGED <<built, Holders>>
    BY <1>0, <2>0 DEF AcpCounts
  <2>1. ASSUME NEW r \in Opens, Acp!Build(r) PROVE built' <= Cardinality(Holders)'
    <3>1. CASE built' = built + 1 /\ ctl' = [ctl EXCEPT ![r] = built + 1]
      <4>1. ctl[r] = Acp!NoController /\ ctl \in [Acp!Requests -> 0..built] /\ built \in Nat
        BY <1>0, <2>1 DEF AcpTypes, AcpTables, AcpCounts, Holding, Acp!Build
      <4>2. Holders' = Holders \cup {r} /\ r \notin Holders
        BY <1>h, <3>1, <4>1 DEF Holders, Acp!NoController
      <4>3. Cardinality(Holders') = Cardinality(Holders) + 1
        BY <4>2, HoldersCount, FS_AddElement
      <4>4. built <= Cardinality(Holders)
        BY <1>0 DEF AcpCounts
      <4> QED
        BY <3>1, <4>1, <4>3, <4>4, HoldersCount
    <3>2. CASE UNCHANGED <<built, ctl>>
      BY <2>0, <3>2 DEF Holders
    <3> QED
      BY <2>1, <3>1, <3>2 DEF Acp!Build
  <2>2. ASSUME NEW p \in Prompts, Acp!Prompt(p) PROVE UNCHANGED <<built, Holders>>
    <3>1. built' = built /\ \A r \in Opens : ctl'[r] = ctl[r]
      BY <1>0, <1>h, <2>2, RpcAssumption DEF Acp!Prompt, Acp!registry, AcpTypes, AcpTables
    <3> QED
      BY <3>1 DEF Holders
  <2>3. ASSUME NEW r \in Acp!Requests, Acp!Dispatch(r) \/ Acp!Handler(r),
               ~(r \in Opens /\ Acp!Build(r)), ~(r \in Prompts /\ Acp!Prompt(r))
        PROVE  UNCHANGED <<built, ctl>>
    BY <2>3
       DEF Acp!Dispatch, Acp!Handler, Acp!Open, Acp!Seed, Acp!Register, Acp!Told, Acp!Finish,
           Acp!Answer, Acp!Abort, Acp!CallCancel, Acp!registry
  <2>4. ASSUME NEW p \in Prompts, Acp!Ask(p) \/ Acp!EndTurn(p) \/ Acp!Permission(p) \/ Acp!Resolve(p)
        PROVE  UNCHANGED <<built, ctl>>
    BY <2>4
       DEF Acp!Ask, Acp!EndTurn, Acp!Permission, Acp!Request, Acp!Approve, Acp!Resolve,
           Acp!handlers, Acp!registry
  <2>5. CASE Acp!Eof \/ Acp!Shutdown \/ Acp!CloseAll \/ UNCHANGED Acp!vars
    BY <2>0, <2>5
       DEF Acp!Eof, Acp!Shutdown, Acp!CloseAll, Acp!vars, Acp!handlers, Acp!registry, Holders
  <2>6. ASSUME UNCHANGED <<built, ctl>> PROVE UNCHANGED <<built, Holders>>
    BY <2>6 DEF Holders
  <2> QED
    BY <2>0, <2>1, <2>2, <2>3, <2>4, <2>5, <2>6 DEF Acp!Next
<1>2. aNextID' <= Cardinality(Askers)'
  <2>0. CASE UNCHANGED <<aNextID, permId>>
    BY <1>0, <2>0 DEF AcpCounts, Askers
  <2>1. ASSUME NEW p \in Prompts, Acp!Request(p) PROVE aNextID' <= Cardinality(Askers)'
    <3>1. permId[p] = 0 /\ permId \in [Prompts -> 0..aNextID] /\ aNextID \in Nat
      BY <1>0, <2>1 DEF AcpTypes, AcpWire, AcpPermits, Acp!Request
    <3>2. aNextID' = aNextID + 1 /\ permId' = [permId EXCEPT ![p] = aNextID + 1]
      BY <2>1 DEF Acp!Request, Acp!FreshId
    <3>3. Askers' = Askers \cup {p} /\ p \notin Askers
      BY <3>1, <3>2 DEF Askers
    <3>4. Cardinality(Askers') = Cardinality(Askers) + 1
      BY <3>3, AskersCount, FS_AddElement
    <3>5. aNextID <= Cardinality(Askers)
      BY <1>0 DEF AcpCounts
    <3> QED
      BY <3>1, <3>2, <3>4, <3>5, AskersCount
  <2>2. ASSUME NEW r \in Acp!Requests, Acp!Dispatch(r) \/ Acp!Handler(r)
        PROVE  UNCHANGED <<aNextID, permId>>
    BY <2>2
       DEF Acp!Dispatch, Acp!Handler, Acp!Open, Acp!Build, Acp!Seed, Acp!Register, Acp!Prompt,
           Acp!Told, Acp!Finish, Acp!Answer, Acp!Abort, Acp!CallCancel, Acp!permission
  <2>3. ASSUME NEW p \in Prompts, Acp!Ask(p) \/ Acp!EndTurn(p) \/ Acp!Approve(p) \/ Acp!Resolve(p)
        PROVE  UNCHANGED <<aNextID, permId>>
    BY <2>3 DEF Acp!Ask, Acp!EndTurn, Acp!Approve, Acp!Resolve, Acp!permission
  <2>4. CASE Acp!Eof \/ Acp!Shutdown \/ Acp!CloseAll \/ UNCHANGED Acp!vars
    BY <2>0, <2>4 DEF Acp!Eof, Acp!Shutdown, Acp!CloseAll, Acp!vars, Acp!permission
  <2> QED
    BY <2>0, <2>1, <2>2, <2>3, <2>4 DEF Acp!Next, Acp!Permission
<1>3. ASSUME NEW q \in Opens PROVE Holding(q)'
  <2>t. /\ q \in Acp!Requests /\ aPc \in [Acp!Requests -> AcpLabels] /\
             ctl \in [Acp!Requests -> 0..built] /\ built \in Nat
        /\ Holding(q)
    BY <1>0, <1>h DEF AcpTypes, AcpPlaces, AcpTables, AcpCounts
  <2>1. CASE aPc'[q] = aPc[q] /\ ctl'[q] = ctl[q]
    BY <2>t, <2>1 DEF Holding
  <2>2. ASSUME NEW r \in Acp!Requests, Acp!Dispatch(r) PROVE Holding(q)'
    BY <2>t, <2>2 DEF Acp!Dispatch, Acp!Goto, Opening, Holding
  <2>3. ASSUME NEW r \in Opens, Acp!Open(r) \/ Acp!Seed(r) \/ Acp!Register(r)
        PROVE  Holding(q)'
    BY <1>h, <2>t, <2>3
       DEF Acp!Open, Acp!Seed, Acp!Register, Acp!Says, Acp!Goto, Opening, Holding
  <2>4. ASSUME NEW r \in Opens, Acp!Build(r) PROVE Holding(q)'
    BY <1>h, <2>t, <2>4 DEF Acp!Build, Acp!Says, Acp!Goto, Opening, Holding, Acp!NoController
  <2>5. ASSUME NEW r \in Acp!Requests, r \notin Opens, Acp!Handler(r)
        PROVE  aPc'[q] = aPc[q] /\ ctl'[q] = ctl[q]
    BY <1>h, <2>t, <2>5
       DEF Acp!Handler, Acp!Prompt, Acp!Told, Acp!Finish, Acp!Answer, Acp!Abort,
           Acp!CallCancel, Acp!Says, Acp!Goto
  <2>6. ASSUME NEW p \in Prompts, Acp!Ask(p) \/ Acp!EndTurn(p) \/ Acp!Permission(p) \/ Acp!Resolve(p)
        PROVE  aPc'[q] = aPc[q] /\ ctl'[q] = ctl[q]
    BY <1>h, <2>t, <2>6, RpcAssumption
       DEF Acp!Ask, Acp!EndTurn, Acp!Permission, Acp!Request, Acp!Approve, Acp!Resolve,
           Acp!handlers, Acp!Goto
  <2>7. CASE Acp!Eof \/ Acp!Shutdown \/ Acp!CloseAll \/ UNCHANGED Acp!vars
    BY <2>1, <2>7 DEF Acp!Eof, Acp!Shutdown, Acp!CloseAll, Acp!vars, Acp!handlers
  <2>8. ASSUME NEW r \in Opens, Acp!Handler(r)
        PROVE  Acp!Open(r) \/ Acp!Build(r) \/ Acp!Seed(r) \/ Acp!Register(r)
    BY <2>8, RpcAssumption DEF Acp!Handler
  <2> QED
    BY <2>1, <2>2, <2>3, <2>4, <2>5, <2>6, <2>7, <2>8 DEF Acp!Next
<1> QED
  BY <1>1, <1>2, <1>3 DEF AcpCounts

LEMMA StepAcpOpens == AcpInv /\ [Acp!Next]_(Acp!vars) => AcpOpens'
<1> SUFFICES ASSUME AcpInv, [Acp!Next]_(Acp!vars) PROVE AcpOpens'
  OBVIOUS
<1>0. AcpTypes /\ AcpCounts /\ AcpOpens
  BY DEF AcpInv
<1>h. Acp!Requests = Opens \cup Prompts \cup Cancels /\ For \in [Acp!Requests -> Sessions]
  BY RpcAssumption DEF Acp!Requests
<1>t. /\ serving \in {"reading", "draining", "down", "ended"} /\ built \in Nat
      /\ aPc \in [Acp!Requests -> AcpLabels] /\ ctl \in [Acp!Requests -> 0..built]
      /\ answer \in [Acp!Requests -> AcpAnswers] /\ sessions \in [Sessions -> 0..built]
  BY <1>0 DEF AcpTypes, AcpPlaces, AcpTables
<1>1. ASSUME serving' \in {"down", "ended"}, NEW r \in Acp!Requests
      PROVE  aPc'[r] \in {"idle", "done"}
  <2>1. CASE serving \in {"down", "ended"}
    <3>1. \A q \in Acp!Requests : aPc[q] \in {"idle", "done"}
      BY <1>0, <2>1 DEF AcpOpens, Acp!TornDown
    <3>2. ASSUME NEW q \in Acp!Requests, Acp!Dispatch(q) \/ Acp!Handler(q) PROVE FALSE
      BY <2>1, <3>1, <3>2
         DEF Acp!Dispatch, Acp!Handler, Acp!Open, Acp!Build, Acp!Seed, Acp!Register,
             Acp!Prompt, Acp!Told, Acp!Finish, Acp!Answer, Acp!Abort, Acp!CallCancel
    <3>3. ASSUME NEW p \in Prompts, Acp!Ask(p) \/ Acp!EndTurn(p) PROVE FALSE
      BY <1>h, <3>1, <3>3 DEF Acp!Ask, Acp!EndTurn
    <3>4. aPc' = aPc
      BY <3>2, <3>3
         DEF Acp!Next, Acp!Permission, Acp!Request, Acp!Approve, Acp!Resolve, Acp!Eof,
             Acp!Shutdown, Acp!CloseAll, Acp!vars, Acp!handlers
    <3> QED
      BY <3>1, <3>4
  <2>2. CASE serving \notin {"down", "ended"}
    <3>1. ASSUME NEW q \in Acp!Requests, Acp!Dispatch(q) \/ Acp!Handler(q)
          PROVE  serving' = serving
      BY <3>1
         DEF Acp!Dispatch, Acp!Handler, Acp!Open, Acp!Build, Acp!Seed, Acp!Register,
             Acp!Prompt, Acp!Told, Acp!Finish, Acp!Answer, Acp!Abort, Acp!CallCancel
    <3>2. Acp!Shutdown
      BY <1>1, <2>2, <3>1
         DEF Acp!Next, Acp!Ask, Acp!EndTurn, Acp!Permission, Acp!Request, Acp!Approve,
             Acp!Resolve, Acp!Eof, Acp!CloseAll, Acp!vars
    <3> QED
      BY <3>2 DEF Acp!Shutdown, Acp!HandlersDone, Acp!handlers
  <2> QED
    BY <2>1, <2>2
<1>2. ASSUME NEW q \in Opens \cup Prompts PROVE aPc'[q] = "done" <=> answer'[q] # "none"
  <2>t. q \in Acp!Requests /\ (aPc[q] = "done" <=> answer[q] # "none")
    BY <1>0, <1>h DEF AcpOpens, Acp!TornDown
  <2>1. CASE aPc'[q] = aPc[q] /\ answer'[q] = answer[q]
    BY <2>t, <2>1
  <2>2. ASSUME NEW r \in Acp!Requests, NEW l \in AcpLabels, Acp!Goto(r, l), l # "done",
                 aPc[r] # "done", answer' = answer
        PROVE  aPc'[q] = "done" <=> answer'[q] # "none"
    BY <1>t, <2>t, <2>2 DEF Acp!Goto
  <2>3. ASSUME NEW r \in Acp!Requests, NEW what \in AcpAnswers, Acp!Says(r, what), what # "none"
        PROVE  aPc'[q] = "done" <=> answer'[q] # "none"
    BY <1>t, <2>t, <2>3 DEF Acp!Says, Acp!Goto
  <2>4. ASSUME NEW r \in Opens \cup Prompts, Acp!Handler(r)
        PROVE  \/ \E l \in AcpLabels : Acp!Goto(r, l) /\ l # "done" /\ aPc[r] # "done" /\
                    answer' = answer
               \/ \E what \in AcpAnswers : Acp!Says(r, what) /\ what # "none"
    <3>1. CASE r \in Opens
      BY <2>4, <3>1, RpcAssumption
         DEF Acp!Handler, Acp!Open, Acp!Build, Acp!Seed, Acp!Register, AcpLabels, AcpAnswers
    <3>2. CASE r \in Prompts
      BY <2>4, <3>2, RpcAssumption
         DEF Acp!Handler, Acp!Prompt, Acp!Told, Acp!Finish, Acp!Answer, AcpLabels, AcpAnswers,
             Acp!StopReason
    <3> QED
      BY <3>1, <3>2
  <2>5. ASSUME NEW r \in Acp!Requests, Acp!Dispatch(r)
        PROVE  aPc'[q] = "done" <=> answer'[q] # "none"
    <3>1. Acp!Goto(r, "begin") /\ aPc[r] # "done" /\ answer' = answer /\ "begin" \in AcpLabels
      BY <2>5 DEF Acp!Dispatch, AcpLabels
    <3> QED
      BY <2>2, <3>1
  <2>6. ASSUME NEW x \in Cancels, Acp!Handler(x)
        PROVE  aPc'[q] = aPc[q] /\ answer'[q] = answer[q]
    BY <1>h, <1>t, <2>t, <2>6, RpcAssumption
       DEF Acp!Handler, Acp!Abort, Acp!CallCancel, Acp!Goto
  <2>7. ASSUME NEW p \in Prompts, Acp!Ask(p) \/ Acp!EndTurn(p)
        PROVE  aPc'[q] = "done" <=> answer'[q] # "none"
    <3>1. \E l \in AcpLabels : Acp!Goto(p, l) /\ l # "done" /\ aPc[p] # "done" /\ answer' = answer
      BY <2>7 DEF Acp!Ask, Acp!EndTurn, AcpLabels
    <3> QED
      BY <1>h, <2>2, <3>1
  <2>8. ASSUME \/ \E p \in Prompts : Acp!Permission(p) \/ Acp!Resolve(p)
               \/ Acp!Eof \/ Acp!Shutdown \/ Acp!CloseAll \/ UNCHANGED Acp!vars
        PROVE  aPc'[q] = aPc[q] /\ answer'[q] = answer[q]
    BY <2>8
       DEF Acp!Permission, Acp!Request, Acp!Approve, Acp!Resolve, Acp!Eof, Acp!Shutdown,
           Acp!CloseAll, Acp!vars, Acp!handlers
  <2> QED
    BY <1>h, <2>1, <2>2, <2>3, <2>4, <2>5, <2>6, <2>7, <2>8 DEF Acp!Next
<1>3. ASSUME NEW k \in 1..built' PROVE Accounted(k)'
  <2>0. k \in 1..built => Accounted(k)
    BY <1>0 DEF AcpOpens
  <2>1. ASSUME NEW r \in Opens, Acp!Build(r) PROVE Accounted(k)'
    <3>1. UNCHANGED <<shut, replaced, sessions>> /\ r \in Acp!Requests /\ aPc[r] = "build"
      BY <1>h, <2>1 DEF Acp!Build
    <3>2. CASE built' = built + 1 /\ ctl' = [ctl EXCEPT ![r] = built + 1] /\
                 aPc' = [aPc EXCEPT ![r] = "seed"]
      <4>1. CASE k = built + 1
        BY <1>t, <3>1, <3>2, <4>1 DEF Accounted, Opening
      <4>2. CASE k # built + 1
        BY <1>h, <1>t, <2>0, <3>1, <3>2, <4>2 DEF Accounted, Opening
      <4> QED
        BY <4>1, <4>2
    <3>3. CASE built' = built /\ ctl' = ctl /\ aPc' = [aPc EXCEPT ![r] = "done"]
      BY <1>h, <1>t, <2>0, <3>1, <3>3 DEF Accounted, Opening
    <3> QED
      BY <2>1, <3>2, <3>3 DEF Acp!Build, Acp!Says, Acp!Goto
  <2>2. ASSUME NEW r \in Opens, Acp!Seed(r) PROVE Accounted(k)'
    <3>1. /\ UNCHANGED <<built, ctl, replaced, sessions>> /\ r \in Acp!Requests /\ aPc[r] = "seed"
          /\ \/ aPc' = [aPc EXCEPT ![r] = "register"] /\ shut' = shut
             \/ aPc' = [aPc EXCEPT ![r] = "done"] /\ shut' = shut \cup {ctl[r]}
      BY <1>h, <2>2 DEF Acp!Seed, Acp!CloseIt, Acp!Says, Acp!Goto
    <3> QED
      BY <1>h, <1>t, <2>0, <3>1 DEF Accounted, Opening
  <2>3. ASSUME NEW r \in Opens, Acp!Register(r) PROVE Accounted(k)'
    <3>1. /\ UNCHANGED <<built, ctl, shut>> /\ r \in Acp!Requests /\ aPc' = [aPc EXCEPT ![r] = "done"]
          /\ sessions' = [sessions EXCEPT ![For[r]] = ctl[r]]
          /\ replaced' = replaced \cup ({sessions[For[r]]} \ {Acp!NoController})
          /\ For[r] \in Sessions
      BY <1>h, <2>3 DEF Acp!Register, Acp!Says, Acp!Goto
    <3>2. k \in 1..built
      BY <3>1
    <3>3. CASE k \in shut \/ k \in replaced
      BY <3>1, <3>3 DEF Accounted
    <3>4. ASSUME NEW s \in Sessions, sessions[s] = k PROVE Accounted(k)'
      <4>1. CASE s = For[r]
        BY <1>t, <3>1, <3>2, <3>4, <4>1 DEF Accounted, Acp!NoController
      <4>2. CASE s # For[r]
        BY <1>t, <3>1, <3>4, <4>2 DEF Accounted
      <4> QED
        BY <4>1, <4>2
    <3>5. ASSUME NEW q \in Opens, aPc[q] \in Opening, ctl[q] = k PROVE Accounted(k)'
      <4>1. CASE q = r
        BY <1>t, <3>1, <3>5, <4>1 DEF Accounted
      <4>2. CASE q # r
        BY <1>h, <1>t, <3>1, <3>5, <4>2 DEF Accounted
      <4> QED
        BY <4>1, <4>2
    <3> QED
      BY <2>0, <3>2, <3>3, <3>4, <3>5 DEF Accounted
  <2>4. CASE Acp!CloseAll
    <3>1. /\ UNCHANGED <<built, aPc, ctl, replaced>>
          /\ shut' = shut \cup {sessions[s] : s \in {t \in Sessions : sessions[t] # Acp!NoController}}
      BY <2>4 DEF Acp!CloseAll, Acp!handlers
    <3>2. k \in 1..built /\ k # Acp!NoController
      BY <1>t, <3>1 DEF Acp!NoController
    <3>3. ASSUME NEW s \in Sessions, sessions[s] = k PROVE k \in shut'
      BY <3>1, <3>2, <3>3
    <3>4. k \in shut => k \in shut'
      BY <3>1
    <3> QED
      BY <2>0, <3>1, <3>2, <3>3, <3>4 DEF Accounted
  <2>5. ASSUME UNCHANGED <<built, shut, replaced, sessions>>,
               \A q \in Opens : aPc[q] \in Opening => aPc'[q] = aPc[q] /\ ctl'[q] = ctl[q]
        PROVE  Accounted(k)'
    BY <2>0, <2>5 DEF Accounted
  <2>6. ASSUME NEW r \in Acp!Requests, Acp!Dispatch(r) \/ Acp!Handler(r),
               ~(r \in Opens /\ (Acp!Build(r) \/ Acp!Seed(r) \/ Acp!Register(r)))
        PROVE  /\ UNCHANGED <<built, shut, replaced, sessions>>
               /\ \A q \in Opens : aPc[q] \in Opening => aPc'[q] = aPc[q] /\ ctl'[q] = ctl[q]
    <3>1. CASE Acp!Dispatch(r)
      BY <1>h, <1>t, <3>1 DEF Acp!Dispatch, Acp!registry, Acp!Goto, Opening
    <3>2. CASE r \in Opens /\ Acp!Open(r)
      BY <1>h, <1>t, <3>2 DEF Acp!Open, Acp!registry, Acp!Goto, Acp!Says, Opening
    <3>3. CASE r \in Prompts /\ (Acp!Prompt(r) \/ Acp!Told(r) \/ Acp!Finish(r) \/ Acp!Answer(r))
      BY <1>h, <1>t, <3>3, RpcAssumption
         DEF Acp!Prompt, Acp!Told, Acp!Finish, Acp!Answer, Acp!registry, Acp!Goto, Acp!Says
    <3>4. CASE r \in Cancels /\ (Acp!Abort(r) \/ Acp!CallCancel(r))
      BY <1>h, <1>t, <3>4, RpcAssumption DEF Acp!Abort, Acp!CallCancel, Acp!registry, Acp!Goto
    <3> QED
      BY <2>6, <3>1, <3>2, <3>3, <3>4 DEF Acp!Handler
  <2>7. ASSUME NEW p \in Prompts, Acp!Ask(p) \/ Acp!EndTurn(p) \/ Acp!Permission(p) \/ Acp!Resolve(p)
        PROVE  /\ UNCHANGED <<built, shut, replaced, sessions>>
               /\ \A q \in Opens : aPc[q] \in Opening => aPc'[q] = aPc[q] /\ ctl'[q] = ctl[q]
    BY <1>h, <1>t, <2>7, RpcAssumption
       DEF Acp!Ask, Acp!EndTurn, Acp!Permission, Acp!Request, Acp!Approve, Acp!Resolve,
           Acp!registry, Acp!handlers, Acp!Goto
  <2>8. CASE Acp!Eof \/ Acp!Shutdown \/ UNCHANGED Acp!vars
    BY <2>5, <2>8 DEF Acp!Eof, Acp!Shutdown, Acp!vars, Acp!registry, Acp!handlers
  <2> QED
    BY <2>1, <2>2, <2>3, <2>4, <2>5, <2>6, <2>7, <2>8 DEF Acp!Next
<1>4. ASSUME serving' = "ended" PROVE ((1..built) \ shut \subseteq replaced)'
  <2>1. CASE Acp!CloseAll
    <3>1. \A r \in Opens : aPc[r] \notin Opening
      BY <1>0, <1>h, <2>1 DEF Acp!CloseAll, AcpOpens, Acp!TornDown, Opening
    <3>2. \A s \in Sessions : sessions'[s] = Acp!NoController /\ UNCHANGED <<built, aPc>>
      BY <2>1 DEF Acp!CloseAll, Acp!handlers
    <3>3. ASSUME NEW k \in (1..built)' PROVE k \in shut' \/ k \in replaced'
      <4>1. Accounted(k)' /\ k # Acp!NoController
        BY <1>3, <1>t, <3>2 DEF Acp!NoController
      <4> QED
        BY <3>1, <3>2, <3>3, <4>1, <2>1 DEF Accounted, Acp!CloseAll, Acp!handlers
    <3> QED
      BY <3>3
  <2>2. CASE ~Acp!CloseAll
    <3>1. ASSUME NEW q \in Acp!Requests, Acp!Dispatch(q) \/ Acp!Handler(q)
          PROVE  serving' = serving
      BY <3>1
         DEF Acp!Dispatch, Acp!Handler, Acp!Open, Acp!Build, Acp!Seed, Acp!Register,
             Acp!Prompt, Acp!Told, Acp!Finish, Acp!Answer, Acp!Abort, Acp!CallCancel
    <3>2. serving = "ended"
      BY <1>4, <2>2, <3>1
         DEF Acp!Next, Acp!Ask, Acp!EndTurn, Acp!Permission, Acp!Request, Acp!Approve,
             Acp!Resolve, Acp!Eof, Acp!Shutdown, Acp!vars
    <3>3. (1..built) \ shut \subseteq replaced /\ \A q \in Acp!Requests : aPc[q] \in {"idle", "done"}
      BY <1>0, <3>2 DEF AcpOpens, Acp!TornDown
    <3>4. ASSUME NEW q \in Acp!Requests, Acp!Dispatch(q) \/ Acp!Handler(q) PROVE FALSE
      BY <3>2, <3>3, <3>4
         DEF Acp!Dispatch, Acp!Handler, Acp!Open, Acp!Build, Acp!Seed, Acp!Register,
             Acp!Prompt, Acp!Told, Acp!Finish, Acp!Answer, Acp!Abort, Acp!CallCancel
    <3>5. UNCHANGED <<built, shut, replaced>>
      BY <3>2, <3>4
         DEF Acp!Next, Acp!Ask, Acp!EndTurn, Acp!Permission, Acp!Request, Acp!Approve,
             Acp!Resolve, Acp!Eof, Acp!Shutdown, Acp!CloseAll, Acp!vars, Acp!registry
    <3> QED
      BY <3>3, <3>5
  <2> QED
    BY <2>1, <2>2
<1>5. Acp!TornDown'
  BY <1>1, <1>2, <1>4 DEF Acp!TornDown, Acp!Requests
<1> QED
  BY <1>3, <1>5 DEF AcpOpens

LEMMA StepAcpTurns == AcpInv /\ [Acp!Next]_(Acp!vars) => AcpTurns'
<1> SUFFICES ASSUME AcpInv, [Acp!Next]_(Acp!vars) PROVE AcpTurns'
  OBVIOUS
<1>0. AcpTypes /\ AcpCounts /\ AcpOpens /\ AcpTurns
  BY DEF AcpInv
<1>h. Acp!Requests = Opens \cup Prompts \cup Cancels /\ For \in [Acp!Requests -> Sessions]
  BY RpcAssumption DEF Acp!Requests
<1>t. /\ aPc \in [Acp!Requests -> AcpLabels] /\ built \in Nat
      /\ ctl \in [Acp!Requests -> 0..built] /\ sessions \in [Sessions -> 0..built]
      /\ cancelOf \in [Acp!Controllers -> Prompts \cup {Acp!Nobody}] /\ missed \subseteq Prompts
  BY <1>0 DEF AcpTypes, AcpPlaces, AcpTables
<1>p. 1..built \subseteq Acp!Controllers
  BY <1>0, Placed
\* What a turn has stays with it.
<1>k. /\ replaced \subseteq replaced'
      /\ \A p \in Prompts : ctl[p] # Acp!NoController => ctl'[p] = ctl[p]
      /\ \A p \in Prompts : ctl[p] # Acp!NoController /\ Shared(p) => Shared(p)'
  <2>1. CASE UNCHANGED <<replaced, ctl>>
    BY <2>1 DEF Shared
  <2>2. ASSUME NEW r \in Opens, Acp!Build(r)
        PROVE  replaced' = replaced /\ \A p \in Prompts : ctl'[p] = ctl[p]
    BY <1>h, <1>t, <2>2, RpcAssumption DEF Acp!Build
  <2>3. ASSUME NEW r \in Opens, Acp!Register(r)
        PROVE  ctl' = ctl /\ replaced \subseteq replaced'
    BY <2>3 DEF Acp!Register
  <2>4. ASSUME NEW q \in Prompts, Acp!Prompt(q)
        PROVE  replaced' = replaced /\ ctl[q] = Acp!NoController /\
                 \A p \in Prompts \ {q} : ctl'[p] = ctl[p]
    BY <1>0, <1>h, <1>t, <2>4 DEF Acp!Prompt, Acp!registry, AcpTurns
  <2>5. ASSUME NEW r \in Acp!Requests, Acp!Dispatch(r) \/ Acp!Handler(r),
               ~(r \in Opens /\ (Acp!Build(r) \/ Acp!Register(r))), ~(r \in Prompts /\ Acp!Prompt(r))
        PROVE  UNCHANGED <<replaced, ctl>>
    BY <2>5
       DEF Acp!Dispatch, Acp!Handler, Acp!Open, Acp!Seed, Acp!Told, Acp!Finish, Acp!Answer,
           Acp!Abort, Acp!CallCancel, Acp!registry
  <2>6. ASSUME NEW p \in Prompts, Acp!Ask(p) \/ Acp!EndTurn(p) \/ Acp!Permission(p) \/ Acp!Resolve(p)
        PROVE  UNCHANGED <<replaced, ctl>>
    BY <2>6
       DEF Acp!Ask, Acp!EndTurn, Acp!Permission, Acp!Request, Acp!Approve, Acp!Resolve,
           Acp!handlers, Acp!registry
  <2>7. CASE Acp!Eof \/ Acp!Shutdown \/ Acp!CloseAll \/ UNCHANGED Acp!vars
    BY <2>1, <2>7
       DEF Acp!Eof, Acp!Shutdown, Acp!CloseAll, Acp!vars, Acp!handlers, Acp!registry
  <2>8. CASE replaced \subseteq replaced' /\ \A p \in Prompts : ctl'[p] = ctl[p]
    BY <2>8 DEF Shared
  <2>9. ASSUME NEW q \in Prompts, replaced' = replaced, ctl[q] = Acp!NoController,
               \A p \in Prompts \ {q} : ctl'[p] = ctl[p], NEW p \in Prompts, ctl[p] # Acp!NoController
        PROVE  ctl'[p] = ctl[p] /\ (Shared(p) => Shared(p)')
    <3>1. ctl'[p] = ctl[p] /\ p # q
      BY <2>9
    <3>2. ASSUME NEW d \in Prompts \ {p}, ctl[d] = ctl[p] PROVE ctl'[d] = ctl'[p]
      BY <2>9, <3>1, <3>2
    <3> QED
      BY <3>1, <3>2 DEF Shared
  <2> QED
    BY <2>1, <2>2, <2>3, <2>4, <2>5, <2>6, <2>7, <2>8, <2>9 DEF Acp!Next
<1>1. ASSUME NEW p \in Prompts, aPc'[p] \in {"idle", "begin"} PROVE ctl'[p] = Acp!NoController
  <2>0. p \in Acp!Requests /\ (aPc[p] \in {"idle", "begin"} => ctl[p] = Acp!NoController)
    BY <1>0, <1>h DEF AcpTurns
  <2>1. CASE UNCHANGED <<aPc, ctl>>
    BY <1>1, <2>0, <2>1
  <2>2. ASSUME NEW r \in Acp!Requests, r # p, Acp!Dispatch(r) \/ Acp!Handler(r)
        PROVE  aPc'[p] = aPc[p] /\ ctl'[p] = ctl[p]
    BY <1>t, <2>0, <2>2
       DEF Acp!Dispatch, Acp!Handler, Acp!Open, Acp!Build, Acp!Seed, Acp!Register, Acp!Prompt,
           Acp!Told, Acp!Finish, Acp!Answer, Acp!Abort, Acp!CallCancel, Acp!Says, Acp!Goto
  <2>3. CASE Acp!Dispatch(p)
    BY <1>t, <2>0, <2>3 DEF Acp!Dispatch, Acp!Goto
  <2>4. CASE Acp!Prompt(p) \/ Acp!Told(p) \/ Acp!Finish(p) \/ Acp!Answer(p)
    BY <1>1, <1>t, <2>0, <2>4
       DEF Acp!Prompt, Acp!Told, Acp!Finish, Acp!Answer, Acp!Says, Acp!Goto
  <2>5. Acp!Handler(p) => Acp!Prompt(p) \/ Acp!Told(p) \/ Acp!Finish(p) \/ Acp!Answer(p)
    BY RpcAssumption DEF Acp!Handler
  <2>6. ASSUME NEW q \in Prompts, Acp!Ask(q) \/ Acp!EndTurn(q)
        PROVE  ctl' = ctl /\ (aPc'[p] = aPc[p] \/ aPc'[p] \in {"ask", "finish"})
    BY <1>t, <1>h, <2>0, <2>6 DEF Acp!Ask, Acp!EndTurn, Acp!Goto
  <2>7. ASSUME \/ \E q \in Prompts : Acp!Permission(q) \/ Acp!Resolve(q)
               \/ Acp!Eof \/ Acp!Shutdown \/ Acp!CloseAll \/ UNCHANGED Acp!vars
        PROVE  UNCHANGED <<aPc, ctl>>
    BY <2>7
       DEF Acp!Permission, Acp!Request, Acp!Approve, Acp!Resolve, Acp!Eof, Acp!Shutdown,
           Acp!CloseAll, Acp!vars, Acp!handlers
  <2> QED
    BY <1>1, <2>0, <2>1, <2>2, <2>3, <2>4, <2>5, <2>6, <2>7 DEF Acp!Next
<1>2. ASSUME NEW p \in Prompts, aPc'[p] \in Turning
      PROVE  /\ ctl'[p] # Acp!NoController
             /\ ctl'[p] = sessions'[For[p]] \/ ctl'[p] \in replaced'
             /\ cancelOf'[ctl'[p]] = p \/ Shared(p)'
  <2>0. p \in Acp!Requests /\ For[p] \in Sessions
    BY <1>h
  <2>a. CASE Acp!Prompt(p)
    <3>1. sessions[For[p]] # Acp!NoController /\ ctl' = [ctl EXCEPT ![p] = sessions[For[p]]]
      BY <1>2, <1>t, <2>0, <2>a DEF Acp!Prompt, Acp!Says, Acp!Goto, Turning
    <3>2. cancelOf' = [cancelOf EXCEPT ![sessions[For[p]]] = p] /\ sessions' = sessions
      BY <2>a, <3>1 DEF Acp!Prompt, Acp!registry
    <3>3. sessions[For[p]] \in Acp!Controllers
      BY <1>t, <1>p, <2>0, <3>1 DEF Acp!NoController
    <3> QED
      BY <1>t, <2>0, <3>1, <3>2, <3>3
  <2>b. CASE ~Acp!Prompt(p)
    <3>1. aPc[p] \in Turning
      <4>1. ASSUME NEW r \in Acp!Requests, r # p, Acp!Dispatch(r) \/ Acp!Handler(r)
            PROVE  aPc'[p] = aPc[p]
        BY <1>t, <2>0, <4>1
           DEF Acp!Dispatch, Acp!Handler, Acp!Open, Acp!Build, Acp!Seed, Acp!Register,
               Acp!Prompt, Acp!Told, Acp!Finish, Acp!Answer, Acp!Abort, Acp!CallCancel,
               Acp!Says, Acp!Goto
      <4>2. CASE Acp!Dispatch(p) \/ Acp!Told(p) \/ Acp!Finish(p) \/ Acp!Answer(p)
        BY <1>2, <1>t, <2>0, <4>2
           DEF Acp!Dispatch, Acp!Told, Acp!Finish, Acp!Answer, Acp!Says, Acp!Goto, Turning
      <4>3. Acp!Handler(p) => Acp!Prompt(p) \/ Acp!Told(p) \/ Acp!Finish(p) \/ Acp!Answer(p)
        BY RpcAssumption DEF Acp!Handler
      <4>4. ASSUME NEW q \in Prompts, Acp!Ask(q) \/ Acp!EndTurn(q) PROVE aPc[p] \in Turning
        BY <1>2, <1>h, <1>t, <2>0, <4>4 DEF Acp!Ask, Acp!EndTurn, Acp!Goto, Turning
      <4>5. ASSUME \/ \E q \in Prompts : Acp!Permission(q) \/ Acp!Resolve(q)
                   \/ Acp!Eof \/ Acp!Shutdown \/ Acp!CloseAll \/ UNCHANGED Acp!vars
            PROVE  aPc' = aPc
        BY <4>5
           DEF Acp!Permission, Acp!Request, Acp!Approve, Acp!Resolve, Acp!Eof, Acp!Shutdown,
               Acp!CloseAll, Acp!vars, Acp!handlers
      <4> QED
        BY <1>2, <2>b, <4>1, <4>2, <4>3, <4>4, <4>5 DEF Acp!Next
    <3>2. /\ ctl[p] # Acp!NoController
          /\ ctl[p] = sessions[For[p]] \/ ctl[p] \in replaced
          /\ cancelOf[ctl[p]] = p \/ Shared(p)
      BY <1>0, <3>1 DEF AcpTurns
    <3>3. ctl'[p] = ctl[p] /\ (Shared(p) => Shared(p)') /\ replaced \subseteq replaced'
      BY <1>k, <3>2
    <3>4. ctl[p] = sessions[For[p]] => ctl[p] = sessions'[For[p]] \/ ctl[p] \in replaced'
      <4>1. CASE sessions' = sessions
        BY <4>1
      <4>3. ASSUME NEW r \in Opens, Acp!Register(r), ctl[p] = sessions[For[p]]
            PROVE  ctl[p] = sessions'[For[p]] \/ ctl[p] \in replaced'
        <5>1. /\ sessions' = [sessions EXCEPT ![For[r]] = ctl[r]]
              /\ replaced' = replaced \cup ({sessions[For[r]]} \ {Acp!NoController})
          BY <4>3 DEF Acp!Register
        <5> QED
          BY <1>t, <2>0, <3>2, <4>3, <5>1
      <4>4. ~Acp!CloseAll
        BY <1>0, <2>0, <3>1 DEF Acp!CloseAll, AcpOpens, Acp!TornDown, Turning
      <4>5. ASSUME NEW r \in Acp!Requests, Acp!Dispatch(r) \/ Acp!Handler(r), ~(r \in Opens /\
                     Acp!Register(r))
            PROVE  sessions' = sessions
        BY <4>5
           DEF Acp!Dispatch, Acp!Handler, Acp!Open, Acp!Build, Acp!Seed, Acp!Prompt, Acp!Told,
               Acp!Finish, Acp!Answer, Acp!Abort, Acp!CallCancel, Acp!registry
      <4>6. ASSUME NEW q \in Prompts, Acp!Ask(q) \/ Acp!EndTurn(q) \/ Acp!Permission(q) \/
                     Acp!Resolve(q)
            PROVE  sessions' = sessions
        BY <4>6
           DEF Acp!Ask, Acp!EndTurn, Acp!Permission, Acp!Request, Acp!Approve, Acp!Resolve,
               Acp!registry
      <4>7. CASE Acp!Eof \/ Acp!Shutdown \/ UNCHANGED Acp!vars
        BY <4>1, <4>7 DEF Acp!Eof, Acp!Shutdown, Acp!vars, Acp!registry
      <4> QED
        BY <4>1, <4>3, <4>4, <4>5, <4>6, <4>7 DEF Acp!Next
    <3>5. cancelOf[ctl[p]] = p => cancelOf'[ctl[p]] = p \/ Shared(p)'
      <4>0. ctl[p] \in Acp!Controllers
        BY <1>t, <1>p, <2>0, <3>2 DEF Acp!NoController
      <4>1. CASE cancelOf' = cancelOf
        BY <4>1
      <4>2. ASSUME NEW q \in Prompts, Acp!Prompt(q), cancelOf[ctl[p]] = p
            PROVE  cancelOf'[ctl[p]] = p \/ Shared(p)'
        <5>1. q # p /\ q \in Acp!Requests
          BY <1>h, <2>b, <4>2
        <5>2. CASE cancelOf' = cancelOf
          BY <4>2, <5>2
        <5>3. CASE cancelOf' # cancelOf
          <6>1. /\ ctl' = [ctl EXCEPT ![q] = sessions[For[q]]]
                /\ cancelOf' = [cancelOf EXCEPT ![sessions[For[q]]] = q]
            BY <4>2, <5>3 DEF Acp!Prompt
          <6>2. CASE sessions[For[q]] = ctl[p]
            <7>1. ctl'[q] = ctl'[p] /\ q \in Prompts \ {p}
              BY <1>t, <3>3, <5>1, <6>1, <6>2
            <7> QED
              BY <7>1 DEF Shared
          <6>3. CASE sessions[For[q]] # ctl[p]
            BY <1>t, <4>0, <4>2, <6>1, <6>3
          <6> QED
            BY <6>2, <6>3
        <5> QED
          BY <5>2, <5>3
      <4>3. ASSUME NEW q \in Prompts, Acp!Finish(q), cancelOf[ctl[p]] = p
            PROVE  cancelOf'[ctl[p]] = p \/ Shared(p)'
        <5>1. cancelOf' = [cancelOf EXCEPT ![ctl[q]] = Acp!Nobody] /\ ctl' = ctl /\
                aPc' = [aPc EXCEPT ![q] = "answer"]
          BY <4>3 DEF Acp!Finish, Acp!Goto
        <5>2. q # p
          BY <1>2, <1>t, <2>0, <5>1 DEF Turning
        <5>3. CASE ctl[q] = ctl[p]
          BY <5>1, <5>2, <5>3 DEF Shared
        <5>4. CASE ctl[q] # ctl[p]
          BY <1>t, <4>0, <4>3, <5>1, <5>4
        <5> QED
          BY <5>3, <5>4
      <4>4. ASSUME NEW r \in Acp!Requests, Acp!Dispatch(r) \/ Acp!Handler(r), ~(r \in Prompts /\
                     (Acp!Prompt(r) \/ Acp!Finish(r)))
            PROVE  cancelOf' = cancelOf
        BY <4>4
           DEF Acp!Dispatch, Acp!Handler, Acp!Open, Acp!Build, Acp!Seed, Acp!Register,
               Acp!Told, Acp!Answer, Acp!Abort, Acp!CallCancel, Acp!turns
      <4>5. ASSUME NEW q \in Prompts, Acp!Ask(q) \/ Acp!EndTurn(q) \/ Acp!Permission(q) \/
                     Acp!Resolve(q)
            PROVE  cancelOf' = cancelOf
        BY <4>5
           DEF Acp!Ask, Acp!EndTurn, Acp!Permission, Acp!Request, Acp!Approve, Acp!Resolve,
               Acp!turns
      <4>6. CASE Acp!Eof \/ Acp!Shutdown \/ Acp!CloseAll \/ UNCHANGED Acp!vars
        BY <4>1, <4>6 DEF Acp!Eof, Acp!Shutdown, Acp!CloseAll, Acp!vars, Acp!turns
      <4> QED
        BY <4>1, <4>2, <4>3, <4>4, <4>5, <4>6 DEF Acp!Next
    <3> QED
      BY <3>2, <3>3, <3>4, <3>5
  <2> QED
    BY <2>a, <2>b
<1>3. ASSUME NEW p \in missed'
      PROVE  /\ p \in Prompts /\ ctl'[p] # Acp!NoController
             /\ ctl'[p] \in replaced' \/ \E q \in Prompts \ {p} : ctl'[q] = ctl'[p]
  <2>1. CASE p \in missed
    <3>1. p \in Prompts /\ ctl[p] # Acp!NoController /\ (ctl[p] \in replaced \/ Shared(p))
      BY <1>0, <1>t, <2>1 DEF AcpTurns, Acp!CancelFindsTurn, Shared
    <3> QED
      BY <1>k, <3>1 DEF Shared
  <2>2. ASSUME NEW x \in Cancels, Acp!Abort(x), p \notin missed
        PROVE  p \in Prompts /\ ctl[p] # Acp!NoController /\ (ctl[p] \in replaced \/ Shared(p))
    <3> DEFINE f == IF sessions[For[x]] = Acp!NoController THEN Acp!Nobody ELSE cancelOf[sessions[For[x]]]
    <3>1. p \in Prompts /\ p # f /\ For[p] = For[x] /\ aPc[p] \in {"run", "ask"}
      BY <2>2 DEF Acp!Abort
    <3>2. /\ ctl[p] # Acp!NoController
          /\ ctl[p] = sessions[For[p]] \/ ctl[p] \in replaced
          /\ cancelOf[ctl[p]] = p \/ Shared(p)
      BY <1>0, <3>1 DEF AcpTurns, Turning
    <3> QED
      BY <3>1, <3>2
  <2>3. ASSUME NEW r \in Acp!Requests, Acp!Dispatch(r) \/ Acp!Handler(r), ~(r \in Cancels /\
                 Acp!Abort(r))
        PROVE  missed' = missed
    BY <2>3
       DEF Acp!Dispatch, Acp!Handler, Acp!Open, Acp!Build, Acp!Seed, Acp!Register, Acp!Prompt,
           Acp!Told, Acp!Finish, Acp!Answer, Acp!CallCancel, Acp!turns
  <2>4. ASSUME NEW q \in Prompts, Acp!Ask(q) \/ Acp!EndTurn(q) \/ Acp!Permission(q) \/ Acp!Resolve(q)
        PROVE  missed' = missed
    BY <2>4
       DEF Acp!Ask, Acp!EndTurn, Acp!Permission, Acp!Request, Acp!Approve, Acp!Resolve,
           Acp!turns
  <2>5. ASSUME Acp!Eof \/ Acp!Shutdown \/ Acp!CloseAll \/ UNCHANGED Acp!vars
        PROVE  missed' = missed
    BY <2>5 DEF Acp!Eof, Acp!Shutdown, Acp!CloseAll, Acp!vars, Acp!turns
  <2>6. CASE p \notin missed
    <3>1. p \in Prompts /\ ctl[p] # Acp!NoController /\ (ctl[p] \in replaced \/ Shared(p))
      BY <1>3, <2>2, <2>3, <2>4, <2>5, <2>6 DEF Acp!Next
    <3> QED
      BY <1>k, <3>1 DEF Shared
  <2> QED
    BY <2>1, <2>6
<1> QED
  BY <1>1, <1>2, <1>3 DEF AcpTurns, Acp!CancelFindsTurn

LEMMA StepAcpPermits == AcpInv /\ [Acp!Next]_(Acp!vars) => AcpPermits'
<1> SUFFICES ASSUME AcpInv, [Acp!Next]_(Acp!vars) PROVE AcpPermits'
  OBVIOUS
<1>0. AcpTypes /\ AcpCounts /\ AcpPermits
  BY DEF AcpInv
<1>t. /\ aNextID \in Nat /\ aPending \subseteq 1..aNextID
      /\ aChan \in [Acp!Ids -> {Acp!Nothing, "allow", "deny", Acp!Closed}]
      /\ perm \in [Prompts -> {"none", "request", "wait", "done"}]
      /\ permId \in [Prompts -> 0..aNextID]
      /\ verdict \in [Prompts -> {Acp!Nothing, "allow", "deny"}] /\ ran \subseteq Prompts
  BY <1>0 DEF AcpTypes, AcpWire
<1>p. 1..aNextID \subseteq Acp!Ids
  BY <1>0, Placed
<1>1. CASE UNCHANGED Acp!permission
  BY <1>0, <1>1 DEF Acp!permission, AcpPermits
<1>2. ASSUME NEW p \in Prompts, Acp!Ask(p) PROVE AcpPermits'
  <2>1. perm[p] = "none" /\ perm' = [perm EXCEPT ![p] = "request"]
        /\ UNCHANGED <<aNextID, aPending, aChan, permId, verdict, ran>>
    BY <1>2 DEF Acp!Ask
  <2> QED
    BY <1>0, <1>t, <2>1 DEF AcpPermits
<1>3. ASSUME NEW p \in Prompts, Acp!Told(p) PROVE AcpPermits'
  <2>1. /\ UNCHANGED <<aNextID, aPending, aChan, perm, permId, verdict>>
        /\ ran' = ran \/ (ran' = ran \cup {p} /\ verdict[p] = "allow")
    BY <1>3 DEF Acp!Told, Acp!Allowed
  <2> QED
    BY <1>0, <1>t, <2>1 DEF AcpPermits
<1>4. ASSUME NEW p \in Prompts, Acp!Request(p) PROVE AcpPermits'
  <2>1. /\ perm[p] = "request" /\ perm' = [perm EXCEPT ![p] = "wait"] /\ aNextID' = aNextID + 1
        /\ permId' = [permId EXCEPT ![p] = aNextID + 1] /\ aPending' = aPending \cup {aNextID + 1}
        /\ UNCHANGED <<aChan, verdict, ran>>
    BY <1>4 DEF Acp!Request, Acp!FreshId
  <2>2. \A q \in Prompts \ {p} : permId'[q] = permId[q] /\ permId[q] # aNextID + 1 /\
          perm'[q] = perm[q]
    BY <1>t, <2>1
  <2>3. permId'[p] = aNextID + 1 /\ perm'[p] = "wait" /\ aNextID + 1 # 0
    BY <1>t, <2>1
  <2>4. \A i \in Acp!Ids : i \in aPending' \/ i > aNextID' => i \in aPending \/ i > aNextID
    BY <1>t, <2>1 DEF Acp!Ids
  <2>5. verdict[p] # "allow"
    BY <1>0, <2>1 DEF AcpPermits
  <2> QED
    BY <1>0, <1>t, <2>1, <2>2, <2>3, <2>4, <2>5 DEF AcpPermits
<1>5. ASSUME NEW p \in Prompts, Acp!Resolve(p) PROVE AcpPermits'
  <2>1. /\ permId[p] \in aPending /\ aPending' = aPending \ {permId[p]}
        /\ \A i \in Acp!Ids \ {permId[p]} : aChan'[i] = aChan[i]
        /\ UNCHANGED <<aNextID, perm, permId, verdict, ran>>
    BY <1>t, <1>5 DEF Acp!Resolve
  <2>2. \A q \in Prompts : perm[q] = "done" => permId[q] \in Acp!Ids \ {permId[p]}
    BY <1>0, <1>t, <1>p, <2>1 DEF AcpPermits
  <2>3. \A i \in Acp!Ids : i \in aPending' \/ i > aNextID =>
          i # permId[p] /\ (i \in aPending \/ i > aNextID)
    BY <1>t, <2>1
  <2> QED
    BY <1>0, <2>1, <2>2, <2>3 DEF AcpPermits
<1>6. ASSUME NEW p \in Prompts, Acp!Approve(p) PROVE AcpPermits'
  <2>1. /\ perm[p] = "wait" /\ perm' = [perm EXCEPT ![p] = "done"] /\
             aPending' = aPending \ {permId[p]}
        /\ verdict' = [verdict EXCEPT ![p] = IF aChan[permId[p]] = "allow" THEN "allow" ELSE "deny"]
        /\ UNCHANGED <<aNextID, aChan, permId, ran>>
    BY <1>6 DEF Acp!Approve
  <2>2. verdict[p] # "allow"
    BY <1>0, <2>1 DEF AcpPermits
  <2>3. /\ \A q \in Prompts \ {p} : perm'[q] = perm[q] /\ verdict'[q] = verdict[q]
        /\ perm'[p] = "done" /\ (verdict'[p] = "allow" => aChan[permId[p]] = "allow")
    BY <1>t, <2>1
  <2>4. p \notin ran
    BY <1>0, <2>2 DEF AcpPermits
  <2> QED
    BY <1>0, <1>t, <2>1, <2>3, <2>4 DEF AcpPermits
<1>7. CASE Acp!Shutdown
  <2>1. /\ aChan' = [i \in Acp!Ids |-> IF i \in aPending THEN Acp!Closed ELSE aChan[i]]
        /\ aPending' = {} /\ UNCHANGED <<aNextID, perm, permId, verdict, ran>>
    BY <1>7 DEF Acp!Shutdown
  <2>2. \A q \in Prompts : perm[q] = "done" => permId[q] \in Acp!Ids \ aPending
    BY <1>0, <1>t, <1>p DEF AcpPermits
  <2>3. \A q \in Prompts : perm[q] = "done" => aChan'[permId[q]] = aChan[permId[q]]
    BY <1>t, <2>1, <2>2
  <2>4. ASSUME NEW i \in Acp!Ids, i > aNextID PROVE aChan'[i] = Acp!Nothing
    <3>1. aChan[i] = Acp!Nothing
      BY <1>0, <2>4 DEF AcpPermits
    <3>2. i \notin aPending
      <4>1. i \in 1..aNextID => i <= aNextID /\ i \in Nat
        BY <1>t
      <4>2. i \in Nat /\ i > aNextID
        BY <2>4, AcpFinite DEF Acp!Ids
      <4> QED
        BY <1>t, <4>1, <4>2
    <3> QED
      BY <2>1, <3>1, <3>2
  <2> QED
    BY <1>0, <1>t, <2>1, <2>3, <2>4 DEF AcpPermits
<1>8. ASSUME NEW r \in Acp!Requests, Acp!Dispatch(r) \/ Acp!Handler(r), ~(r \in Prompts /\
               Acp!Told(r))
      PROVE  UNCHANGED Acp!permission
  BY <1>8
     DEF Acp!Dispatch, Acp!Handler, Acp!Open, Acp!Build, Acp!Seed, Acp!Register, Acp!Prompt,
         Acp!Finish, Acp!Answer, Acp!Abort, Acp!CallCancel
<1>9. ASSUME (\E p \in Prompts : Acp!EndTurn(p)) \/ Acp!Eof \/ Acp!CloseAll \/ UNCHANGED Acp!vars
      PROVE  UNCHANGED Acp!permission
  BY <1>9 DEF Acp!EndTurn, Acp!Eof, Acp!CloseAll, Acp!vars
<1> QED
  BY <1>1, <1>2, <1>3, <1>4, <1>5, <1>6, <1>7, <1>8, <1>9 DEF Acp!Next, Acp!Permission

LEMMA AcpHolds == Acp!Init /\ [][Acp!Next]_(Acp!vars) => []AcpInv
<1>1. AcpInv /\ [Acp!Next]_(Acp!vars) => AcpInv'
  BY StepAcpTypes, StepAcpCounts, StepAcpOpens, StepAcpTurns, StepAcpPermits DEF AcpInv
<1> QED
  BY AcpInit, <1>1, PTL

LEMMA AcpIsTidy == AcpInv => Acp!AllowedByClient /\ Acp!TornDown /\ Acp!CancelFindsTurn
<1>1. AcpInv => Acp!AllowedByClient
  BY DEF AcpInv, AcpTypes, AcpWire, AcpPermits, Acp!AllowedByClient
<1> QED
  BY <1>1 DEF AcpInv, AcpOpens, AcpTurns

-----------------------------------------------------------------------------
Resolved(p) == permId[p] # 0 /\ aChan[permId[p]] \in {"allow", "deny"}
AcpPhase == [p \in Prompts |-> Acp!Phase(p)]
AcpHeard == {p \in Prompts : Resolved(p)}

LEMMA AcpPromiseStep == AcpInv /\ [Acp!Next]_(Acp!vars) => [Acp!Promise!Next]_(Acp!Promise!vars)
<1> SUFFICES ASSUME AcpInv, [Acp!Next]_(Acp!vars)
             PROVE  Acp!Promise!Next \/ UNCHANGED <<AcpPhase, AcpHeard>>
  BY DEF Acp!Promise!vars, AcpPhase, AcpHeard, Resolved
<1>0. AcpTypes /\ AcpCounts /\ AcpPermits
  BY DEF AcpInv
<1>t. /\ aNextID \in Nat /\ aPending \subseteq 1..aNextID
      /\ aChan \in [Acp!Ids -> {Acp!Nothing, "allow", "deny", Acp!Closed}]
      /\ perm \in [Prompts -> {"none", "request", "wait", "done"}]
      /\ permId \in [Prompts -> 0..aNextID]
  BY <1>0 DEF AcpTypes, AcpWire
<1>p. 1..aNextID \subseteq Acp!Ids /\ aNextID + 1 \in Nat
  BY <1>0, <1>t, Placed
<1>n. Acp!Nothing \notin {"allow", "deny"} /\ Acp!Closed \notin {"allow", "deny"}
  BY DEF Acp!Nothing, Acp!Closed
<1>1. CASE UNCHANGED <<aChan, perm, permId>>
  BY <1>1 DEF AcpPhase, AcpHeard, Resolved, Acp!Phase
<1>2. ASSUME NEW p \in Prompts, Acp!Ask(p) PROVE UNCHANGED <<AcpPhase, AcpHeard>>
  <2>1. perm[p] = "none" /\ perm' = [perm EXCEPT ![p] = "request"] /\ UNCHANGED <<aChan, permId>>
    BY <1>2 DEF Acp!Ask
  <2>2. \A q \in Prompts : Acp!Phase(q)' = Acp!Phase(q)
    BY <1>t, <2>1 DEF Acp!Phase
  <2> QED
    BY <2>1, <2>2 DEF AcpPhase, AcpHeard, Resolved
<1>3. ASSUME NEW p \in Prompts, Acp!Request(p) PROVE Acp!Promise!Next
  <2>1. /\ perm[p] = "request" /\ perm' = [perm EXCEPT ![p] = "wait"] /\ aChan' = aChan
        /\ permId' = [permId EXCEPT ![p] = aNextID + 1]
    BY <1>3 DEF Acp!Request, Acp!FreshId
  <2>2. permId[p] = 0 /\ perm'[p] = "wait" /\ permId'[p] = aNextID + 1
    BY <1>0, <1>t, <2>1 DEF AcpPermits
  <2>3. \A q \in Prompts \ {p} : perm'[q] = perm[q] /\ permId'[q] = permId[q]
    BY <1>t, <2>1
  <2>4. aNextID + 1 \in Acp!Ids /\ aChan[aNextID + 1] = Acp!Nothing
    <3>1. Askers \cup {p} \subseteq Prompts /\ p \notin Askers
      BY <2>2 DEF Askers
    <3>a. Cardinality(Askers \cup {p}) = Cardinality(Askers) + 1
      BY <3>1, AskersCount, FS_AddElement
    <3>b. Cardinality(Askers \cup {p}) <= Cardinality(Prompts)
      BY <3>1, AcpFinite, FS_Subset
    <3>c. aNextID <= Cardinality(Askers)
      BY <1>0 DEF AcpCounts
    <3>2. aNextID + 1 \in Acp!Ids
      BY <1>t, <3>a, <3>b, <3>c, AskersCount, AcpFinite, Counting DEF Acp!Ids
    <3> QED
      BY <1>0, <1>t, <3>2 DEF AcpPermits
  <2>5. Acp!Phase(p) = "idle" /\ Acp!Phase(p)' = "open" /\
          \A q \in Prompts \ {p} : Acp!Phase(q)' = Acp!Phase(q)
    BY <2>1, <2>2, <2>3 DEF Acp!Phase
  <2>6. ~Resolved(p) /\ ~Resolved(p)' /\ \A q \in Prompts \ {p} : Resolved(q)' <=> Resolved(q)
    BY <1>n, <2>1, <2>2, <2>3, <2>4 DEF Resolved
  <2>7. AcpPhase' = [AcpPhase EXCEPT ![p] = "open"] /\ AcpHeard' = AcpHeard
    BY <2>5, <2>6 DEF AcpPhase, AcpHeard
  <2>8. Acp!Promise!Open(p)
    BY <2>5, <2>7 DEF Acp!Promise!Open, AcpPhase, AcpHeard, Resolved
  <2> QED
    BY <2>8 DEF Acp!Promise!Next
<1>4. ASSUME NEW p \in Prompts, Acp!Resolve(p) PROVE Acp!Promise!Next
  <2>1. /\ perm[p] = "wait" /\ permId[p] \in aPending /\ UNCHANGED <<perm, permId>>
        /\ \E v \in {"allow", "deny"} : aChan' = [aChan EXCEPT ![permId[p]] = v]
    BY <1>4 DEF Acp!Resolve
  <2>2. permId[p] \in Acp!Ids /\ permId[p] # 0 /\ aChan[permId[p]] = Acp!Nothing /\
          aChan'[permId[p]] \in {"allow", "deny"}
    BY <1>0, <1>t, <1>p, <2>1 DEF AcpPermits
  <2>3. \A q \in Prompts \ {p} : permId[q] # 0 => permId[q] \in Acp!Ids /\ permId[q] # permId[p]
    BY <1>0, <1>t, <1>p, <2>2 DEF AcpPermits
  <2>4. \A q \in Prompts \ {p} : permId[q] # 0 => aChan'[permId[q]] = aChan[permId[q]]
    BY <1>t, <2>1, <2>3
  <2>5. ASSUME NEW q \in Prompts PROVE Acp!Phase(q)' = Acp!Phase(q)
    <3>1. CASE perm[q] = "done"
      <4>1. q # p /\ permId[q] # 0
        BY <1>0, <2>1, <3>1 DEF AcpPermits
      <4> QED
        BY <2>1, <2>4, <4>1 DEF Acp!Phase
    <3>2. CASE perm[q] # "done"
      BY <1>t, <2>1, <3>2 DEF Acp!Phase
    <3> QED
      BY <3>1, <3>2
  <2>6. ~Resolved(p) /\ Resolved(p)' /\ \A q \in Prompts \ {p} : Resolved(q)' <=> Resolved(q)
    BY <1>n, <2>1, <2>2, <2>4 DEF Resolved
  <2>7. AcpPhase' = AcpPhase /\ AcpHeard' = AcpHeard \cup {p} /\ p \notin AcpHeard
    BY <2>5, <2>6 DEF AcpPhase, AcpHeard
  <2>8. Acp!Phase(p) = "open"
    BY <2>1 DEF Acp!Phase
  <2>9. Acp!Promise!Hear(p)
    BY <2>7, <2>8 DEF Acp!Promise!Hear, AcpPhase, AcpHeard, Resolved
  <2> QED
    BY <2>9 DEF Acp!Promise!Next
<1>5. ASSUME NEW p \in Prompts, Acp!Approve(p) PROVE Acp!Promise!Next
  <2>1. perm[p] = "wait" /\ perm' = [perm EXCEPT ![p] = "done"] /\ UNCHANGED <<aChan, permId>>
    BY <1>5 DEF Acp!Approve
  <2>2. perm'[p] = "done" /\ permId[p] # 0 /\ \A q \in Prompts \ {p} : perm'[q] = perm[q]
    BY <1>0, <1>t, <2>1 DEF AcpPermits
  <2>3. /\ Acp!Phase(p) = "open" /\ Acp!Phase(p)' = IF Resolved(p) THEN "answered" ELSE "failed"
        /\ \A q \in Prompts \ {p} : Acp!Phase(q)' = Acp!Phase(q)
    BY <2>1, <2>2 DEF Acp!Phase, Resolved
  <2>4. AcpPhase' = [AcpPhase EXCEPT ![p] = Acp!Phase(p)'] /\ AcpHeard' = AcpHeard
    BY <2>1, <2>3 DEF AcpPhase, AcpHeard, Resolved
  <2>5. CASE Resolved(p)
    <3>1. Acp!Promise!Answer(p)
      BY <2>3, <2>4, <2>5 DEF Acp!Promise!Answer, AcpPhase, AcpHeard, Resolved
    <3> QED
      BY <3>1 DEF Acp!Promise!Next
  <2>6. CASE ~Resolved(p)
    <3>1. Acp!Promise!Fail(p)
      BY <2>3, <2>4, <2>6 DEF Acp!Promise!Fail, AcpPhase, AcpHeard, Resolved
    <3> QED
      BY <3>1 DEF Acp!Promise!Next
  <2> QED
    BY <2>5, <2>6
<1>6. CASE Acp!Shutdown
  <2>1. UNCHANGED <<perm, permId>> /\ aChan' = [i \in Acp!Ids |-> IF i \in aPending THEN Acp!Closed ELSE aChan[i]]
    BY <1>6 DEF Acp!Shutdown
  <2>2. \A i \in Acp!Ids : aChan'[i] \in {"allow", "deny"} <=> aChan[i] \in {"allow", "deny"}
    BY <1>0, <1>n, <2>1 DEF AcpPermits
  <2>3. \A q \in Prompts : permId[q] # 0 => permId[q] \in Acp!Ids
    BY <1>t, <1>p
  <2>4. ASSUME NEW q \in Prompts PROVE Acp!Phase(q)' = Acp!Phase(q)
    <3>1. CASE perm[q] = "done"
      <4>1. permId[q] \in Acp!Ids
        BY <1>0, <2>3, <3>1 DEF AcpPermits
      <4> QED
        BY <2>1, <2>2, <4>1 DEF Acp!Phase
    <3>2. CASE perm[q] # "done"
      BY <1>t, <2>1, <3>2 DEF Acp!Phase
    <3> QED
      BY <3>1, <3>2
  <2>5. \A q \in Prompts : Resolved(q)' <=> Resolved(q)
    BY <2>1, <2>2, <2>3 DEF Resolved
  <2> QED
    BY <2>4, <2>5 DEF AcpPhase, AcpHeard
<1>7. ASSUME NEW r \in Acp!Requests, Acp!Dispatch(r) \/ Acp!Handler(r)
      PROVE  UNCHANGED <<aChan, perm, permId>>
  BY <1>7
     DEF Acp!Dispatch, Acp!Handler, Acp!Open, Acp!Build, Acp!Seed, Acp!Register, Acp!Prompt,
         Acp!Told, Acp!Finish, Acp!Answer, Acp!Abort, Acp!CallCancel, Acp!permission
<1>8. CASE (\E p \in Prompts : Acp!EndTurn(p)) \/ Acp!Eof \/ Acp!CloseAll \/ UNCHANGED Acp!vars
  BY <1>1, <1>8 DEF Acp!EndTurn, Acp!Eof, Acp!CloseAll, Acp!vars, Acp!permission
<1> QED
  BY <1>1, <1>2, <1>3, <1>4, <1>5, <1>6, <1>7, <1>8 DEF Acp!Next, Acp!Permission

LEMMA AcpKeepsPromise == Acp!Init /\ [][Acp!Next]_(Acp!vars) => Acp!ImplementsRpc
<1>1. Acp!Init => Acp!Promise!Init
  BY DEF Acp!Init, Acp!Promise!Init, Acp!Phase, Acp!Nothing
<1> QED
  BY AcpHolds, <1>1, AcpPromiseStep, PTL DEF Acp!ImplementsRpc, Acp!Promise!Spec

-----------------------------------------------------------------------------
(* The stdio transport of an MCP server (plugin/transport_stdio.go): the    *)
(* invariants, and that it is RpcCalls.                                     *)

(* Whoever is between Lock and the deferred unlock holds callMu.           *)
Inside == {"register", "write", "wait", "reap", "cleanup"}
MutexInv == \A c \in Calls : pc[c] \in Inside => callMu = c

Labels == {"idle", "lock", "register", "write", "wait", "reap", "cleanup", "done"}
Failures == {"none", "read error", "write error", "cancelled"}

(* A call has an id once it has registered, and nextID has counted them.   *)
Registered == {c \in Calls : id[c] # 0}
IdInv ==
  /\ \A c \in Calls : pc[c] \in {"idle", "lock", "register"} => id[c] = 0
  /\ \A c \in Calls : pc[c] \in {"write", "wait"} => id[c] # 0
  /\ nextID = Cardinality(Registered)

(* An answer on its way says the id its call has registered.               *)
Truthful(m) == m = Noise \/ (m \in Answers /\ id[m.from] = m.id)
AnswerInv ==
  /\ \A i \in DOMAIN stdin : stdin[i] \in Answers /\ Truthful(stdin[i])
  /\ \A m \in heard : m \in Answers /\ Truthful(m)
  /\ \A i \in DOMAIN stdout : Truthful(stdout[i])
  /\ Truthful(line) /\ (reader = "routing" => line \in Answers)
  /\ \A i \in Ids : chan[i] \in Calls => id[chan[i]] = i

(* Whatever is on its way to a caller answers a request the server read.   *)
HeardInv ==
  /\ \A i \in DOMAIN stdin : pc[stdin[i].from] # "idle"
  /\ \A i \in DOMAIN stdout : stdout[i] = Noise \/ stdout[i] \in heard
  /\ line = Noise \/ line \in heard
  /\ \A i \in Ids : chan[i] \in Calls => chan[i] \in HeardCalls
  /\ \A c \in Calls : outcome[c] \in Calls => outcome[c] \in HeardCalls

(* The inductive invariant.                                                *)
IInv == TypeOK /\ MutexInv /\ IdInv /\ AnswerInv /\ PendingIsTidy /\ OwnAnswer /\ HeardInv

USE DEF transport, calls, readLoop, child, StillReading, FreshId, DropEntry, Everybody

(* The constants.                                                          *)
LEMMA Sizes ==
  /\ Cardinality(Calls) \in Nat /\ IsFiniteSet(Calls)
  /\ PipeCap \in Nat /\ MaxLines \in Nat
<1>1. Cardinality(Calls) \in Nat /\ IsFiniteSet(Calls)
  BY BoundsAssumption, FS_CardinalityType
<1>2. PipeCap \in Nat /\ MaxLines \in Nat
  BY BoundsAssumption
<1> QED
  BY <1>1, <1>2

(* No call is taken for a free lock, an empty or closed channel or an      *)
(* error.                                                                  *)
LEMMA Sentinels ==
  /\ Free \notin Calls /\ Empty \notin Calls /\ Closed \notin Calls /\ Empty # Closed
  /\ "none" \notin Calls /\ "read error" \notin Calls
  /\ "write error" \notin Calls /\ "cancelled" \notin Calls
  BY BoundsAssumption DEF Free, Empty, Closed

(* Ids count from 1, so the id 0 of noise is nobody's.                     *)
LEMMA IdSorts == \A i \in Ids : i \in Nat /\ i # 0
  BY Sizes DEF Ids

(* A line is noise or has the id and the name of a call.                   *)
LEMMA LineSorts ==
  /\ Noise.id = 0 /\ Noise \notin Answers
  /\ \A m \in Answers : m.id \in Ids /\ m.id # 0 /\ m.from \in Calls
  /\ \A i \in Ids, c \in Calls :
       /\ [id |-> i, from |-> c] \in Answers
       /\ [id |-> i, from |-> c].id = i /\ [id |-> i, from |-> c].from = c
<1>1. 0 \notin Ids
  BY Sizes DEF Ids
<1>2. \A m \in Answers : m.id \in Ids /\ m.from \in Calls
  BY DEF Answers
<1>3. \A i \in Ids, c \in Calls :
       /\ [id |-> i, from |-> c] \in Answers
       /\ [id |-> i, from |-> c].id = i /\ [id |-> i, from |-> c].from = c
  BY DEF Answers
<1>4. Noise.id = 0
  BY DEF Noise
<1> QED
  BY <1>1, <1>2, <1>3, <1>4

(* A line at the end of a pipe.                                            *)
LEMMA Piped ==
  ASSUME NEW S, NEW s \in Seq(S), NEW e \in S
  PROVE  /\ Append(s, e) \in Seq(S) /\ Len(Append(s, e)) = Len(s) + 1 /\ Len(s) \in Nat
         /\ \A i \in DOMAIN Append(s, e) :
              Append(s, e)[i] = e \/ (i \in DOMAIN s /\ Append(s, e)[i] = s[i])
  OBVIOUS

(* The first line taken away.                                              *)
LEMMA Taken ==
  ASSUME NEW S, NEW s \in Seq(S), s # <<>>
  PROVE  /\ 1 \in DOMAIN s /\ s[1] \in S
         /\ Tail(s) \in Seq(S) /\ Len(Tail(s)) = Len(s) - 1 /\ Len(s) \in Nat
         /\ \A i \in DOMAIN Tail(s) : i + 1 \in DOMAIN s /\ Tail(s)[i] = s[i + 1]
  OBVIOUS

(* The types of all but the pipes, with the ranges of ids spelt out.       *)
LEMMA Ranges ==
  ASSUME TypeOK
  PROVE  /\ callMu \in Calls \cup {Free} /\ readErr \in BOOLEAN
         /\ nextID \in Nat /\ nextID <= Cardinality(Calls)
         /\ pending \in SUBSET Ids /\ \A i \in pending : i <= nextID
         /\ chan \in [Ids -> Calls \cup {Empty, Closed}]
         /\ pc \in [Calls -> Labels] /\ id \in [Calls -> Nat]
         /\ \A c \in Calls : id[c] <= nextID /\ (id[c] # 0 => id[c] \in Ids)
         /\ \A c, d \in Calls : id[c] = id[d] /\ id[c] # 0 => c = d
         /\ outcome \in [Calls -> Calls \cup Failures]
<1>1. /\ callMu \in Calls \cup {Free} /\ readErr \in BOOLEAN
      /\ chan \in [Ids -> Calls \cup {Empty, Closed}]
      /\ \A c, d \in Calls : id[c] = id[d] /\ id[c] # 0 => c = d
  BY DEF TypeOK
<1>2. pc \in [Calls -> Labels] /\ outcome \in [Calls -> Calls \cup Failures]
  BY DEF TypeOK, Labels, Failures
<1>3. nextID \in 0..Cardinality(Calls) /\ pending \subseteq 1..nextID
  BY DEF TypeOK
<1>4. id \in [Calls -> 0..nextID]
  BY DEF TypeOK
<1>5. nextID \in Nat /\ nextID <= Cardinality(Calls) /\ Cardinality(Calls) \in Nat
  BY <1>3, Sizes
<1>6. pending \in SUBSET Ids /\ \A i \in pending : i <= nextID
  BY <1>3, <1>5 DEF Ids
<1>7. /\ id \in [Calls -> Nat]
      /\ \A c \in Calls : id[c] <= nextID /\ (id[c] # 0 => id[c] \in Ids)
  BY <1>4, <1>5 DEF Ids
<1> QED
  BY <1>1, <1>2, <1>5, <1>6, <1>7

(* The types of the pipes and of what is in them.                          *)
LEMMA Lines ==
  ASSUME TypeOK
  PROVE  /\ stdin \in Seq(Answers) /\ Len(stdin) <= PipeCap
         /\ stdout \in Seq(Answers \cup {Noise}) /\ Len(stdout) <= MaxLines
         /\ heard \subseteq Answers /\ line \in Answers \cup {Noise}
  BY DEF TypeOK

(* What the reader takes (readLoop), and what it leaves.                   *)
LEMMA StdoutTaken ==
  ASSUME TypeOK, stdout # <<>>, stdout' = Tail(stdout)
  PROVE  /\ stdout[1] \in Answers \cup {Noise} /\ 1 \in DOMAIN stdout
         /\ stdout' \in Seq(Answers \cup {Noise}) /\ Len(stdout') <= MaxLines
         /\ \A i \in DOMAIN stdout' : i + 1 \in DOMAIN stdout /\ stdout'[i] = stdout[i + 1]
<1>1. stdout \in Seq(Answers \cup {Noise}) /\ Len(stdout) <= MaxLines /\ MaxLines \in Nat
  BY Lines, Sizes
<1>2. /\ 1 \in DOMAIN stdout /\ stdout[1] \in Answers \cup {Noise}
      /\ Tail(stdout) \in Seq(Answers \cup {Noise})
      /\ Len(Tail(stdout)) = Len(stdout) - 1 /\ Len(stdout) \in Nat
      /\ \A i \in DOMAIN Tail(stdout) : i + 1 \in DOMAIN stdout /\ Tail(stdout)[i] = stdout[i + 1]
  BY <1>1, Taken
<1> QED
  BY <1>1, <1>2

(* What the server takes, and what it leaves.                              *)
LEMMA StdinTaken ==
  ASSUME TypeOK, stdin # <<>>, stdin' = Tail(stdin)
  PROVE  /\ stdin[1] \in Answers /\ 1 \in DOMAIN stdin
         /\ stdin' \in Seq(Answers) /\ Len(stdin') <= PipeCap
         /\ \A i \in DOMAIN stdin' : i + 1 \in DOMAIN stdin /\ stdin'[i] = stdin[i + 1]
<1>1. stdin \in Seq(Answers) /\ Len(stdin) <= PipeCap /\ PipeCap \in Nat
  BY Lines, Sizes
<1>2. /\ 1 \in DOMAIN stdin /\ stdin[1] \in Answers
      /\ Tail(stdin) \in Seq(Answers)
      /\ Len(Tail(stdin)) = Len(stdin) - 1 /\ Len(stdin) \in Nat
      /\ \A i \in DOMAIN Tail(stdin) : i + 1 \in DOMAIN stdin /\ Tail(stdin)[i] = stdin[i + 1]
  BY <1>1, Taken
<1> QED
  BY <1>1, <1>2

(* What the server says goes to the end of stdout.                         *)
LEMMA StdoutPiped ==
  ASSUME TypeOK, NEW said \in Answers \cup {Noise}, Len(stdout) < MaxLines,
         stdout' = Append(stdout, said)
  PROVE  /\ stdout' \in Seq(Answers \cup {Noise}) /\ Len(stdout') <= MaxLines
         /\ \A i \in DOMAIN stdout' :
              stdout'[i] = said \/ (i \in DOMAIN stdout /\ stdout'[i] = stdout[i])
<1>1. stdout \in Seq(Answers \cup {Noise}) /\ MaxLines \in Nat
  BY Lines, Sizes
<1>2. /\ Append(stdout, said) \in Seq(Answers \cup {Noise})
      /\ Len(Append(stdout, said)) = Len(stdout) + 1 /\ Len(stdout) \in Nat
      /\ \A i \in DOMAIN Append(stdout, said) :
           \/ Append(stdout, said)[i] = said
           \/ i \in DOMAIN stdout /\ Append(stdout, said)[i] = stdout[i]
  BY <1>1, Piped
<1> QED
  BY <1>1, <1>2

(* What a call writes goes to the end of stdin (call).                     *)
LEMMA StdinPiped ==
  ASSUME TypeOK, NEW req \in Answers, Len(stdin) < PipeCap, stdin' = Append(stdin, req)
  PROVE  /\ stdin' \in Seq(Answers) /\ Len(stdin') <= PipeCap
         /\ \A i \in DOMAIN stdin' :
              stdin'[i] = req \/ (i \in DOMAIN stdin /\ stdin'[i] = stdin[i])
<1>1. stdin \in Seq(Answers) /\ PipeCap \in Nat
  BY Lines, Sizes
<1>2. /\ Append(stdin, req) \in Seq(Answers)
      /\ Len(Append(stdin, req)) = Len(stdin) + 1 /\ Len(stdin) \in Nat
      /\ \A i \in DOMAIN Append(stdin, req) :
           \/ Append(stdin, req)[i] = req
           \/ i \in DOMAIN stdin /\ Append(stdin, req)[i] = stdin[i]
  BY <1>1, Piped
<1> QED
  BY <1>1, <1>2

(* The request of a call that has registered is an answer to be.           *)
LEMMA Requested ==
  ASSUME TypeOK, IdInv, NEW c \in Calls, pc[c] = "write"
  PROVE  /\ id[c] \in Ids /\ [id |-> id[c], from |-> c] \in Answers
         /\ [id |-> id[c], from |-> c].id = id[c] /\ [id |-> id[c], from |-> c].from = c
<1>1. id[c] \in Ids
  BY Ranges DEF IdInv
<1> QED
  BY <1>1, LineSorts

(* What the reader is about to route.                                      *)
LEMMA Routed ==
  ASSUME TypeOK, AnswerInv, reader = "routing"
  PROVE  line \in Answers /\ line.from \in Calls /\ line.id \in Ids /\ id[line.from] = line.id
<1>1. line \in Answers /\ Truthful(line)
  BY DEF AnswerInv
<1> QED
  BY <1>1, LineSorts DEF Truthful

(* Ids after one more registration.                                        *)
LEMMA OneMore ==
  ASSUME NEW n \in Nat
  PROVE  /\ 0..n \subseteq 0..(n + 1) /\ n + 1 \in 0..(n + 1)
         /\ 1..n \subseteq 1..(n + 1) /\ n + 1 \in 1..(n + 1)
         /\ n + 1 \notin 0..n
  OBVIOUS

(* There is an id for a call that has none yet (stdioTransport.call).      *)
LEMMA RoomForId ==
  ASSUME TypeOK, IdInv, NEW c \in Calls, id[c] = 0
  PROVE  /\ nextID + 1 \in Ids /\ nextID \in Nat
         /\ Cardinality(Registered \cup {c}) = nextID + 1
<1>1. IsFiniteSet(Registered) /\ c \notin Registered
  BY Sizes, FS_Subset DEF Registered
<1>2. Cardinality(Registered \cup {c}) = nextID + 1
  BY <1>1, FS_AddElement DEF IdInv
<1>3. Registered \cup {c} \subseteq Calls
  BY DEF Registered
<1>4. Cardinality(Registered \cup {c}) <= Cardinality(Calls)
  BY <1>3, Sizes, FS_Subset
<1>5. nextID \in Nat /\ Cardinality(Calls) \in Nat
  BY Ranges, Sizes
<1> QED
  BY <1>2, <1>4, <1>5 DEF Ids

(* callMu: only Lock takes it, and only its holder moves on (call).        *)
LEMMA StepMutex == IInv /\ [Next]_vars => MutexInv'
<1> SUFFICES ASSUME IInv, [Next]_vars PROVE MutexInv'
  OBVIOUS
<1> TypeOK /\ MutexInv
  BY DEF IInv
<1> USE Sizes, Sentinels, Ranges DEF MutexInv, Inside
<1>1. ASSUME NEW c \in Calls, Start(c) PROVE MutexInv'
  BY <1>1 DEF Start
<1>2. ASSUME NEW c \in Calls, Lock(c) PROVE MutexInv'
  BY <1>2 DEF Lock
<1>3. ASSUME NEW c \in Calls, FailFast(c) PROVE MutexInv'
  BY <1>3 DEF FailFast
<1>4. ASSUME NEW c \in Calls, Register(c) PROVE MutexInv'
  BY <1>4 DEF Register
<1>5. ASSUME NEW c \in Calls, Write(c) PROVE MutexInv'
  BY <1>5 DEF Write
<1>6. ASSUME NEW c \in Calls, WriteFails(c) PROVE MutexInv'
  BY <1>6 DEF WriteFails
<1>7. ASSUME NEW c \in Calls, Receive(c) PROVE MutexInv'
  BY <1>7 DEF Receive
<1>8. ASSUME NEW c \in Calls, ReceiveClosed(c) PROVE MutexInv'
  BY <1>8 DEF ReceiveClosed
<1>9. ASSUME NEW c \in Calls, SeeCancel(c) PROVE MutexInv'
  BY <1>9 DEF SeeCancel
<1>10. ASSUME NEW c \in Calls, Reap(c) PROVE MutexInv'
  BY <1>10 DEF Reap
<1>11. ASSUME NEW c \in Calls, Cleanup(c) PROVE MutexInv'
  BY <1>11 DEF Cleanup
<1>12. ASSUME NEW c \in Calls, Cancel(c) PROVE MutexInv'
  BY <1>12 DEF Cancel
<1>13. ASSUME ReadAnswer PROVE MutexInv'
  BY <1>13 DEF ReadAnswer
<1>14. ASSUME ReadOther PROVE MutexInv'
  BY <1>14 DEF ReadOther
<1>15. ASSUME Route PROVE MutexInv'
  BY <1>15 DEF Route
<1>16. ASSUME ReadFails PROVE MutexInv'
  BY <1>16 DEF ReadFails
<1>17. ASSUME Close PROVE MutexInv'
  BY <1>17 DEF Close
<1>18. ASSUME ReapClosed PROVE MutexInv'
  BY <1>18 DEF ReapClosed
<1>19. ASSUME Hear PROVE MutexInv'
  BY <1>19 DEF Hear
<1>20. ASSUME Say PROVE MutexInv'
  BY <1>20 DEF Say
<1>21. ASSUME FallSilent PROVE MutexInv'
  BY <1>21 DEF FallSilent
<1>22. ASSUME Exit PROVE MutexInv'
  BY <1>22 DEF Exit
<1>23. CASE UNCHANGED vars
  BY <1>23 DEF vars
<1> QED
  BY <1>1, <1>2, <1>3, <1>4, <1>5, <1>6, <1>7, <1>8, <1>9, <1>10, <1>11,
     <1>12, <1>13, <1>14, <1>15, <1>16, <1>17, <1>18, <1>19, <1>20, <1>21,
     <1>22, <1>23 DEF Next, Step, ReadLoop

(* Ids: a call takes the next one when it registers, and no other step     *)
(* gives or takes one (call).                                              *)
LEMMA StepId == IInv /\ [Next]_vars => IdInv'
<1> SUFFICES ASSUME IInv, [Next]_vars PROVE IdInv'
  OBVIOUS
<1> TypeOK /\ IdInv
  BY DEF IInv
<1> USE Sizes, Ranges DEF IdInv, Registered
<1>1. ASSUME NEW c \in Calls, Start(c) PROVE IdInv'
  BY <1>1 DEF Start
<1>2. ASSUME NEW c \in Calls, Lock(c) PROVE IdInv'
  BY <1>2 DEF Lock
<1>3. ASSUME NEW c \in Calls, FailFast(c) PROVE IdInv'
  BY <1>3 DEF FailFast
<1>4. ASSUME NEW c \in Calls, Register(c) PROVE IdInv'
  <2>1. /\ id[c] = 0 /\ id' = [id EXCEPT ![c] = nextID + 1]
        /\ nextID' = nextID + 1 /\ pc' = [pc EXCEPT ![c] = "write"]
    BY <1>4 DEF Register, FreshId
  <2>2. nextID \in Nat /\ Cardinality(Registered \cup {c}) = nextID + 1
    BY <2>1, RoomForId
  <2>3. Registered' = Registered \cup {c}
    <3>1. \A d \in Calls : id'[d] = IF d = c THEN nextID + 1 ELSE id[d]
      BY <2>1
    <3>2. nextID + 1 # 0
      BY <2>2, SMT
    <3> QED
      BY <3>1, <3>2
  <2> QED
    BY <2>1, <2>2, <2>3
<1>5. ASSUME NEW c \in Calls, Write(c) PROVE IdInv'
  BY <1>5 DEF Write
<1>6. ASSUME NEW c \in Calls, WriteFails(c) PROVE IdInv'
  BY <1>6 DEF WriteFails
<1>7. ASSUME NEW c \in Calls, Receive(c) PROVE IdInv'
  BY <1>7 DEF Receive
<1>8. ASSUME NEW c \in Calls, ReceiveClosed(c) PROVE IdInv'
  BY <1>8 DEF ReceiveClosed
<1>9. ASSUME NEW c \in Calls, SeeCancel(c) PROVE IdInv'
  BY <1>9 DEF SeeCancel
<1>10. ASSUME NEW c \in Calls, Reap(c) PROVE IdInv'
  BY <1>10 DEF Reap
<1>11. ASSUME NEW c \in Calls, Cleanup(c) PROVE IdInv'
  BY <1>11 DEF Cleanup
<1>12. ASSUME NEW c \in Calls, Cancel(c) PROVE IdInv'
  BY <1>12 DEF Cancel
<1>13. ASSUME ReadAnswer PROVE IdInv'
  BY <1>13 DEF ReadAnswer
<1>14. ASSUME ReadOther PROVE IdInv'
  BY <1>14 DEF ReadOther
<1>15. ASSUME Route PROVE IdInv'
  BY <1>15 DEF Route
<1>16. ASSUME ReadFails PROVE IdInv'
  BY <1>16 DEF ReadFails
<1>17. ASSUME Close PROVE IdInv'
  BY <1>17 DEF Close
<1>18. ASSUME ReapClosed PROVE IdInv'
  BY <1>18 DEF ReapClosed
<1>19. ASSUME Hear PROVE IdInv'
  BY <1>19 DEF Hear
<1>20. ASSUME Say PROVE IdInv'
  BY <1>20 DEF Say
<1>21. ASSUME FallSilent PROVE IdInv'
  BY <1>21 DEF FallSilent
<1>22. ASSUME Exit PROVE IdInv'
  BY <1>22 DEF Exit
<1>23. CASE UNCHANGED vars
  BY <1>23 DEF vars
<1> QED
  BY <1>1, <1>2, <1>3, <1>4, <1>5, <1>6, <1>7, <1>8, <1>9, <1>10, <1>11,
     <1>12, <1>13, <1>14, <1>15, <1>16, <1>17, <1>18, <1>19, <1>20, <1>21,
     <1>22, <1>23 DEF Next, Step, ReadLoop

(* Answers: a request is written with the id of its call, the server       *)
(* repeats what it has heard, and the reader routes by the id (call,       *)
(* readLoop).                                                              *)
LEMMA StepAnswer == IInv /\ [Next]_vars => AnswerInv'
<1> SUFFICES ASSUME IInv, [Next]_vars PROVE AnswerInv'
  OBVIOUS
<1> TypeOK /\ AnswerInv /\ IdInv
  BY DEF IInv
<1> USE DEF AnswerInv
<1>1. ASSUME NEW c \in Calls, Start(c) PROVE AnswerInv'
  BY <1>1 DEF Start, Truthful
<1>2. ASSUME NEW c \in Calls, Lock(c) PROVE AnswerInv'
  BY <1>2 DEF Lock, Truthful
<1>3. ASSUME NEW c \in Calls, FailFast(c) PROVE AnswerInv'
  BY <1>3 DEF FailFast, Truthful
<1>4. ASSUME NEW c \in Calls, Register(c) PROVE AnswerInv'
  <2>1. /\ id[c] = 0 /\ id' = [id EXCEPT ![c] = nextID + 1]
        /\ chan' = [chan EXCEPT ![nextID + 1] = Empty]
        /\ UNCHANGED <<stdin, stdout, heard, line, reader>>
    BY <1>4 DEF Register, IdInv
  <2>2. \A d \in Calls : id[d] # 0 => id'[d] = id[d]
    BY <2>1, Ranges
  <2>3. \A m : Truthful(m) => Truthful(m)'
    BY <2>2, LineSorts DEF Truthful
  <2>4. nextID + 1 \in Ids
    BY <2>1, RoomForId
  <2>5. \A i \in Ids : chan'[i] \in Calls => chan'[i] = chan[i]
    BY <2>1, <2>4, Ranges, Sentinels
  <2>6. \A i \in Ids : i # 0
    BY DEF Ids
  <2>7. \A i \in Ids : chan'[i] \in Calls => id'[chan'[i]] = i
    BY <2>2, <2>5, <2>6
  <2> QED
    BY <2>1, <2>3, <2>7
<1>5. ASSUME NEW c \in Calls, Write(c) PROVE AnswerInv'
  <2> DEFINE req == [id |-> id[c], from |-> c]
  <2>1. stdin' = Append(stdin, req) /\ pc[c] = "write" /\ Len(stdin) < PipeCap
        /\ UNCHANGED <<stdout, heard, line, reader, chan, id>>
    BY <1>5 DEF Write
  <2>2. req \in Answers /\ req.id = id[c] /\ req.from = c
    BY <2>1, Requested
  <2> HIDE DEF req
  <2>3. \A i \in DOMAIN stdin' :
          stdin'[i] = req \/ (i \in DOMAIN stdin /\ stdin'[i] = stdin[i])
    BY <2>1, <2>2, StdinPiped
  <2>4. \A m : Truthful(m)' <=> Truthful(m)
    BY <2>1 DEF Truthful
  <2>5. Truthful(req)
    BY <2>2 DEF Truthful
  <2> QED
    BY <2>1, <2>2, <2>3, <2>4, <2>5
<1>6. ASSUME NEW c \in Calls, WriteFails(c) PROVE AnswerInv'
  BY <1>6 DEF WriteFails, Truthful
<1>7. ASSUME NEW c \in Calls, Receive(c) PROVE AnswerInv'
  <2>1. /\ chan' = [chan EXCEPT ![id[c]] = Empty]
        /\ UNCHANGED <<stdin, stdout, heard, line, reader, id>>
    BY <1>7 DEF Receive
  <2>2. \A i \in Ids : chan'[i] \in Calls => chan'[i] = chan[i]
    BY <2>1, Ranges, Sentinels
  <2>3. \A m : Truthful(m)' <=> Truthful(m)
    BY <2>1 DEF Truthful
  <2> QED
    BY <2>1, <2>2, <2>3
<1>8. ASSUME NEW c \in Calls, ReceiveClosed(c) PROVE AnswerInv'
  BY <1>8 DEF ReceiveClosed, Truthful
<1>9. ASSUME NEW c \in Calls, SeeCancel(c) PROVE AnswerInv'
  BY <1>9 DEF SeeCancel, Truthful
<1>10. ASSUME NEW c \in Calls, Reap(c) PROVE AnswerInv'
  BY <1>10 DEF Reap, Truthful
<1>11. ASSUME NEW c \in Calls, Cleanup(c) PROVE AnswerInv'
  BY <1>11 DEF Cleanup, Truthful
<1>12. ASSUME NEW c \in Calls, Cancel(c) PROVE AnswerInv'
  BY <1>12 DEF Cancel, Truthful
<1>13. ASSUME ReadAnswer PROVE AnswerInv'
  <2>1. /\ stdout # <<>> /\ stdout' = Tail(stdout) /\ line' = stdout[1]
        /\ stdout[1].id \in pending /\ UNCHANGED <<stdin, heard, chan, id>>
    BY <1>13 DEF ReadAnswer
  <2>2. /\ 1 \in DOMAIN stdout /\ stdout[1] \in Answers \cup {Noise}
        /\ \A i \in DOMAIN stdout' : i + 1 \in DOMAIN stdout /\ stdout'[i] = stdout[i + 1]
    BY <2>1, StdoutTaken
  <2>3. stdout[1].id \in Ids
    BY <2>1, Ranges
  <2>4. stdout[1] \in Answers
    <3>1. stdout[1] # Noise
      BY <2>3, LineSorts DEF Ids
    <3> QED
      BY <2>2, <3>1
  <2>5. \A m : Truthful(m)' <=> Truthful(m)
    BY <2>1 DEF Truthful
  <2> QED
    BY <2>1, <2>2, <2>4, <2>5
<1>14. ASSUME ReadOther PROVE AnswerInv'
  <2>1. /\ stdout # <<>> /\ stdout' = Tail(stdout)
        /\ UNCHANGED <<stdin, heard, chan, id, line, reader>>
    BY <1>14 DEF ReadOther
  <2>2. \A i \in DOMAIN stdout' : i + 1 \in DOMAIN stdout /\ stdout'[i] = stdout[i + 1]
    BY <2>1, StdoutTaken
  <2>3. \A m : Truthful(m)' <=> Truthful(m)
    BY <2>1 DEF Truthful
  <2> QED
    BY <2>1, <2>2, <2>3
<1>15. ASSUME Route PROVE AnswerInv'
  <2>1. line \in Answers /\ line.from \in Calls /\ line.id \in Ids /\ id[line.from] = line.id
    BY <1>15, Routed DEF Route
  <2>2. /\ chan' = [chan EXCEPT ![line.id] = line.from] /\ reader' # "routing" /\ line' = Noise
        /\ UNCHANGED <<stdin, stdout, heard, id>>
    BY <1>15 DEF Route, Reading
  <2>3. \A i \in Ids : chan'[i] = IF i = line.id THEN line.from ELSE chan[i]
    BY <2>1, <2>2, Ranges
  <2>4. \A i \in Ids : chan'[i] \in Calls => id'[chan'[i]] = i
    BY <2>1, <2>2, <2>3
  <2>5. \A m : Truthful(m)' <=> Truthful(m)
    BY <2>2 DEF Truthful
  <2>6. Truthful(Noise)
    BY DEF Truthful
  <2> QED
    BY <2>2, <2>4, <2>5, <2>6
<1>16. ASSUME ReadFails PROVE AnswerInv'
  <2>1. /\ chan' = [i \in Ids |-> IF i \in pending THEN Closed ELSE chan[i]]
        /\ reader' # "routing" /\ UNCHANGED <<stdin, stdout, heard, id, line>>
    BY <1>16 DEF ReadFails, Exited
  <2>2. \A i \in Ids : chan'[i] \in Calls => chan'[i] = chan[i]
    BY <2>1, Sentinels
  <2>3. \A m : Truthful(m)' <=> Truthful(m)
    BY <2>1 DEF Truthful
  <2> QED
    BY <2>1, <2>2, <2>3
<1>17. ASSUME Close PROVE AnswerInv'
  BY <1>17 DEF Close, Truthful
<1>18. ASSUME ReapClosed PROVE AnswerInv'
  BY <1>18 DEF ReapClosed, Truthful
<1>19. ASSUME Hear PROVE AnswerInv'
  <2>1. /\ stdin # <<>> /\ stdin' = Tail(stdin) /\ heard' = heard \cup {stdin[1]}
        /\ UNCHANGED <<stdout, chan, id, line, reader>>
    BY <1>19 DEF Hear
  <2>2. /\ 1 \in DOMAIN stdin
        /\ \A i \in DOMAIN stdin' : i + 1 \in DOMAIN stdin /\ stdin'[i] = stdin[i + 1]
    BY <2>1, StdinTaken
  <2>3. \A m : Truthful(m)' <=> Truthful(m)
    BY <2>1 DEF Truthful
  <2> QED
    BY <2>1, <2>2, <2>3
<1>20. ASSUME Say PROVE AnswerInv'
  <2>1. PICK said \in heard \cup {Noise} : stdout' = Append(stdout, said)
    BY <1>20 DEF Say
  <2>2. Len(stdout) < MaxLines /\ UNCHANGED <<stdin, heard, chan, id, line, reader>>
    BY <1>20 DEF Say
  <2>3. said \in Answers \cup {Noise} /\ Truthful(said)
    BY <2>1 DEF Truthful
  <2>4. \A i \in DOMAIN stdout' :
          stdout'[i] = said \/ (i \in DOMAIN stdout /\ stdout'[i] = stdout[i])
    BY <2>1, <2>2, <2>3, StdoutPiped
  <2>5. \A m : Truthful(m)' <=> Truthful(m)
    BY <2>2 DEF Truthful
  <2> QED
    BY <2>2, <2>3, <2>4, <2>5
<1>21. ASSUME FallSilent PROVE AnswerInv'
  BY <1>21 DEF FallSilent, Truthful
<1>22. ASSUME Exit PROVE AnswerInv'
  BY <1>22 DEF Exit, Truthful
<1>23. CASE UNCHANGED vars
  BY <1>23 DEF vars, Truthful
<1> QED
  BY <1>1, <1>2, <1>3, <1>4, <1>5, <1>6, <1>7, <1>8, <1>9, <1>10, <1>11,
     <1>12, <1>13, <1>14, <1>15, <1>16, <1>17, <1>18, <1>19, <1>20, <1>21,
     <1>22, <1>23 DEF Next, Step, ReadLoop

(* Entries: one comes with the call that holds callMu and goes with it,    *)
(* with the answer or with failAll, which leaves something in the channel  *)
(* (call, readLoop, failAll).                                              *)
LEMMA StepPending == IInv /\ [Next]_vars => PendingIsTidy'
<1> SUFFICES ASSUME IInv, [Next]_vars PROVE PendingIsTidy'
  OBVIOUS
<1> TypeOK /\ PendingIsTidy /\ MutexInv /\ IdInv /\ AnswerInv
  BY DEF IInv
<1> USE Sizes, Sentinels, Ranges DEF PendingIsTidy, MutexInv, Inside, IdInv
<1>1. ASSUME NEW c \in Calls, Start(c) PROVE PendingIsTidy'
  BY <1>1 DEF Start
<1>2. ASSUME NEW c \in Calls, Lock(c) PROVE PendingIsTidy'
  BY <1>2 DEF Lock
<1>3. ASSUME NEW c \in Calls, FailFast(c) PROVE PendingIsTidy'
  BY <1>3 DEF FailFast
<1>4. ASSUME NEW c \in Calls, Register(c) PROVE PendingIsTidy'
  <2>1. /\ pc[c] = "register" /\ ~readErr /\ readErr' = readErr /\ callMu' = callMu
        /\ id' = [id EXCEPT ![c] = nextID + 1] /\ pending' = pending \cup {nextID + 1}
        /\ pc' = [pc EXCEPT ![c] = "write"]
    BY <1>4 DEF Register
  <2>2. id[c] = 0 /\ callMu = c
    BY <2>1
  <2>3. \A i \in pending : i # 0 /\ id[callMu] = i
    BY IdSorts
  <2>4. pending = {}
    BY <2>2, <2>3
  <2>5. id'[c] = nextID + 1
    BY <2>1
  <2>6. \A d \in Calls : pc'[d] \in {"write", "wait"} => d = c
    BY <2>1, <2>2
  <2> QED
    BY <2>1, <2>2, <2>4, <2>5, <2>6
<1>5. ASSUME NEW c \in Calls, Write(c) PROVE PendingIsTidy'
  BY <1>5 DEF Write
<1>6. ASSUME NEW c \in Calls, WriteFails(c) PROVE PendingIsTidy'
  BY <1>6 DEF WriteFails
<1>7. ASSUME NEW c \in Calls, Receive(c) PROVE PendingIsTidy'
  BY <1>7 DEF Receive
<1>8. ASSUME NEW c \in Calls, ReceiveClosed(c) PROVE PendingIsTidy'
  BY <1>8 DEF ReceiveClosed
<1>9. ASSUME NEW c \in Calls, SeeCancel(c) PROVE PendingIsTidy'
  BY <1>9 DEF SeeCancel
<1>10. ASSUME NEW c \in Calls, Reap(c) PROVE PendingIsTidy'
  BY <1>10 DEF Reap
<1>11. ASSUME NEW c \in Calls, Cleanup(c) PROVE PendingIsTidy'
  BY <1>11 DEF Cleanup
<1>12. ASSUME NEW c \in Calls, Cancel(c) PROVE PendingIsTidy'
  BY <1>12 DEF Cancel
<1>13. ASSUME ReadAnswer PROVE PendingIsTidy'
  BY <1>13 DEF ReadAnswer
<1>14. ASSUME ReadOther PROVE PendingIsTidy'
  BY <1>14 DEF ReadOther
<1>15. ASSUME Route PROVE PendingIsTidy'
  <2>1. line \in Answers /\ line.from \in Calls /\ line.id \in Ids
    BY <1>15, Routed DEF Route
  <2>2. /\ chan' = [chan EXCEPT ![line.id] = line.from]
        /\ UNCHANGED <<pending, pc, id, callMu, readErr>>
    BY <1>15 DEF Route
  <2>3. \A i \in Ids : chan'[i] = IF i = line.id THEN line.from ELSE chan[i]
    BY <2>1, <2>2
  <2>4. \A i \in Ids : chan[i] # Empty \/ i = line.id => chan'[i] # Empty
    BY <2>1, <2>3
  <2>5. \A d \in Calls : pc[d] \in {"write", "wait"} => id[d] \in Ids
    BY DEF Ids
  <2> QED
    BY <2>2, <2>4, <2>5
<1>16. ASSUME ReadFails PROVE PendingIsTidy'
  <2>1. \A i \in Ids : chan'[i] = IF i \in pending THEN Closed ELSE chan[i]
    BY <1>16 DEF ReadFails
  <2>2. pending' = {} /\ UNCHANGED <<pc, id, callMu>> /\ reader # "routing"
    BY <1>16 DEF ReadFails, Reading
  <2>3. \A d \in Calls : pc[d] \in {"write", "wait"} => id[d] \in Ids
    BY DEF Ids
  <2>4. ASSUME NEW d \in Calls, pc'[d] \in {"write", "wait"} PROVE chan'[id'[d]] # Empty
    <3>1. id[d] \in Ids /\ (id[d] \in pending \/ chan[id[d]] # Empty)
      BY <2>2, <2>3, <2>4
    <3>2. chan'[id[d]] # Empty
      BY <2>1, <3>1, Sentinels
    <3> QED
      BY <2>2, <3>2
  <2> QED
    BY <2>2, <2>4
<1>17. ASSUME Close PROVE PendingIsTidy'
  BY <1>17 DEF Close
<1>18. ASSUME ReapClosed PROVE PendingIsTidy'
  BY <1>18 DEF ReapClosed
<1>19. ASSUME Hear PROVE PendingIsTidy'
  BY <1>19 DEF Hear
<1>20. ASSUME Say PROVE PendingIsTidy'
  BY <1>20 DEF Say
<1>21. ASSUME FallSilent PROVE PendingIsTidy'
  BY <1>21 DEF FallSilent
<1>22. ASSUME Exit PROVE PendingIsTidy'
  BY <1>22 DEF Exit
<1>23. CASE UNCHANGED vars
  BY <1>23 DEF vars
<1> QED
  BY <1>1, <1>2, <1>3, <1>4, <1>5, <1>6, <1>7, <1>8, <1>9, <1>10, <1>11,
     <1>12, <1>13, <1>14, <1>15, <1>16, <1>17, <1>18, <1>19, <1>20, <1>21,
     <1>22, <1>23 DEF Next, Step, ReadLoop

(* A call takes what is in the channel of its own id (call).               *)
LEMMA StepOwn == IInv /\ [Next]_vars => OwnAnswer'
<1> SUFFICES ASSUME IInv, [Next]_vars PROVE OwnAnswer'
  OBVIOUS
<1> TypeOK /\ OwnAnswer /\ AnswerInv /\ IdInv
  BY DEF IInv
<1> USE Sizes, Sentinels, Ranges DEF OwnAnswer, AnswerInv, IdInv
<1>1. ASSUME NEW c \in Calls, Start(c) PROVE OwnAnswer'
  BY <1>1 DEF Start
<1>2. ASSUME NEW c \in Calls, Lock(c) PROVE OwnAnswer'
  BY <1>2 DEF Lock
<1>3. ASSUME NEW c \in Calls, FailFast(c) PROVE OwnAnswer'
  BY <1>3 DEF FailFast
<1>4. ASSUME NEW c \in Calls, Register(c) PROVE OwnAnswer'
  BY <1>4 DEF Register
<1>5. ASSUME NEW c \in Calls, Write(c) PROVE OwnAnswer'
  BY <1>5 DEF Write
<1>6. ASSUME NEW c \in Calls, WriteFails(c) PROVE OwnAnswer'
  BY <1>6 DEF WriteFails
<1>7. ASSUME NEW c \in Calls, Receive(c) PROVE OwnAnswer'
  <2>1. /\ chan[id[c]] \in Calls /\ id[c] # 0
        /\ outcome' = [outcome EXCEPT ![c] = chan[id[c]]]
    BY <1>7 DEF Receive
  <2>2. id[c] \in Ids
    BY <2>1 DEF Ids
  <2>3. id[chan[id[c]]] = id[c]
    BY <2>1, <2>2
  <2>4. chan[id[c]] = c
    BY <2>1, <2>3
  <2> QED
    BY <2>1, <2>4
<1>8. ASSUME NEW c \in Calls, ReceiveClosed(c) PROVE OwnAnswer'
  BY <1>8 DEF ReceiveClosed
<1>9. ASSUME NEW c \in Calls, SeeCancel(c) PROVE OwnAnswer'
  BY <1>9 DEF SeeCancel
<1>10. ASSUME NEW c \in Calls, Reap(c) PROVE OwnAnswer'
  BY <1>10 DEF Reap
<1>11. ASSUME NEW c \in Calls, Cleanup(c) PROVE OwnAnswer'
  BY <1>11 DEF Cleanup
<1>12. ASSUME NEW c \in Calls, Cancel(c) PROVE OwnAnswer'
  BY <1>12 DEF Cancel
<1>13. ASSUME ReadAnswer PROVE OwnAnswer'
  BY <1>13 DEF ReadAnswer
<1>14. ASSUME ReadOther PROVE OwnAnswer'
  BY <1>14 DEF ReadOther
<1>15. ASSUME Route PROVE OwnAnswer'
  BY <1>15 DEF Route
<1>16. ASSUME ReadFails PROVE OwnAnswer'
  BY <1>16 DEF ReadFails
<1>17. ASSUME Close PROVE OwnAnswer'
  BY <1>17 DEF Close
<1>18. ASSUME ReapClosed PROVE OwnAnswer'
  BY <1>18 DEF ReapClosed
<1>19. ASSUME Hear PROVE OwnAnswer'
  BY <1>19 DEF Hear
<1>20. ASSUME Say PROVE OwnAnswer'
  BY <1>20 DEF Say
<1>21. ASSUME FallSilent PROVE OwnAnswer'
  BY <1>21 DEF FallSilent
<1>22. ASSUME Exit PROVE OwnAnswer'
  BY <1>22 DEF Exit
<1>23. CASE UNCHANGED vars
  BY <1>23 DEF vars
<1> QED
  BY <1>1, <1>2, <1>3, <1>4, <1>5, <1>6, <1>7, <1>8, <1>9, <1>10, <1>11,
     <1>12, <1>13, <1>14, <1>15, <1>16, <1>17, <1>18, <1>19, <1>20, <1>21,
     <1>22, <1>23 DEF Next, Step, ReadLoop

(* A call moves on, and is told at most that it has failed.                *)
LEMMA HeardKept ==
  ASSUME TypeOK, AnswerInv, HeardInv, UNCHANGED <<stdin, stdout, heard, line, chan>>,
         \A c \in Calls : pc[c] # "idle" => pc'[c] # "idle",
         \A c \in Calls : outcome'[c] \in Calls => outcome'[c] = outcome[c]
  PROVE  HeardInv'
<1>1. \A i \in DOMAIN stdin : stdin[i].from \in Calls
  BY LineSorts DEF AnswerInv
<1>2. HeardCalls' = HeardCalls
  BY DEF HeardCalls
<1>3. \A c \in Calls : outcome'[c] \in Calls => outcome'[c] \in HeardCalls'
  BY <1>2 DEF HeardInv
<1> QED
  BY <1>1, <1>2, <1>3 DEF HeardInv

(* Only the requests the server has read come back (readLoop).             *)
LEMMA StepHeard == IInv /\ [Next]_vars => HeardInv'
<1> SUFFICES ASSUME IInv, [Next]_vars PROVE HeardInv'
  OBVIOUS
<1> TypeOK /\ HeardInv /\ AnswerInv /\ IdInv
  BY DEF IInv
<1> USE DEF HeardInv
<1>1. ASSUME NEW c \in Calls, Start(c) PROVE HeardInv'
  <2>1. /\ pc' = [pc EXCEPT ![c] = "lock"]
        /\ UNCHANGED <<stdin, stdout, heard, line, chan, outcome>>
    BY <1>1 DEF Start
  <2>2. \A d \in Calls : pc[d] # "idle" => pc'[d] # "idle"
    BY <2>1, Ranges
  <2>3. \A d \in Calls : outcome'[d] \in Calls => outcome'[d] = outcome[d]
    BY <2>1, Ranges, Sentinels
  <2> QED
    BY <2>1, <2>2, <2>3, HeardKept
<1>2. ASSUME NEW c \in Calls, Lock(c) PROVE HeardInv'
  <2>1. /\ pc' = [pc EXCEPT ![c] = "register"]
        /\ UNCHANGED <<stdin, stdout, heard, line, chan, outcome>>
    BY <1>2 DEF Lock
  <2>2. \A d \in Calls : pc[d] # "idle" => pc'[d] # "idle"
    BY <2>1, Ranges
  <2>3. \A d \in Calls : outcome'[d] \in Calls => outcome'[d] = outcome[d]
    BY <2>1, Ranges, Sentinels
  <2> QED
    BY <2>1, <2>2, <2>3, HeardKept
<1>3. ASSUME NEW c \in Calls, FailFast(c) PROVE HeardInv'
  <2>1. /\ pc' = [pc EXCEPT ![c] = "reap"]
        /\ UNCHANGED <<stdin, stdout, heard, line, chan>>
        /\ outcome' = [outcome EXCEPT ![c] = "read error"]
    BY <1>3 DEF FailFast
  <2>2. \A d \in Calls : pc[d] # "idle" => pc'[d] # "idle"
    BY <2>1, Ranges
  <2>3. \A d \in Calls : outcome'[d] \in Calls => outcome'[d] = outcome[d]
    BY <2>1, Ranges, Sentinels
  <2> QED
    BY <2>1, <2>2, <2>3, HeardKept
<1>4. ASSUME NEW c \in Calls, Register(c) PROVE HeardInv'
  <2>1. /\ chan' = [chan EXCEPT ![nextID + 1] = Empty] /\ pc' = [pc EXCEPT ![c] = "write"]
        /\ pc[c] = "register" /\ UNCHANGED <<stdin, stdout, heard, line, outcome>>
    BY <1>4 DEF Register
  <2>2. nextID + 1 \in Ids
    BY <2>1, RoomForId DEF IdInv
  <2>3. \A i \in Ids : chan'[i] \in Calls => chan'[i] = chan[i]
    BY <2>1, <2>2, Ranges, Sentinels
  <2>4. HeardCalls' = HeardCalls
    BY <2>1 DEF HeardCalls
  <2>5. \A d \in Calls : pc[d] # "idle" => pc'[d] # "idle"
    BY <2>1, Ranges
  <2>6. \A i \in DOMAIN stdin : stdin[i].from \in Calls
    BY LineSorts DEF AnswerInv
  <2> QED
    BY <2>1, <2>3, <2>4, <2>5, <2>6
<1>5. ASSUME NEW c \in Calls, Write(c) PROVE HeardInv'
  <2> DEFINE req == [id |-> id[c], from |-> c]
  <2>1. /\ stdin' = Append(stdin, req) /\ pc[c] = "write" /\ Len(stdin) < PipeCap
        /\ pc' = [pc EXCEPT ![c] = "wait"] /\ UNCHANGED <<stdout, heard, line, chan, outcome>>
    BY <1>5 DEF Write
  <2>2. req \in Answers /\ req.from = c
    BY <2>1, Requested
  <2> HIDE DEF req
  <2>3. \A i \in DOMAIN stdin' :
          stdin'[i] = req \/ (i \in DOMAIN stdin /\ stdin'[i] = stdin[i])
    BY <2>1, <2>2, StdinPiped
  <2>4. HeardCalls' = HeardCalls
    BY <2>1 DEF HeardCalls
  <2>5. \A d \in Calls : pc[d] # "idle" \/ d = c => pc'[d] # "idle"
    BY <2>1, Ranges
  <2>6. \A i \in DOMAIN stdin : stdin[i].from \in Calls
    BY LineSorts DEF AnswerInv
  <2> QED
    BY <2>1, <2>2, <2>3, <2>4, <2>5, <2>6
<1>6. ASSUME NEW c \in Calls, WriteFails(c) PROVE HeardInv'
  <2>1. /\ pc' = [pc EXCEPT ![c] = "reap"]
        /\ UNCHANGED <<stdin, stdout, heard, line, chan>>
        /\ outcome' = [outcome EXCEPT ![c] = "write error"]
    BY <1>6 DEF WriteFails
  <2>2. \A d \in Calls : pc[d] # "idle" => pc'[d] # "idle"
    BY <2>1, Ranges
  <2>3. \A d \in Calls : outcome'[d] \in Calls => outcome'[d] = outcome[d]
    BY <2>1, Ranges, Sentinels
  <2> QED
    BY <2>1, <2>2, <2>3, HeardKept
<1>7. ASSUME NEW c \in Calls, Receive(c) PROVE HeardInv'
  <2>1. /\ chan[id[c]] \in Calls /\ outcome' = [outcome EXCEPT ![c] = chan[id[c]]]
        /\ chan' = [chan EXCEPT ![id[c]] = Empty] /\ pc' = [pc EXCEPT ![c] = "cleanup"]
        /\ pc[c] = "wait" /\ UNCHANGED <<stdin, stdout, heard, line>>
    BY <1>7 DEF Receive
  <2>2. id[c] \in Ids
    BY <2>1, Ranges DEF IdInv
  <2>3. \A i \in Ids : chan'[i] \in Calls => chan'[i] = chan[i]
    BY <2>1, Ranges, Sentinels
  <2>4. HeardCalls' = HeardCalls
    BY <2>1 DEF HeardCalls
  <2>5. \A d \in Calls : outcome'[d] \in Calls => outcome'[d] \in HeardCalls
    BY <2>1, <2>2, Ranges
  <2>6. \A d \in Calls : pc[d] # "idle" => pc'[d] # "idle"
    BY <2>1, Ranges
  <2>7. \A i \in DOMAIN stdin : stdin[i].from \in Calls
    BY LineSorts DEF AnswerInv
  <2> QED
    BY <2>1, <2>3, <2>4, <2>5, <2>6, <2>7
<1>8. ASSUME NEW c \in Calls, ReceiveClosed(c) PROVE HeardInv'
  <2>1. /\ pc' = [pc EXCEPT ![c] = "reap"]
        /\ UNCHANGED <<stdin, stdout, heard, line, chan>>
        /\ outcome' = [outcome EXCEPT ![c] = "read error"]
    BY <1>8 DEF ReceiveClosed
  <2>2. \A d \in Calls : pc[d] # "idle" => pc'[d] # "idle"
    BY <2>1, Ranges
  <2>3. \A d \in Calls : outcome'[d] \in Calls => outcome'[d] = outcome[d]
    BY <2>1, Ranges, Sentinels
  <2> QED
    BY <2>1, <2>2, <2>3, HeardKept
<1>9. ASSUME NEW c \in Calls, SeeCancel(c) PROVE HeardInv'
  <2>1. /\ pc' = [pc EXCEPT ![c] = "cleanup"]
        /\ UNCHANGED <<stdin, stdout, heard, line, chan>>
        /\ outcome' = [outcome EXCEPT ![c] = "cancelled"]
    BY <1>9 DEF SeeCancel
  <2>2. \A d \in Calls : pc[d] # "idle" => pc'[d] # "idle"
    BY <2>1, Ranges
  <2>3. \A d \in Calls : outcome'[d] \in Calls => outcome'[d] = outcome[d]
    BY <2>1, Ranges, Sentinels
  <2> QED
    BY <2>1, <2>2, <2>3, HeardKept
<1>10. ASSUME NEW c \in Calls, Reap(c) PROVE HeardInv'
  <2>1. /\ pc' = [pc EXCEPT ![c] = "cleanup"]
        /\ UNCHANGED <<stdin, stdout, heard, line, chan, outcome>>
    BY <1>10 DEF Reap
  <2>2. \A d \in Calls : pc[d] # "idle" => pc'[d] # "idle"
    BY <2>1, Ranges
  <2>3. \A d \in Calls : outcome'[d] \in Calls => outcome'[d] = outcome[d]
    BY <2>1, Ranges, Sentinels
  <2> QED
    BY <2>1, <2>2, <2>3, HeardKept
<1>11. ASSUME NEW c \in Calls, Cleanup(c) PROVE HeardInv'
  <2>1. /\ pc' = [pc EXCEPT ![c] = "done"]
        /\ UNCHANGED <<stdin, stdout, heard, line, chan, outcome>>
    BY <1>11 DEF Cleanup
  <2>2. \A d \in Calls : pc[d] # "idle" => pc'[d] # "idle"
    BY <2>1, Ranges
  <2>3. \A d \in Calls : outcome'[d] \in Calls => outcome'[d] = outcome[d]
    BY <2>1, Ranges, Sentinels
  <2> QED
    BY <2>1, <2>2, <2>3, HeardKept
<1>12. ASSUME NEW c \in Calls, Cancel(c) PROVE HeardInv'
  BY <1>12 DEF Cancel, HeardCalls
<1>13. ASSUME ReadAnswer PROVE HeardInv'
  <2>1. /\ stdout # <<>> /\ stdout' = Tail(stdout) /\ line' = stdout[1]
        /\ UNCHANGED <<stdin, heard, chan, pc, outcome>>
    BY <1>13 DEF ReadAnswer
  <2>2. /\ 1 \in DOMAIN stdout
        /\ \A i \in DOMAIN stdout' : i + 1 \in DOMAIN stdout /\ stdout'[i] = stdout[i + 1]
    BY <2>1, StdoutTaken
  <2>3. HeardCalls' = HeardCalls
    BY <2>1 DEF HeardCalls
  <2> QED
    BY <2>1, <2>2, <2>3
<1>14. ASSUME ReadOther PROVE HeardInv'
  <2>1. /\ stdout # <<>> /\ stdout' = Tail(stdout)
        /\ UNCHANGED <<stdin, heard, chan, pc, outcome, line>>
    BY <1>14 DEF ReadOther
  <2>2. \A i \in DOMAIN stdout' : i + 1 \in DOMAIN stdout /\ stdout'[i] = stdout[i + 1]
    BY <2>1, StdoutTaken
  <2>3. HeardCalls' = HeardCalls
    BY <2>1 DEF HeardCalls
  <2> QED
    BY <2>1, <2>2, <2>3
<1>15. ASSUME Route PROVE HeardInv'
  <2>1. line \in Answers /\ line.from \in Calls /\ line.id \in Ids
    BY <1>15, Routed DEF Route
  <2>2. /\ chan' = [chan EXCEPT ![line.id] = line.from] /\ line' = Noise
        /\ UNCHANGED <<stdin, stdout, heard, pc, outcome>>
    BY <1>15 DEF Route
  <2>3. line \in heard
    BY <2>1, LineSorts
  <2>4. line.from \in HeardCalls /\ HeardCalls' = HeardCalls
    BY <2>2, <2>3 DEF HeardCalls
  <2>5. \A i \in Ids : chan'[i] = IF i = line.id THEN line.from ELSE chan[i]
    BY <2>1, <2>2, Ranges
  <2>6. \A i \in Ids : chan'[i] \in Calls => chan'[i] \in HeardCalls
    BY <2>4, <2>5
  <2> QED
    BY <2>2, <2>4, <2>6
<1>16. ASSUME ReadFails PROVE HeardInv'
  <2>1. /\ chan' = [i \in Ids |-> IF i \in pending THEN Closed ELSE chan[i]]
        /\ UNCHANGED <<stdin, stdout, heard, line, pc, outcome>>
    BY <1>16 DEF ReadFails
  <2>2. \A i \in Ids : chan'[i] \in Calls => chan'[i] = chan[i]
    BY <2>1, Sentinels
  <2>3. HeardCalls' = HeardCalls
    BY <2>1 DEF HeardCalls
  <2> QED
    BY <2>1, <2>2, <2>3
<1>17. ASSUME Close PROVE HeardInv'
  BY <1>17 DEF Close, HeardCalls
<1>18. ASSUME ReapClosed PROVE HeardInv'
  BY <1>18 DEF ReapClosed, HeardCalls
<1>19. ASSUME Hear PROVE HeardInv'
  <2>1. /\ stdin # <<>> /\ stdin' = Tail(stdin) /\ heard' = heard \cup {stdin[1]}
        /\ UNCHANGED <<stdout, line, chan, pc, outcome>>
    BY <1>19 DEF Hear
  <2>2. \A i \in DOMAIN stdin' : i + 1 \in DOMAIN stdin /\ stdin'[i] = stdin[i + 1]
    BY <2>1, StdinTaken
  <2>3. HeardCalls \subseteq HeardCalls'
    BY <2>1 DEF HeardCalls
  <2> QED
    BY <2>1, <2>2, <2>3
<1>20. ASSUME Say PROVE HeardInv'
  <2>1. PICK said \in heard \cup {Noise} : stdout' = Append(stdout, said)
    BY <1>20 DEF Say
  <2>2. Len(stdout) < MaxLines /\ UNCHANGED <<stdin, heard, chan, pc, line, outcome>>
    BY <1>20 DEF Say
  <2>3. said \in Answers \cup {Noise}
    BY <2>1, Lines
  <2>4. \A i \in DOMAIN stdout' :
          stdout'[i] = said \/ (i \in DOMAIN stdout /\ stdout'[i] = stdout[i])
    BY <2>1, <2>2, <2>3, StdoutPiped
  <2>5. HeardCalls' = HeardCalls
    BY <2>2 DEF HeardCalls
  <2> QED
    BY <2>1, <2>2, <2>4, <2>5
<1>21. ASSUME FallSilent PROVE HeardInv'
  BY <1>21 DEF FallSilent, HeardCalls
<1>22. ASSUME Exit PROVE HeardInv'
  BY <1>22 DEF Exit, HeardCalls
<1>23. CASE UNCHANGED vars
  BY <1>23 DEF vars, HeardCalls
<1> QED
  BY <1>1, <1>2, <1>3, <1>4, <1>5, <1>6, <1>7, <1>8, <1>9, <1>10, <1>11,
     <1>12, <1>13, <1>14, <1>15, <1>16, <1>17, <1>18, <1>19, <1>20, <1>21,
     <1>22, <1>23 DEF Next, Step, ReadLoop

(* Types, and that no id is given twice.                                   *)
LEMMA StepType == IInv /\ [Next]_vars => TypeOK'
<1> SUFFICES ASSUME IInv, [Next]_vars PROVE TypeOK'
  OBVIOUS
<1> TypeOK /\ MutexInv /\ IdInv /\ AnswerInv
  BY DEF IInv
<1>1. ASSUME NEW c \in Calls, Start(c) PROVE TypeOK'
  BY <1>1 DEF Start, TypeOK
<1>2. ASSUME NEW c \in Calls, Lock(c) PROVE TypeOK'
  BY <1>2 DEF Lock, TypeOK
<1>3. ASSUME NEW c \in Calls, FailFast(c) PROVE TypeOK'
  BY <1>3 DEF FailFast, TypeOK
<1>4. ASSUME NEW c \in Calls, Register(c) PROVE TypeOK'
  <2>1. /\ pc[c] = "register" /\ id' = [id EXCEPT ![c] = nextID + 1] /\ nextID' = nextID + 1
        /\ pending' = pending \cup {nextID + 1}
        /\ chan' = [chan EXCEPT ![nextID + 1] = Empty] /\ pc' = [pc EXCEPT ![c] = "write"]
        /\ UNCHANGED <<callMu, readErr, cancelled, outcome, readLoop, waited, closing, child>>
    BY <1>4 DEF Register
  <2>2. nextID + 1 \in Ids /\ nextID \in Nat
    BY <2>1, RoomForId DEF IdInv
  <2>3. nextID' \in 0..Cardinality(Calls)
    BY <2>1, <2>2, Sizes DEF Ids
  <2>4. id \in [Calls -> 0..nextID] /\ pending \subseteq 1..nextID
    BY DEF TypeOK
  <2>5. id' \in [Calls -> 0..nextID']
    BY <2>1, <2>2, <2>4, OneMore
  <2>6. pending' \subseteq 1..nextID'
    BY <2>1, <2>2, <2>4, OneMore
  <2>7. \A d \in Calls : id[d] # nextID + 1
    BY <2>2, <2>4, OneMore
  <2>8. \A d, e \in Calls : id'[d] = id'[e] /\ id'[d] # 0 => d = e
    <3>1. \A d, e \in Calls : id[d] = id[e] /\ id[d] # 0 => d = e
      BY Ranges
    <3>2. \A d \in Calls : id'[d] = IF d = c THEN nextID + 1 ELSE id[d]
      BY <2>1, <2>4
    <3> QED
      BY <2>7, <3>1, <3>2
  <2>9. chan' \in [Ids -> Calls \cup {Empty, Closed}]
    BY <2>1, <2>2, Ranges
  <2> QED
    BY <2>1, <2>3, <2>5, <2>6, <2>8, <2>9 DEF TypeOK
<1>5. ASSUME NEW c \in Calls, Write(c) PROVE TypeOK'
  <2>1. /\ stdin' = Append(stdin, [id |-> id[c], from |-> c]) /\ Len(stdin) < PipeCap
        /\ pc[c] = "write"
    BY <1>5 DEF Write
  <2>2. [id |-> id[c], from |-> c] \in Answers
    BY <2>1, Requested
  <2>3. stdin' \in Seq(Answers) /\ Len(stdin') <= PipeCap
    BY <2>1, <2>2, StdinPiped
  <2> QED
    BY <1>5, <2>3 DEF Write, TypeOK
<1>6. ASSUME NEW c \in Calls, WriteFails(c) PROVE TypeOK'
  BY <1>6 DEF WriteFails, TypeOK
<1>7. ASSUME NEW c \in Calls, Receive(c) PROVE TypeOK'
  BY <1>7 DEF Receive, TypeOK
<1>8. ASSUME NEW c \in Calls, ReceiveClosed(c) PROVE TypeOK'
  BY <1>8 DEF ReceiveClosed, TypeOK
<1>9. ASSUME NEW c \in Calls, SeeCancel(c) PROVE TypeOK'
  BY <1>9 DEF SeeCancel, TypeOK
<1>10. ASSUME NEW c \in Calls, Reap(c) PROVE TypeOK'
  BY <1>10 DEF Reap, TypeOK
<1>11. ASSUME NEW c \in Calls, Cleanup(c) PROVE TypeOK'
  BY <1>11 DEF Cleanup, TypeOK
<1>12. ASSUME NEW c \in Calls, Cancel(c) PROVE TypeOK'
  BY <1>12 DEF Cancel, TypeOK
<1>13. ASSUME ReadAnswer PROVE TypeOK'
  <2>1. stdout # <<>> /\ stdout' = Tail(stdout) /\ line' = stdout[1]
    BY <1>13 DEF ReadAnswer
  <2>2. /\ stdout[1] \in Answers \cup {Noise}
        /\ stdout' \in Seq(Answers \cup {Noise}) /\ Len(stdout') <= MaxLines
    BY <2>1, StdoutTaken
  <2> QED
    BY <1>13, <2>1, <2>2 DEF ReadAnswer, TypeOK
<1>14. ASSUME ReadOther PROVE TypeOK'
  <2>1. stdout # <<>> /\ stdout' = Tail(stdout)
    BY <1>14 DEF ReadOther
  <2>2. stdout' \in Seq(Answers \cup {Noise}) /\ Len(stdout') <= MaxLines
    BY <2>1, StdoutTaken
  <2> QED
    BY <1>14, <2>2 DEF ReadOther, TypeOK
<1>15. ASSUME Route PROVE TypeOK'
  <2>1. line \in Answers /\ line.from \in Calls /\ line.id \in Ids
    BY <1>15, Routed DEF Route
  <2> QED
    BY <1>15, <2>1 DEF Route, TypeOK
<1>16. ASSUME ReadFails PROVE TypeOK'
  BY <1>16 DEF ReadFails, TypeOK
<1>17. ASSUME Close PROVE TypeOK'
  BY <1>17 DEF Close, TypeOK
<1>18. ASSUME ReapClosed PROVE TypeOK'
  BY <1>18 DEF ReapClosed, TypeOK
<1>19. ASSUME Hear PROVE TypeOK'
  <2>1. stdin # <<>> /\ stdin' = Tail(stdin)
    BY <1>19 DEF Hear
  <2>2. stdin[1] \in Answers /\ stdin' \in Seq(Answers) /\ Len(stdin') <= PipeCap
    BY <2>1, StdinTaken
  <2> QED
    BY <1>19, <2>2 DEF Hear, TypeOK
<1>20. ASSUME Say PROVE TypeOK'
  <2>1. PICK said \in heard \cup {Noise} : stdout' = Append(stdout, said)
    BY <1>20 DEF Say
  <2>2. said \in Answers \cup {Noise} /\ Len(stdout) < MaxLines
    BY <1>20, Lines DEF Say
  <2>3. stdout' \in Seq(Answers \cup {Noise}) /\ Len(stdout') <= MaxLines
    BY <2>1, <2>2, StdoutPiped
  <2> QED
    BY <1>20, <2>3 DEF Say, TypeOK
<1>21. ASSUME FallSilent PROVE TypeOK'
  BY <1>21 DEF FallSilent, TypeOK
<1>22. ASSUME Exit PROVE TypeOK'
  BY <1>22 DEF Exit, TypeOK
<1>23. CASE UNCHANGED vars
  BY <1>23 DEF vars, TypeOK
<1> QED
  BY <1>1, <1>2, <1>3, <1>4, <1>5, <1>6, <1>7, <1>8, <1>9, <1>10, <1>11,
     <1>12, <1>13, <1>14, <1>15, <1>16, <1>17, <1>18, <1>19, <1>20, <1>21,
     <1>22, <1>23 DEF Next, Step, ReadLoop

(* The transport starts with nobody inside and empty pipes.                *)
LEMMA InitInv == Init => IInv
<1> SUFFICES ASSUME Init PROVE IInv
  OBVIOUS
<1>1. TypeOK
  <2>1. /\ nextID \in 0..Cardinality(Calls) /\ pending \subseteq 1..nextID
        /\ id \in [Calls -> 0..nextID] /\ chan \in [Ids -> Calls \cup {Empty, Closed}]
        /\ \A c, d \in Calls : id[c] = id[d] /\ id[c] # 0 => c = d
    BY Sizes DEF Init
  <2>2. /\ stdin = <<>> /\ stdin \in Seq(Answers) /\ Len(stdin) <= PipeCap
        /\ stdout \in Seq(Answers \cup {Noise}) /\ Len(stdout) <= MaxLines
    BY Sizes DEF Init
  <2> QED
    BY <2>1, <2>2 DEF Init, TypeOK
<1>2. IdInv
  <2>1. Registered = {}
    BY DEF Init, Registered
  <2> QED
    BY <2>1, FS_EmptySet DEF Init, IdInv
<1>3. MutexInv /\ AnswerInv
  <2>1. DOMAIN stdin = {} /\ DOMAIN stdout = {}
    BY DEF Init
  <2>2. MutexInv
    BY DEF Init, MutexInv, Inside
  <2>3. \A i \in Ids : chan[i] \notin Calls
    BY Sentinels DEF Init
  <2> QED
    BY <2>1, <2>2, <2>3 DEF Init, AnswerInv, Truthful, Reading
<1>4. HeardInv
  <2>1. DOMAIN stdin = {} /\ DOMAIN stdout = {}
    BY DEF Init
  <2>2. \A i \in Ids : chan[i] \notin Calls
    BY Sentinels DEF Init
  <2>3. \A c \in Calls : outcome[c] \notin Calls
    BY Sentinels DEF Init
  <2> QED
    BY <2>1, <2>2, <2>3 DEF Init, HeardInv
<1>5. PendingIsTidy /\ OwnAnswer
  BY Sizes, Sentinels DEF Init, PendingIsTidy, OwnAnswer
<1> QED
  BY <1>1, <1>2, <1>3, <1>4, <1>5 DEF IInv

(* The strengthened invariant holds throughout: who holds callMu, which    *)
(* ids were given, and that every answer on its way says the id its call   *)
(* has registered (transport_stdio.go call, readLoop, failAll).            *)
THEOREM Invariance == Spec => []IInv
<1>1. IInv /\ [Next]_vars => IInv'
  BY StepType, StepMutex, StepId, StepAnswer, StepPending, StepOwn, StepHeard DEF IInv
<1> QED
  BY <1>1, InitInv, PTL DEF Spec

(* Every variable has its type, and no id is registered by two calls.      *)
THEOREM TypeCorrect == Spec => []TypeOK
<1>1. IInv => TypeOK
  BY DEF IInv
<1> QED
  BY <1>1, Invariance, PTL

(* No call is given the answer to another, although calls are abandoned    *)
(* and the server answers late, twice, out of order or never (readLoop).   *)
THEOREM AnswersAreTheCallers == Spec => []OwnAnswer
<1>1. IInv => OwnAnswer
  BY DEF IInv
<1> QED
  BY <1>1, Invariance, PTL

(* Abandoned calls leave no entry, and no call waits for an answer that    *)
(* failAll has made impossible (call, failAll).                            *)
THEOREM NobodyIsForgotten == Spec => []PendingIsTidy
<1>1. IInv => PendingIsTidy
  BY DEF IInv
<1> QED
  BY <1>1, Invariance, PTL

(* One call goes from one phase to the next.                               *)
LEMMA PhaseMoves ==
  ASSUME NEW c \in Calls, \A d \in Calls \ {c} : Phase(d)' = Phase(d)
  PROVE  [d \in Calls |-> Phase(d)]' =
           [[d \in Calls |-> Phase(d)] EXCEPT ![c] = Phase(c)']
  OBVIOUS

(* A step of the transport is a step of RpcCalls or none: Start opens the  *)
(* call, the deferred cleanup ends it, and the server hears.               *)
LEMMA StepPromise == IInv /\ [Next]_vars => [Promise!Next]_Promise!vars
<1> SUFFICES ASSUME IInv, [Next]_vars PROVE [Promise!Next]_Promise!vars
  OBVIOUS
<1> TypeOK /\ HeardInv /\ AnswerInv /\ OwnAnswer
  BY DEF IInv
<1> DEFINE phase == [c \in Calls |-> Phase(c)]
<1>a. ASSUME UNCHANGED heard, \A d \in Calls : Phase(d)' = Phase(d)
      PROVE  UNCHANGED Promise!vars
  <2>1. phase' = phase
    BY <1>a
  <2>2. HeardCalls' = HeardCalls
    BY <1>a DEF HeardCalls
  <2> QED
    BY <2>1, <2>2 DEF Promise!vars
<1>1. ASSUME NEW c \in Calls, Start(c) PROVE [Promise!Next]_Promise!vars
  <2>1. /\ pc[c] = "idle" /\ pc' = [pc EXCEPT ![c] = "lock"] /\ UNCHANGED <<heard, outcome>>
    BY <1>1 DEF Start
  <2>2. /\ Phase(c) = "idle" /\ Phase(c)' = "open"
        /\ \A d \in Calls \ {c} : Phase(d)' = Phase(d)
    BY <2>1, Ranges DEF Phase
  <2>3. phase' = [phase EXCEPT ![c] = "open"]
    BY <2>2, PhaseMoves
  <2>4. HeardCalls' = HeardCalls
    BY <2>1 DEF HeardCalls
  <2>5. Promise!Open(c)
    BY <2>2, <2>3, <2>4 DEF Promise!Open
  <2> QED
    BY <2>5 DEF Promise!Next
<1>2. ASSUME NEW c \in Calls, Lock(c) PROVE [Promise!Next]_Promise!vars
  <2>1. /\ pc[c] = "lock" /\ pc' = [pc EXCEPT ![c] = "register"] /\ UNCHANGED heard
        /\ \A d \in Calls \ {c} : outcome'[d] = outcome[d]
    BY <1>2, Ranges DEF Lock
  <2>2. \A d \in Calls : Phase(d)' = Phase(d)
    BY <2>1, Ranges DEF Phase
  <2> QED
    BY <2>1, <2>2, <1>a
<1>3. ASSUME NEW c \in Calls, FailFast(c) PROVE [Promise!Next]_Promise!vars
  <2>1. /\ pc[c] = "register" /\ pc' = [pc EXCEPT ![c] = "reap"] /\ UNCHANGED heard
        /\ \A d \in Calls \ {c} : outcome'[d] = outcome[d]
    BY <1>3, Ranges DEF FailFast
  <2>2. \A d \in Calls : Phase(d)' = Phase(d)
    BY <2>1, Ranges DEF Phase
  <2> QED
    BY <2>1, <2>2, <1>a
<1>4. ASSUME NEW c \in Calls, Register(c) PROVE [Promise!Next]_Promise!vars
  <2>1. /\ pc[c] = "register" /\ pc' = [pc EXCEPT ![c] = "write"] /\ UNCHANGED heard
        /\ \A d \in Calls \ {c} : outcome'[d] = outcome[d]
    BY <1>4, Ranges DEF Register
  <2>2. \A d \in Calls : Phase(d)' = Phase(d)
    BY <2>1, Ranges DEF Phase
  <2> QED
    BY <2>1, <2>2, <1>a
<1>5. ASSUME NEW c \in Calls, Write(c) PROVE [Promise!Next]_Promise!vars
  <2>1. /\ pc[c] = "write" /\ pc' = [pc EXCEPT ![c] = "wait"] /\ UNCHANGED heard
        /\ \A d \in Calls \ {c} : outcome'[d] = outcome[d]
    BY <1>5, Ranges DEF Write
  <2>2. \A d \in Calls : Phase(d)' = Phase(d)
    BY <2>1, Ranges DEF Phase
  <2> QED
    BY <2>1, <2>2, <1>a
<1>6. ASSUME NEW c \in Calls, WriteFails(c) PROVE [Promise!Next]_Promise!vars
  <2>1. /\ pc[c] = "write" /\ pc' = [pc EXCEPT ![c] = "reap"] /\ UNCHANGED heard
        /\ \A d \in Calls \ {c} : outcome'[d] = outcome[d]
    BY <1>6, Ranges DEF WriteFails
  <2>2. \A d \in Calls : Phase(d)' = Phase(d)
    BY <2>1, Ranges DEF Phase
  <2> QED
    BY <2>1, <2>2, <1>a
<1>7. ASSUME NEW c \in Calls, Receive(c) PROVE [Promise!Next]_Promise!vars
  <2>1. /\ pc[c] = "wait" /\ pc' = [pc EXCEPT ![c] = "cleanup"] /\ UNCHANGED heard
        /\ \A d \in Calls \ {c} : outcome'[d] = outcome[d]
    BY <1>7, Ranges DEF Receive
  <2>2. \A d \in Calls : Phase(d)' = Phase(d)
    BY <2>1, Ranges DEF Phase
  <2> QED
    BY <2>1, <2>2, <1>a
<1>8. ASSUME NEW c \in Calls, ReceiveClosed(c) PROVE [Promise!Next]_Promise!vars
  <2>1. /\ pc[c] = "wait" /\ pc' = [pc EXCEPT ![c] = "reap"] /\ UNCHANGED heard
        /\ \A d \in Calls \ {c} : outcome'[d] = outcome[d]
    BY <1>8, Ranges DEF ReceiveClosed
  <2>2. \A d \in Calls : Phase(d)' = Phase(d)
    BY <2>1, Ranges DEF Phase
  <2> QED
    BY <2>1, <2>2, <1>a
<1>9. ASSUME NEW c \in Calls, SeeCancel(c) PROVE [Promise!Next]_Promise!vars
  <2>1. /\ pc[c] = "wait" /\ pc' = [pc EXCEPT ![c] = "cleanup"] /\ UNCHANGED heard
        /\ \A d \in Calls \ {c} : outcome'[d] = outcome[d]
    BY <1>9, Ranges DEF SeeCancel
  <2>2. \A d \in Calls : Phase(d)' = Phase(d)
    BY <2>1, Ranges DEF Phase
  <2> QED
    BY <2>1, <2>2, <1>a
<1>10. ASSUME NEW c \in Calls, Reap(c) PROVE [Promise!Next]_Promise!vars
  <2>1. /\ pc[c] = "reap" /\ pc' = [pc EXCEPT ![c] = "cleanup"] /\ UNCHANGED heard
        /\ \A d \in Calls \ {c} : outcome'[d] = outcome[d]
    BY <1>10, Ranges DEF Reap
  <2>2. \A d \in Calls : Phase(d)' = Phase(d)
    BY <2>1, Ranges DEF Phase
  <2> QED
    BY <2>1, <2>2, <1>a
<1>11. ASSUME NEW c \in Calls, Cleanup(c) PROVE [Promise!Next]_Promise!vars
  <2>1. /\ pc[c] = "cleanup" /\ pc' = [pc EXCEPT ![c] = "done"] /\ UNCHANGED <<heard, outcome>>
    BY <1>11 DEF Cleanup
  <2>2. /\ Phase(c) = "open"
        /\ Phase(c)' = IF outcome[c] \in Calls THEN "answered" ELSE "failed"
        /\ \A d \in Calls \ {c} : Phase(d)' = Phase(d)
    BY <2>1, Ranges DEF Phase
  <2>3. phase' = [phase EXCEPT ![c] = Phase(c)']
    BY <2>2, PhaseMoves
  <2>4. HeardCalls' = HeardCalls
    BY <2>1 DEF HeardCalls
  <2>5. CASE outcome[c] \in Calls
    <3>1. c \in HeardCalls
      BY <2>5 DEF OwnAnswer, HeardInv
    <3>2. Promise!Answer(c)
      BY <2>2, <2>3, <2>4, <2>5, <3>1 DEF Promise!Answer
    <3> QED
      BY <3>2 DEF Promise!Next
  <2>6. CASE outcome[c] \notin Calls
    <3>1. Promise!Fail(c)
      BY <2>2, <2>3, <2>4, <2>6 DEF Promise!Fail
    <3> QED
      BY <3>1 DEF Promise!Next
  <2> QED
    BY <2>5, <2>6
<1>12. ASSUME NEW c \in Calls, Cancel(c) PROVE [Promise!Next]_Promise!vars
  BY <1>12, <1>a DEF Cancel, Phase
<1>13. ASSUME ReadAnswer PROVE [Promise!Next]_Promise!vars
  BY <1>13, <1>a DEF ReadAnswer, Phase
<1>14. ASSUME ReadOther PROVE [Promise!Next]_Promise!vars
  BY <1>14, <1>a DEF ReadOther, Phase
<1>15. ASSUME Route PROVE [Promise!Next]_Promise!vars
  BY <1>15, <1>a DEF Route, Phase
<1>16. ASSUME ReadFails PROVE [Promise!Next]_Promise!vars
  BY <1>16, <1>a DEF ReadFails, Phase
<1>17. ASSUME Close PROVE [Promise!Next]_Promise!vars
  BY <1>17, <1>a DEF Close, Phase
<1>18. ASSUME ReapClosed PROVE [Promise!Next]_Promise!vars
  BY <1>18, <1>a DEF ReapClosed, Phase
<1>19. ASSUME Hear PROVE [Promise!Next]_Promise!vars
  <2> DEFINE c == stdin[1].from
  <2>1. /\ stdin # <<>> /\ stdin' = Tail(stdin) /\ heard' = heard \cup {stdin[1]}
        /\ UNCHANGED <<pc, outcome>>
    BY <1>19 DEF Hear
  <2>2. 1 \in DOMAIN stdin /\ stdin[1] \in Answers
    BY <2>1, StdinTaken
  <2>3. c \in Calls /\ pc[c] # "idle"
    BY <2>2, LineSorts DEF HeardInv
  <2>4. HeardCalls' = HeardCalls \cup {c}
    BY <2>1 DEF HeardCalls
  <2>5. phase' = phase
    BY <2>1 DEF Phase
  <2> HIDE DEF c
  <2>6. CASE c \in HeardCalls
    BY <2>4, <2>5, <2>6 DEF Promise!vars
  <2>7. CASE c \notin HeardCalls
    <3>1. Phase(c) \in {"open", "failed"}
      BY <2>3, <2>7 DEF Phase, OwnAnswer, HeardInv
    <3>2. Promise!Hear(c)
      BY <2>3, <2>4, <2>5, <2>7, <3>1 DEF Promise!Hear
    <3> QED
      BY <2>3, <3>2 DEF Promise!Next
  <2> QED
    BY <2>6, <2>7
<1>20. ASSUME Say PROVE [Promise!Next]_Promise!vars
  BY <1>20, <1>a DEF Say, Phase
<1>21. ASSUME FallSilent PROVE [Promise!Next]_Promise!vars
  BY <1>21, <1>a DEF FallSilent, Phase
<1>22. ASSUME Exit PROVE [Promise!Next]_Promise!vars
  BY <1>22, <1>a DEF Exit, Phase
<1>23. CASE UNCHANGED vars
  BY <1>23, <1>a DEF vars, Phase
<1> QED
  BY <1>1, <1>2, <1>3, <1>4, <1>5, <1>6, <1>7, <1>8, <1>9, <1>10, <1>11,
     <1>12, <1>13, <1>14, <1>15, <1>16, <1>17, <1>18, <1>19, <1>20, <1>21,
     <1>22, <1>23 DEF Next, Step, ReadLoop

(* Seen by its callers the transport is RpcCalls: every call ends at most  *)
(* once, and as answered only when the server has read that very request   *)
(* (transport_stdio.go call, readLoop, failAll, withStderr).               *)
THEOREM ImplementsCalls == Spec => KeepsPromise
<1>1. Init => Promise!Init
  <2> SUFFICES ASSUME Init PROVE Promise!Init
    OBVIOUS
  <2>1. HeardCalls = {}
    BY DEF Init, HeardCalls
  <2>2. \A c \in Calls : Phase(c) = "idle"
    BY DEF Init, Phase
  <2> QED
    BY <2>1, <2>2 DEF Promise!Init
<1> QED
  BY <1>1, StepPromise, Invariance, PTL DEF Spec, KeepsPromise, Promise!Spec

-----------------------------------------------------------------------------
(* The connections together.                                               *)

LEMMA Parts ==
  MCSpec => /\ Spec
            /\ Conn!Init /\ [][Conn!Next]_(Conn!vars)
            /\ Servers!Init /\ [][Servers!Next]_(Servers!vars)
            /\ Acp!Init /\ [][Acp!Next]_(Acp!vars)
            /\ Http!Init /\ [][Http!Next]_(Http!vars)
<1>1. MCInit => Init /\ Conn!Init /\ Servers!Init /\ Acp!Init /\ Http!Init
  BY DEF MCInit
<1>2. [MCNext]_mcVars => [Next]_vars
  BY DEF MCNext, mcVars
<1>3. [MCNext]_mcVars => [Conn!Next]_(Conn!vars)
  BY DEF MCNext, mcVars, connVars, Conn!vars, Conn!conn, Conn!calls, Conn!pump, Conn!child
<1>4. [MCNext]_mcVars => [Servers!Next]_(Servers!vars)
  BY DEF MCNext, mcVars, serverVars, Servers!vars, Servers!manager, Servers!query,
         Servers!document, Servers!problems
<1>5. [MCNext]_mcVars => [Acp!Next]_(Acp!vars)
  BY DEF MCNext, mcVars, acpVars, Acp!vars, Acp!handlers, Acp!registry, Acp!turns,
         Acp!permission
<1>6. [MCNext]_mcVars => [Http!Next]_(Http!vars)
  BY DEF MCNext, mcVars, httpVars, Http!vars
<1> QED
  BY <1>1, <1>2, <1>3, <1>4, <1>5, <1>6, PTL DEF MCSpec, Spec

LEMMA RpcInvariant ==
  MCSpec => /\ []IInv
            /\ []ConnInv /\ []ServersInv /\ []AcpInv /\ []HttpInv
BY Parts, Invariance, ConnHolds, ServersHold, AcpHolds, HttpHolds, PTL

(* Whatever the servers do - answer late, twice, out of order, die, hang   *)
(* up - a caller gets its own answer or an error (transport_stdio.go       *)
(* readLoop, transport_http.go readSSE, lsp/jsonrpc.go readLoop), an ACP   *)
(* tool runs only on the client's own permission (acp/dispatch.go          *)
(* requestPermission), and what a query reads is as new as the file, as    *)
(* long as no two queries synchronised it at once (lsp/client.go           *)
(* ensureSynced, waitDiagnostics).                                         *)
THEOREM EachAnswerIsOwn == MCSpec => []AnswersAreOwn
<1>1. IInv => OwnAnswer
  BY DEF IInv
<1>2. ConnInv => Conn!OwnAnswer
  BY ConnIsTidy
<1>3. ServersInv => Servers!SyncedText /\ Servers!CurrentProblems
  BY ServersInStep
<1>4. AcpInv => Acp!AllowedByClient
  BY AcpIsTidy
<1>5. HttpInv => Http!OwnAnswer
  BY HttpInSession
<1>6. IInv /\ ConnInv /\ ServersInv /\ AcpInv /\ HttpInv => AnswersAreOwn
  BY <1>1, <1>2, <1>3, <1>4, <1>5 DEF AnswersAreOwn
<1> QED
  BY <1>6, RpcInvariant, PTL

(* No abandoned call leaves its entry in a pending table, no failed start  *)
(* a second language server (lsp/manager.go resolve), no ended ACP         *)
(* connection a controller that is still open, no turn is out of reach of  *)
(* its cancel (acp/service.go sessionPrompt, sessionCancel), no request    *)
(* names an older session of an MCP server (transport_http.go do).         *)
THEOREM NothingIsLeft == MCSpec => []NothingLeftBehind
<1>1. IInv => TypeOK /\ PendingIsTidy
  BY DEF IInv
<1>2. ConnInv => Conn!PendingIsTidy
  BY ConnIsTidy
<1>3. ServersInv => Servers!OneServer
  BY ServersInStep
<1>4. AcpInv => Acp!TornDown /\ Acp!CancelFindsTurn
  BY AcpIsTidy
<1>5. HttpInv => Http!OneInSession
  BY HttpInSession
<1>6. IInv /\ ConnInv /\ ServersInv /\ AcpInv /\ HttpInv => NothingLeftBehind
  BY <1>1, <1>2, <1>3, <1>4, <1>5 DEF NothingLeftBehind
<1> QED
  BY <1>6, RpcInvariant, PTL

(* Each of the four request-response connections is RpcCalls: every call   *)
(* ends at most once, and as answered only when the other side has read    *)
(* that very request (transport_stdio.go, transport_http.go,               *)
(* lsp/jsonrpc.go, acp/server.go Request).                                 *)
THEOREM AllAreCalls == MCSpec => ImplementsRpc
BY Parts, ImplementsCalls, ConnKeepsPromise, AcpKeepsPromise, HttpKeepsPromise, PTL
   DEF ImplementsRpc
=============================================================================
