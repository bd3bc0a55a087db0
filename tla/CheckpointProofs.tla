-------------------------- MODULE CheckpointProofs --------------------------
(***************************************************************************)
(* Proofs about rewinding: the boundaries in memory and on disk cut the    *)
(* log where turns began, no turn takes the number of another one of the   *)
(* timeline, a writer's file is snapshotted before it is changed, and a    *)
(* code rewind leads back to the very files of the turn: for any files,    *)
(* any number of turns and writes, and any rewinds, compactions,           *)
(* summaries, failed restores, crashes and resumes between them.           *)
(***************************************************************************)
EXTENDS Checkpoint, SequenceTheorems, FiniteSetTheorems, WellFoundedInduction,
        TLAPS

(***************************************************************************)
(* The inductive invariant.                                                *)

Sys == [kind |-> "system", by |-> 0]
Message == [kind : Kinds, by : Nat]
Logs == {log \in Seq(Message) :
           /\ Len(log) \in 1 .. MaxMessages /\ log[1] = Sys
           /\ \A i \in 2 .. Len(log) : log[i].kind # "system"}
Texts == [Files -> 0 .. MaxWrites]
Starts == [log : Logs, files : Texts, utf8 : SUBSET Files]
Cmds == [op : Ops, turn : -1 .. MaxTurns - 1, bound : 0 .. MaxMessages,
         has : BOOLEAN, wrote : BOOLEAN]

TurnTypes ==
  /\ phase \in {"idle", "sent", "open", "working"} /\ start \in 0 .. MaxMessages
  /\ edit \in Files \cup {NoFile}
LogTypes == msgs \in Logs /\ saved \in Logs \cup {<<>>}
WorkTypes == files \in Texts /\ utf8 \in SUBSET Files
StoreTypes ==
  /\ done \in Seq(Checkpoints) /\ cur \in Checkpoints \cup {Nobody}
  /\ DOMAIN disk \subseteq Numbers /\ disk \in [DOMAIN disk -> Checkpoints]
  /\ \A t \in DOMAIN disk : disk[t].turn = t
BoundTypes ==
  /\ cpTurn \in 0 .. MaxTurns
  /\ DOMAIN cpBound \subseteq Numbers
  /\ cpBound \in [DOMAIN cpBound -> 1 .. MaxMessages]
CountTypes ==
  count \in [Events -> Nat] /\ count.turns <= MaxTurns /\ count.writes <= MaxWrites
HistTypes ==
  /\ live \in SUBSET Numbers /\ stale \in SUBSET live
  /\ torn \in -1 .. MaxTurns /\ dirty \in BOOLEAN
  /\ live \subseteq DOMAIN startOf /\ startOf \in [DOMAIN startOf -> Starts]
Types ==
  /\ TurnTypes /\ LogTypes /\ WorkTypes /\ StoreTypes /\ BoundTypes
  /\ cmd \in Cmds /\ CountTypes /\ HistTypes

\* A turn that has begun has its checkpoint, in memory and on disk alike, a
\* tool writes a file it has snapshotted in it, and there is room for the text.
TurnInv ==
  /\ started => cur # Nobody
  /\ cur # Nobody => cur.turn \in DOMAIN disk /\ disk[cur.turn] = cur
  /\ edit # NoFile => /\ phase = "working" /\ edit \in DOMAIN cur.files
                      /\ count.writes < MaxWrites

\* Every number in the store, in a boundary, on the timeline or in a command
\* is on disk and below the turns begun so far.
NumberInv ==
  /\ \A i \in DOMAIN done : done[i].turn \in DOMAIN disk
  /\ live \subseteq DOMAIN disk
  /\ cmd.op # "none" => cmd.turn \in DOMAIN disk
  /\ cpTurn <= count.turns /\ \A t \in DOMAIN disk : t < count.turns
  /\ phase = "sent" =>
       cpTurn < count.turns /\ \A t \in DOMAIN disk : t + 1 < count.turns
  /\ \A t \in live \cup DOMAIN cpBound : t < cpTurn

\* A command acts on the boundary as it is: nothing but the command itself
\* and a resume drops or moves one.
CommandInv ==
  /\ cmd.has => cmd.turn \in DOMAIN cpBound /\ cmd.bound = cpBound[cmd.turn]
  /\ cmd.op \in {"from", "upto"} => cmd.has

\* The turns whose boundaries still map are the last ones of the timeline and
\* their boundaries grow with their numbers.
OrderInv ==
  /\ live \ stale \subseteq DOMAIN cpBound
  /\ \A t \in live, u \in stale : t < u => t \in stale
  /\ \A t, u \in live \ stale : t < u => cpBound[t] <= cpBound[u]

\* log still begins with what the conversation was when turn t began.
Cuts(log, t) ==
  cpBound[t] <= Len(log) /\ SubSeq(log, 1, cpBound[t]) = startOf[t].log
Continues(log, part) == Len(part) <= Len(log) /\ SubSeq(log, 1, Len(part)) = part

\* What a crash falls back to begins with the same turns: between turns the
\* session file continues the log, in a turn it continues the log as it was
\* when the turn began, as long as no rewriting waits to be saved.
SavedInv ==
  saved # <<>> /\ ~dirty =>
    /\ \A t \in live \ stale : Cuts(saved, t)
    /\ ~started => Continues(saved, msgs)
    /\ started => /\ start <= Len(msgs)
                  /\ Continues(saved, SubSeq(msgs, 1, start))
MapInv == \A t \in live \ stale : Cuts(msgs, t)

\* The plan of a code rewind to turn t leads back to the start of t: RestInv
\* for the turns that have begun, AheadInv for files that no turn from t on has
\* touched but a turn that was left behind has.
Recovered(t, f) == IF Holders(f, t) = {} THEN files[f] ELSE Earliest(f, t)
RestInv ==
  \A t \in live : t <= torn => \A f \in Files : Recovered(t, f) = startOf[t].files[f]
AheadInv ==
  \A t \in live \cup {cpTurn} : t <= torn => \A f \in Files :
    /\ Holders(f, t) # {}
    /\ \A i \in Holders(f, t) : All[i].turn >= cpTurn
    => Earliest(f, t) = files[f]
TornInv ==
  /\ torn > cpTurn \/ (started /\ torn = cpTurn) =>
       \A i \in DOMAIN All : All[i].turn < cpTurn
  /\ started /\ torn >= 0 => cur.turn = cpTurn - 1 /\ cur.turn \in live

IInv ==
  /\ Types /\ TurnInv /\ NumberInv /\ CommandInv /\ OrderInv /\ MapInv
  /\ SavedInv /\ BoundsDurable
RecoverInv == RestInv /\ AheadInv /\ TornInv

-----------------------------------------------------------------------------
USE DEF turnVars, storeVars, boundVars, history, work

LEMMA Limits ==
  /\ MaxTurns \in Nat /\ MaxWrites \in Nat /\ MaxMessages \in Nat
  /\ MaxCompacts \in Nat /\ MaxSummaries \in Nat /\ MaxRewinds \in Nat
  /\ MaxFaults \in Nat /\ MaxRestarts \in Nat
  /\ MaxWrites > 0 /\ MaxMessages > 0 /\ NoFile \notin Files
  BY BoundsAssumption, FilesAssumption DEF NoFile

LEMMA InLogs ==
  ASSUME NEW log
  PROVE  log \in Logs <=>
           /\ log \in Seq(Message) /\ Len(log) \in 1 .. MaxMessages
           /\ log[1] = Sys /\ \A i \in 2 .. Len(log) : log[i].kind # "system"
  BY DEF Logs

(* A log that grows by a message begins as it did.                         *)
LEMMA LogGrows ==
  ASSUME NEW log \in Logs, NEW m \in Message,
         m.kind # "system", Len(log) < MaxMessages
  PROVE  /\ Append(log, m) \in Logs /\ Len(Append(log, m)) = Len(log) + 1
         /\ \A b \in 0 .. Len(log) :
              SubSeq(Append(log, m), 1, b) = SubSeq(log, 1, b)
<1>1. log \in Seq(Message) /\ Len(log) \in Nat
  BY DEF Logs
<1>2. /\ Append(log, m) \in Seq(Message)
      /\ Len(Append(log, m)) = Len(log) + 1
      /\ \A i \in 1 .. Len(log) : Append(log, m)[i] = log[i]
      /\ Append(log, m)[Len(log) + 1] = m
  BY <1>1, AppendProperties
<1>3. ASSUME NEW b \in 0 .. Len(log)
      PROVE  SubSeq(Append(log, m), 1, b) = SubSeq(log, 1, b)
  BY <1>1, <1>2
<1>4. Append(log, m) \in Logs
  <2>1. \A i \in 2 .. Len(log) + 1 : Append(log, m)[i].kind # "system"
    BY <1>1, <1>2 DEF Logs
  <2>2. Append(log, m)[1] = Sys
    BY <1>1, <1>2, InLogs
  <2>3. Len(Append(log, m)) \in 1 .. MaxMessages
    BY <1>1, <1>2, Limits
  <2>4. \A i \in 2 .. Len(Append(log, m)) : Append(log, m)[i].kind # "system"
    BY <1>2, <2>1
  <2> QED
    BY <1>2, <2>2, <2>3, <2>4, InLogs
<1> QED
  BY <1>2, <1>3, <1>4

(* A log that is cut still begins as it did, up to the cut.                *)
LEMMA LogIsCut ==
  ASSUME NEW log \in Logs, NEW b \in 1 .. Len(log)
  PROVE  /\ SubSeq(log, 1, b) \in Logs /\ Len(SubSeq(log, 1, b)) = b
         /\ \A c \in 0 .. b : SubSeq(SubSeq(log, 1, b), 1, c) = SubSeq(log, 1, c)
<1>1. log \in Seq(Message) /\ Len(log) \in 1 .. MaxMessages
  BY DEF Logs
<1>2. /\ SubSeq(log, 1, b) \in Seq(Message)
      /\ Len(SubSeq(log, 1, b)) = b
      /\ \A i \in 1 .. b : SubSeq(log, 1, b)[i] = log[i]
  <2>1. \A i \in 1 .. b : log[i] \in Message
    BY <1>1, ElementOfSeq
  <2> QED
    BY <1>1, <2>1, SubSeqProperties
<1>3. ASSUME NEW c \in 0 .. b
      PROVE  SubSeq(SubSeq(log, 1, b), 1, c) = SubSeq(log, 1, c)
  BY <1>1, <1>2
<1>4. SubSeq(log, 1, b) \in Logs
  <2>1. \A i \in 2 .. b : SubSeq(log, 1, b)[i].kind # "system"
    BY <1>1, <1>2, InLogs
  <2>2. SubSeq(log, 1, b)[1] = Sys
    BY <1>1, <1>2, InLogs
  <2>3. Len(SubSeq(log, 1, b)) \in 1 .. MaxMessages
    BY <1>1, <1>2, Limits
  <2>4. \A i \in 2 .. Len(SubSeq(log, 1, b)) : SubSeq(log, 1, b)[i].kind # "system"
    BY <1>2, <2>1
  <2> QED
    BY <1>2, <2>2, <2>3, <2>4, InLogs
<1> QED
  BY <1>2, <1>3, <1>4

LEMMA LogIsWhole ==
  ASSUME NEW log \in Logs
  PROVE  SubSeq(log, 1, Len(log)) = log /\ Len(log) \in 1 .. MaxMessages
         /\ log # <<>> /\ log[1] = Sys /\ log \in Seq(Message)
  BY Limits DEF Logs

(* A log whose beginning a summary replaces.                               *)
LEMMA LogIsSummarized ==
  ASSUME NEW log \in Logs, NEW m \in Message,
         m.kind # "system", NEW from \in 3 .. Len(log) + 1
  PROVE  <<log[1], m>> \o SubSeq(log, from, Len(log)) \in Logs
<1>1. /\ log \in Seq(Message) /\ Len(log) \in 1 .. MaxMessages
      /\ log[1] = Sys
  BY DEF Logs
<1> DEFINE tail == SubSeq(log, from, Len(log))
           new == <<log[1], m>> \o tail
<1>2. /\ tail \in Seq(Message)
      /\ Len(tail) = Len(log) + 1 - from
      /\ \A i \in 1 .. Len(tail) : tail[i] = log[from + i - 1]
  <2>1. from \in Int /\ Len(log) \in Int
        /\ \A i \in from .. Len(log) : i \in 1 .. Len(log)
    BY <1>1, Limits
  <2>2. \A i \in from .. Len(log) : log[i] \in Message
    BY <1>1, <2>1, ElementOfSeq
  <2>3. /\ tail \in Seq(Message)
        /\ Len(tail) = IF from <= Len(log) THEN Len(log) - from + 1 ELSE 0
        /\ \A i \in 1 .. Len(log) - from + 1 : tail[i] = log[from + i - 1]
    BY <2>1, <2>2, SubSeqProperties
  <2>4. Len(tail) = Len(log) + 1 - from /\ Len(tail) = Len(log) - from + 1
    BY <1>1, <2>1, <2>3, Limits
  <2> QED
    BY <2>3, <2>4
<1>3. <<log[1], m>> \in Seq(Message) /\ Len(<<log[1], m>>) = 2
      /\ <<log[1], m>>[1] = Sys /\ <<log[1], m>>[2] = m
  <2>1. log[1] \in Message
    <3>1. 1 \in 1 .. Len(log)
      BY <1>1, Limits
    <3> QED
      BY <1>1, <3>1, ElementOfSeq
  <2> QED
    BY <1>1, <2>1
<1>4. /\ new \in Seq(Message) /\ Len(new) = 2 + Len(tail)
      /\ \A i \in 1 .. 2 + Len(tail) :
           new[i] = IF i <= 2 THEN <<log[1], m>>[i] ELSE tail[i - 2]
  BY <1>2, <1>3, ConcatProperties
<1>5. \A i \in 2 .. Len(new) : new[i].kind # "system"
  <2> SUFFICES ASSUME NEW i \in 2 .. Len(new) PROVE new[i].kind # "system"
    OBVIOUS
  <2>1. CASE i = 2
    BY <1>3, <1>4, <2>1
  <2>2. CASE i > 2
    <3>1. /\ i - 2 \in 1 .. Len(tail) /\ new[i] = tail[i - 2]
          /\ tail[i - 2] = log[from + (i - 2) - 1] /\ from + (i - 2) - 1 \in 2 .. Len(log)
      BY <1>1, <1>2, <1>4, <2>2, Limits
    <3> QED
      BY <3>1 DEF Logs
  <2> QED
    BY <2>1, <2>2, <1>4, <1>2
<1>6. new[1] = Sys
  BY <1>1, <1>2, <1>3, <1>4
<1>7. Len(new) \in 1 .. MaxMessages
  BY <1>1, <1>2, <1>4, Limits
<1> QED
  BY <1>4, <1>5, <1>6, <1>7, InLogs

LEMMA MessageType ==
  ASSUME CountTypes, NEW kind \in Kinds
  PROVE  Msg(kind) \in Message /\ Msg(kind).kind = kind
  BY DEF CountTypes, Msg, Events, Message

(* HasContent is to be longer than the system prompt.                      *)
LEMMA ContentIsLength ==
  ASSUME NEW log \in Logs
  PROVE  HasContent(log) <=> Len(log) > 1
<1>1. log \in Seq(Message) /\ Len(log) \in 1 .. MaxMessages
      /\ DOMAIN log = 1 .. Len(log) /\ log[1].kind = "system"
  BY DEF Logs, Sys
<1>2. CASE Len(log) > 1
  <2>1. 2 \in DOMAIN log /\ log[2].kind # "system"
    BY <1>1, <1>2, Limits DEF Logs
  <2> QED
    BY <1>2, <2>1 DEF HasContent
<1>3. CASE ~(Len(log) > 1)
  <2>1. DOMAIN log = {1}
    BY <1>1, <1>3, Limits
  <2> QED
    BY <1>1, <1>3, <2>1 DEF HasContent
<1> QED
  BY <1>2, <1>3

-----------------------------------------------------------------------------
(* The store.                                                              *)

LEMMA PutProperties ==
  ASSUME NEW map, NEW key, NEW value
  PROVE  /\ DOMAIN Put(map, key, value) = DOMAIN map \cup {key}
         /\ Put(map, key, value)[key] = value
         /\ \A k \in DOMAIN map \ {key} : Put(map, key, value)[k] = map[k]
  BY DEF Put

Snaps == UNION {[S -> 0 .. MaxWrites] : S \in SUBSET Files}

LEMMA CheckpointParts ==
  /\ \A cp \in Checkpoints :
       /\ cp.turn \in Numbers /\ cp.idx \in 1 .. MaxMessages /\ cp.files \in Snaps
       /\ cp # Nobody
  /\ \A n \in Numbers, idx \in 1 .. MaxMessages, snaps \in Snaps :
       [turn |-> n, idx |-> idx, files |-> snaps] \in Checkpoints
<1>1. Checkpoints = [turn : Numbers, idx : 1 .. MaxMessages, files : Snaps]
  BY DEF Checkpoints, Snaps
<1>2. -1 \notin Numbers
  BY Limits DEF Numbers
<1> QED
  BY <1>1, <1>2 DEF Nobody

LEMMA SnapsPut ==
  ASSUME NEW snaps \in Snaps, NEW f \in Files, NEW v \in 0 .. MaxWrites
  PROVE  Put(snaps, f, v) \in Snaps
<1>1. PICK S \in SUBSET Files : snaps \in [S -> 0 .. MaxWrites]
  BY DEF Snaps
<1>2. Put(snaps, f, v) \in [{f} \cup S -> 0 .. MaxWrites]
  BY <1>1 DEF Put
<1>3. {f} \cup S \in SUBSET Files
  OBVIOUS
<1> QED
  BY <1>2, <1>3 DEF Snaps

LEMMA StartedIsCheckpoint ==
  ASSUME NEW n \in Numbers, NEW idx \in 1 .. MaxMessages
  PROVE  /\ Started(n, idx) \in Checkpoints
         /\ Started(n, idx).turn = n /\ Started(n, idx).idx = idx
         /\ DOMAIN Started(n, idx).files = {}
<1>1. Empty \in [{} -> 0 .. MaxWrites] /\ DOMAIN Empty = {}
  BY DEF Empty
<1>2. Empty \in Snaps
  BY <1>1 DEF Snaps
<1> QED
  BY <1>1, <1>2, CheckpointParts DEF Started

(* Snapshot: the first touch of a file is kept.                            *)
TouchOf(cp, f) == [cp EXCEPT !.files = FirstTouch(cp.files, f)]

LEMMA Touch ==
  ASSUME NEW cp \in Checkpoints, NEW f \in Files, files \in Texts
  PROVE  /\ TouchOf(cp, f) \in Checkpoints /\ TouchOf(cp, f).turn = cp.turn /\ TouchOf(cp, f).idx = cp.idx
         /\ f \in DOMAIN cp.files => TouchOf(cp, f) = cp
         /\ DOMAIN TouchOf(cp, f).files = DOMAIN cp.files \cup {f}
         /\ \A g \in DOMAIN cp.files : TouchOf(cp, f).files[g] = cp.files[g]
         /\ f \notin DOMAIN cp.files => TouchOf(cp, f).files[f] = files[f]
<1> DEFINE new == TouchOf(cp, f)
<1>1. /\ cp = [turn |-> cp.turn, idx |-> cp.idx, files |-> cp.files]
      /\ cp.turn \in Numbers /\ cp.idx \in 1 .. MaxMessages /\ cp.files \in Snaps
  BY CheckpointParts DEF Checkpoints
<1>2. new = [turn |-> cp.turn, idx |-> cp.idx, files |-> FirstTouch(cp.files, f)]
  BY <1>1 DEF TouchOf
<1>3. files[f] \in 0 .. MaxWrites
  BY DEF Texts
<1>4. CASE f \in DOMAIN cp.files
  <2>1. FirstTouch(cp.files, f) = cp.files
    BY <1>4 DEF FirstTouch
  <2> QED
    BY <1>1, <1>2, <1>4, <2>1
<1>5. CASE f \notin DOMAIN cp.files
  <2> DEFINE put == Put(cp.files, f, files[f])
  <2>1. FirstTouch(cp.files, f) = Put(cp.files, f, files[f])
    BY <1>5 DEF FirstTouch
  <2>2. FirstTouch(cp.files, f) \in Snaps
    BY <1>1, <1>3, <2>1, SnapsPut
  <2>3. new \in Checkpoints
    BY <1>1, <1>2, <2>2, CheckpointParts
  <2>4. new.files = put /\ new.turn = cp.turn /\ new.idx = cp.idx
    BY <1>2, <2>1
  <2>5. /\ DOMAIN put = DOMAIN cp.files \cup {f} /\ put[f] = files[f]
        /\ \A g \in DOMAIN cp.files \ {f} : put[g] = cp.files[g]
    BY DEF Put
  <2>6. \A g \in DOMAIN cp.files : put[g] = cp.files[g]
    BY <1>5, <2>5
  <2> HIDE DEF put
  <2> QED
    BY <1>5, <2>3, <2>4, <2>5, <2>6
<1> QED
  BY <1>4, <1>5 DEF new

LEMMA LeastNatural ==
  ASSUME NEW S, S \subseteq Nat, S # {}
  PROVE  \E n \in S : \A m \in S : n <= m
<1>1. PICK n \in S : \A m \in S : <<m, n>> \notin OpToRel(<, Nat)
  BY NatLessThanWellFounded, WFMin
<1>2. \A m \in S : ~(m < n)
  BY <1>1 DEF OpToRel
<1> QED
  BY <1>2

LEMMA GreatestNatural ==
  ASSUME NEW top \in Nat, NEW S, S \subseteq 0 .. top, S # {}
  PROVE  \E n \in S : \A m \in S : m <= n
<1> DEFINE Above == {n \in Nat : \A m \in S : m <= n}
<1>1. top \in Above
  OBVIOUS
<1>2. PICK n \in Above : \A m \in Above : n <= m
  BY <1>1, LeastNatural
<1>3. n \in S
  <2>1. SUFFICES ASSUME n \notin S PROVE FALSE
    OBVIOUS
  <2>2. PICK m \in S : TRUE
    OBVIOUS
  <2>3. n \in Nat /\ m < n
    BY <1>2, <2>1
  <2>4. n - 1 \in Above
    BY <1>2, <2>1, <2>3
  <2> QED
    BY <1>2, <2>3, <2>4
<1> QED
  BY <1>2, <1>3

(* A store loaded from a directory continues one past the highest turn.    *)
LEMMA NextTurnIsPast ==
  ASSUME StoreTypes
  PROVE  /\ NextTurn(disk) \in 0 .. MaxTurns
         /\ \A t \in DOMAIN disk : t < NextTurn(disk)
         /\ NextTurn(disk) = 0 \/ NextTurn(disk) - 1 \in DOMAIN disk
<1>1. DOMAIN disk \subseteq 0 .. MaxTurns - 1 /\ DOMAIN disk \subseteq 0 .. MaxTurns
  BY Limits DEF StoreTypes, Numbers
<1>2. CASE DOMAIN disk = {}
  BY <1>2, Limits DEF NextTurn
<1>3. CASE DOMAIN disk # {}
  <2>1. \E x \in DOMAIN disk : \A y \in DOMAIN disk : y <= x
    BY <1>1, <1>3, GreatestNatural, Limits
  <2>2. \E x \in DOMAIN disk : \A y \in DOMAIN disk : x >= y
    BY <1>1, <2>1, Limits
  <2>3. Max(DOMAIN disk) \in DOMAIN disk /\ \A y \in DOMAIN disk : Max(DOMAIN disk) >= y
    BY <2>2 DEF Max
  <2>4. NextTurn(disk) = Max(DOMAIN disk) + 1
    BY <1>3 DEF NextTurn
  <2> QED
    BY <1>1, <2>3, <2>4, Limits
<1> QED
  BY <1>2, <1>3

(* load sorts: every checkpoint on disk has a place.                       *)
LEMMA NthExists ==
  ASSUME NEW top \in Nat, NEW S, S \subseteq 0 .. top,
         NEW n \in 1 .. Cardinality(S)
  PROVE  Nth(S, n) \in S
<1> DEFINE Upto(t) == {u \in S : u <= t}
           Far == {t \in S : Cardinality(Upto(t)) >= n}
<1>1. IsFiniteSet(S) /\ Cardinality(S) \in Nat
  <2>1. IsFiniteSet(0 .. top)
    BY FS_Interval
  <2> QED
    BY <2>1, FS_Subset, FS_CardinalityType
<1>2. \A T \in SUBSET S : IsFiniteSet(T) /\ Cardinality(T) \in Nat
  BY <1>1, FS_Subset, FS_CardinalityType
<1>3. S # {}
  BY <1>1, FS_EmptySet
<1>4. Far # {}
  <2>1. PICK last \in S : \A m \in S : m <= last
    BY <1>3, GreatestNatural
  <2>2. Upto(last) = S
    BY <2>1
  <2> QED
    BY <1>1, <2>2
<1>5. PICK t \in Far : \A m \in Far : t <= m
  <2>1. S \subseteq Nat /\ Far \subseteq S
    <3>1. S \subseteq Nat
      OBVIOUS
    <3>2. Far \subseteq S
      OBVIOUS
    <3> QED
      BY <3>1, <3>2
  <2> QED
    BY <1>4, <2>1, LeastNatural
<1>6. Cardinality(Upto(t)) = n
  <2> DEFINE Below == {u \in S : u < t}
  <2> t \in S /\ t \in Nat /\ \A u \in S : u \in Nat
    BY <1>5
  <2>1. Upto(t) = Below \cup {t} /\ t \notin Below /\ Below \in SUBSET S
        /\ Upto(t) \in SUBSET S
    <3>1. \A u \in S : u <= t <=> u < t \/ u = t
      OBVIOUS
    <3>2. Upto(t) = Below \cup {t}
      BY <3>1
    <3>3. t \notin Below
      OBVIOUS
    <3>4. Below \subseteq S /\ Upto(t) \subseteq S
      OBVIOUS
    <3> QED
      BY <3>2, <3>3, <3>4
  <2>2. Cardinality(Upto(t)) = Cardinality(Below) + 1
    BY <1>2, <2>1, FS_AddElement
  <2>3. CASE Below = {}
    BY <1>1, <1>5, <2>2, <2>3, FS_EmptySet
  <2>4. CASE Below # {}
    <3>1. PICK s \in Below : \A m \in Below : m <= s
      <4>1. Below \subseteq 0 .. top
        OBVIOUS
      <4> QED
        BY <2>4, <4>1, GreatestNatural
    <3>2. Upto(s) = Below
      <4>1. s \in S /\ s < t
        BY <3>1
      <4>2. \A u \in S : u <= s <=> u < t
        BY <3>1, <4>1
      <4> QED
        BY <4>2
    <3>3. s \notin Far
      BY <1>5, <3>1
    <3>4. Cardinality(Below) < n
      BY <1>1, <1>2, <2>1, <3>1, <3>2, <3>3
    <3> QED
      BY <1>1, <1>2, <1>5, <2>1, <2>2, <3>4
  <2> QED
    BY <2>3, <2>4
<1>7. \E x \in S : Cardinality({u \in S : u <= x}) = n
  BY <1>5, <1>6
<1> QED
  BY <1>7 DEF Nth

LEMMA SortedType ==
  ASSUME StoreTypes
  PROVE  /\ Sorted(disk) \in Seq(Checkpoints)
         /\ \A i \in DOMAIN Sorted(disk) : \E t \in DOMAIN disk : Sorted(disk)[i] = disk[t]
<1> DEFINE S == DOMAIN disk
           N == Cardinality(S)
<1>1. S \subseteq 0 .. MaxTurns /\ N \in Nat
  <2>1. S \subseteq 0 .. MaxTurns
    BY Limits DEF StoreTypes, Numbers
  <2>2. IsFiniteSet(0 .. MaxTurns)
    BY Limits, FS_Interval
  <2> QED
    BY <2>1, <2>2, FS_Subset, FS_CardinalityType
<1>2. \A n \in 1 .. N : Nth(S, n) \in S
  BY <1>1, NthExists, Limits
<1>3. \A t \in S : disk[t] \in Checkpoints
  BY DEF StoreTypes
<1>4. Sorted(disk) = [n \in 1 .. N |-> disk[Nth(S, n)]]
  BY DEF Sorted
<1>5. \A n \in 1 .. N : disk[Nth(S, n)] \in Checkpoints
  BY <1>2, <1>3
<1> HIDE DEF S, N
<1>6. Sorted(disk) \in [1 .. N -> Checkpoints]
  BY <1>4, <1>5
<1>7. Sorted(disk) \in Seq(Checkpoints)
  BY <1>1, <1>6
<1> QED
  BY <1>2, <1>4, <1>7 DEF S

-----------------------------------------------------------------------------
(* What the actions do to the log.                                         *)

LEMMA LogGrowsByTwo ==
  ASSUME NEW log \in Logs, NEW m \in Message, NEW n \in Message,
         m.kind # "system", n.kind # "system", Len(log) + 2 <= MaxMessages
  PROVE  /\ log \o <<m, n>> \in Logs /\ Len(log \o <<m, n>>) = Len(log) + 2
         /\ \A b \in 0 .. Len(log) :
              SubSeq(log \o <<m, n>>, 1, b) = SubSeq(log, 1, b)
<1>1. log \in Seq(Message) /\ Len(log) \in 1 .. MaxMessages
  BY LogIsWhole
<1> DEFINE one == Append(log, m)
           two == Append(one, n)
<1>2. /\ one \in Logs /\ Len(one) = Len(log) + 1
      /\ \A b \in 0 .. Len(log) : SubSeq(one, 1, b) = SubSeq(log, 1, b)
  <2>1. Len(log) < MaxMessages
    BY <1>1, Limits
  <2> QED
    BY <2>1, LogGrows
<1>3. /\ two \in Logs /\ Len(two) = Len(one) + 1
      /\ \A b \in 0 .. Len(one) : SubSeq(two, 1, b) = SubSeq(one, 1, b)
  <2>1. Len(one) < MaxMessages
    BY <1>1, <1>2, Limits
  <2> HIDE DEF one
  <2> QED
    BY <1>2, <2>1, LogGrows
<1>4. log \o <<m, n>> = two
  BY <1>1
<1> HIDE DEF one, two
<1>5. \A b \in 0 .. Len(log) : b \in 0 .. Len(one)
  BY <1>1, <1>2, Limits
<1>6. \A b \in 0 .. Len(log) : SubSeq(two, 1, b) = SubSeq(log, 1, b)
  BY <1>2, <1>3, <1>5
<1>7. Len(two) = Len(log) + 2
  BY <1>1, <1>2, <1>3, Limits
<1> QED
  BY <1>3, <1>4, <1>6, <1>7

LEMMA SavedLog ==
  ASSUME LogTypes, NEW log \in Logs
  PROVE  /\ Save(log) \in Logs \cup {<<>>}
         /\ Len(log) > 1 => Save(log) = log
         /\ ~(Len(log) > 1) => Save(log) = saved
  BY ContentIsLength DEF Save, LogTypes

LEMMA CompactedIsLog ==
  ASSUME LogTypes, CountTypes, NEW from \in Tails(msgs)
  PROVE  Compacted(msgs, from) \in Logs
<1>1. msgs \in Logs /\ Len(msgs) \in 1 .. MaxMessages
  BY LogIsWhole DEF LogTypes
<1>2. from \in 3 .. Len(msgs) + 1
  BY <1>1, Limits DEF Tails
<1>3. Msg("summary") \in Message /\ Msg("summary").kind # "system"
  BY MessageType DEF Kinds
<1> QED
  BY <1>1, <1>2, <1>3, LogIsSummarized DEF Compacted

(* The boundary of a command that has one.                                 *)
LEMMA BoundType ==
  ASSUME BoundTypes, CommandInv, cmd.has
  PROVE  /\ cmd.bound \in 1 .. MaxMessages /\ cmd.bound = cpBound[cmd.turn]
         /\ cmd.turn \in DOMAIN cpBound
  BY DEF BoundTypes, CommandInv

LEMMA SummarizedIsLog ==
  ASSUME LogTypes, CountTypes, BoundTypes, CommandInv, cmd.op \in {"from", "upto"}
  PROVE  Summarized \in Logs
<1>1. msgs \in Logs /\ Len(msgs) \in 1 .. MaxMessages
  BY LogIsWhole DEF LogTypes
<1>2. cmd.bound \in 1 .. MaxMessages
  BY BoundType DEF CommandInv
<1>3. Msg("summary") \in Message /\ Msg("summary").kind # "system"
  BY MessageType DEF Kinds
<1>4. CASE cmd.op = "from" /\ cmd.bound < Len(msgs)
  <2>1. Summarized = Append(SubSeq(msgs, 1, cmd.bound), Msg("summary"))
    BY <1>4 DEF Summarized
  <2>2. cmd.bound \in 1 .. Len(msgs) /\ cmd.bound < MaxMessages
    BY <1>1, <1>2, <1>4, Limits
  <2>3. SubSeq(msgs, 1, cmd.bound) \in Logs /\ Len(SubSeq(msgs, 1, cmd.bound)) = cmd.bound
    BY <1>1, <2>2, LogIsCut
  <2> QED
    BY <1>3, <2>1, <2>2, <2>3, LogGrows
<1>5. CASE cmd.op = "upto" /\ cmd.bound > 1 /\ cmd.bound <= Len(msgs)
  <2>1. Summarized = <<msgs[1], Msg("summary")>> \o SubSeq(msgs, cmd.bound + 1, Len(msgs))
    BY <1>5 DEF Summarized
  <2>2. cmd.bound + 1 \in 3 .. Len(msgs) + 1
    BY <1>1, <1>2, <1>5, Limits
  <2> QED
    BY <1>1, <1>3, <2>1, <2>2, LogIsSummarized
<1>6. CASE /\ ~(cmd.op = "from" /\ cmd.bound < Len(msgs))
           /\ ~(cmd.op = "upto" /\ cmd.bound > 1 /\ cmd.bound <= Len(msgs))
  BY <1>1, <1>6 DEF Summarized
<1> QED
  BY <1>4, <1>5, <1>6

-----------------------------------------------------------------------------
(* What the actions do to the store.                                       *)

LEMMA CurType ==
  ASSUME StoreTypes, cur # Nobody
  PROVE  cur \in Checkpoints /\ cur.turn \in Numbers /\ cur.idx \in 1 .. MaxMessages
  BY CheckpointParts DEF StoreTypes

LEMMA AllType ==
  ASSUME StoreTypes
  PROVE  /\ All \in Seq(Checkpoints)
         /\ \A i \in DOMAIN All : All[i] \in Checkpoints /\ All[i].turn \in Numbers
         /\ cur = Nobody => All = done
         /\ cur # Nobody => /\ Len(All) = Len(done) + 1 /\ All[Len(All)] = cur
                            /\ \A i \in DOMAIN done : All[i] = done[i]
                            /\ DOMAIN All = DOMAIN done \cup {Len(All)}
                            /\ Len(All) \notin DOMAIN done
<1>1. done \in Seq(Checkpoints) /\ DOMAIN done = 1 .. Len(done) /\ Len(done) \in Nat
  BY DEF StoreTypes
<1>2. CASE cur = Nobody
  <2>1. All = done
    BY <1>2 DEF All
  <2>2. \A i \in DOMAIN done : done[i] \in Checkpoints
    BY <1>1, ElementOfSeq
  <2> QED
    BY <1>1, <1>2, <2>1, <2>2, CheckpointParts
<1>3. CASE cur # Nobody
  <2>1. All = Append(done, cur) /\ cur \in Checkpoints
    BY <1>3, CurType DEF All
  <2>2. /\ All \in Seq(Checkpoints) /\ Len(All) = Len(done) + 1
        /\ \A i \in 1 .. Len(done) : All[i] = done[i]
        /\ All[Len(done) + 1] = cur
    BY <1>1, <2>1, AppendProperties
  <2>3. \A i \in 1 .. Len(All) : All[i] \in Checkpoints
    BY <2>2, ElementOfSeq
  <2>4. DOMAIN All = 1 .. Len(done) + 1
    BY <2>2
  <2> QED
    BY <1>1, <1>3, <2>2, <2>3, <2>4, CheckpointParts
<1> QED
  BY <1>2, <1>3

(* The plan of a code rewind, for any list of checkpoints: the first one in *)
(* order that holds the file.                                              *)
HoldersIn(cps, f, from) ==
  {i \in DOMAIN cps : cps[i].turn >= from /\ f \in DOMAIN cps[i].files}
BeforeIn(cps, i, j) ==
  cps[i].turn < cps[j].turn \/ (cps[i].turn = cps[j].turn /\ i <= j)
EarliestIn(cps, f, from) ==
  LET first == CHOOSE i \in HoldersIn(cps, f, from) :
                 \A j \in HoldersIn(cps, f, from) : BeforeIn(cps, i, j)
  IN  cps[first].files[f]

LEMMA PlanIn ==
  ASSUME NEW CONSTANT f, NEW CONSTANT from
  PROVE  /\ Holders(f, from) = HoldersIn(All, f, from)
         /\ Earliest(f, from) = EarliestIn(All, f, from)
         /\ Holders(f, from)' = HoldersIn(All', f, from)
         /\ Earliest(f, from)' = EarliestIn(All', f, from)
  BY DEF Holders, Earliest, Before, HoldersIn, EarliestIn, BeforeIn

LEMMA FirstHolder ==
  ASSUME NEW cps \in Seq(Checkpoints), NEW from, NEW f, HoldersIn(cps, f, from) # {}
  PROVE  \E i \in HoldersIn(cps, f, from) :
           \A j \in HoldersIn(cps, f, from) : BeforeIn(cps, i, j)
<1> DEFINE H == HoldersIn(cps, f, from)
<1>1. /\ H \subseteq DOMAIN cps /\ DOMAIN cps \subseteq Nat
      /\ \A i \in H : i \in Nat /\ cps[i].turn \in Nat
  <2>1. DOMAIN cps = 1 .. Len(cps) /\ Len(cps) \in Nat /\ \A i \in DOMAIN cps : cps[i] \in Checkpoints
    BY ElementOfSeq
  <2>2. \A i \in DOMAIN cps : cps[i].turn \in Nat
    BY <2>1, CheckpointParts, Limits DEF Numbers
  <2> QED
    BY <2>1, <2>2 DEF HoldersIn
<1> HIDE DEF H
<1>2. H # {}
  BY DEF H
<1> DEFINE T == {cps[i].turn : i \in H}
<1>3. T # {} /\ T \subseteq Nat
  BY <1>1, <1>2
<1>4. PICK n \in T : \A m \in T : n <= m
  BY <1>3, LeastNatural
<1> DEFINE I == {i \in H : cps[i].turn = n}
<1>5. I # {} /\ I \subseteq Nat
  BY <1>1, <1>4
<1>6. PICK i \in I : \A j \in I : i <= j
  BY <1>5, LeastNatural
<1>7. \A j \in H : BeforeIn(cps, i, j)
  <2> SUFFICES ASSUME NEW j \in H PROVE BeforeIn(cps, i, j)
    OBVIOUS
  <2>1. n <= cps[j].turn /\ cps[i].turn = n /\ n \in Nat /\ cps[j].turn \in Nat
    BY <1>1, <1>4, <1>6
  <2>2. CASE cps[j].turn = n
    BY <1>6, <2>1, <2>2 DEF BeforeIn
  <2>3. CASE cps[j].turn # n
    BY <2>1, <2>3 DEF BeforeIn
  <2> QED
    BY <2>2, <2>3
<1> QED
  BY <1>6, <1>7 DEF H

LEMMA EarliestIsFirst ==
  ASSUME NEW cps \in Seq(Checkpoints), NEW from, NEW f, NEW i \in HoldersIn(cps, f, from),
         \A j \in HoldersIn(cps, f, from) : BeforeIn(cps, i, j)
  PROVE  EarliestIn(cps, f, from) = cps[i].files[f]
<1> DEFINE First == CHOOSE k \in HoldersIn(cps, f, from) :
                      \A j \in HoldersIn(cps, f, from) : BeforeIn(cps, k, j)
<1>1. First \in HoldersIn(cps, f, from) /\ \A j \in HoldersIn(cps, f, from) : BeforeIn(cps, First, j)
  OBVIOUS
<1>2. First = i
  <2>1. BeforeIn(cps, First, i) /\ BeforeIn(cps, i, First)
    BY <1>1
  <2>2. First \in DOMAIN cps /\ i \in DOMAIN cps /\ DOMAIN cps = 1 .. Len(cps) /\ Len(cps) \in Nat
    BY <1>1 DEF HoldersIn
  <2>3. cps[First] \in Checkpoints /\ cps[i] \in Checkpoints
    BY <2>2, ElementOfSeq
  <2>4. First \in Nat /\ i \in Nat /\ cps[i].turn \in Nat /\ cps[First].turn \in Nat
    BY <2>2, <2>3, CheckpointParts, Limits DEF Numbers
  <2> QED
    BY <2>1, <2>4 DEF BeforeIn
<1>3. EarliestIn(cps, f, from) = cps[First].files[f]
  BY DEF EarliestIn
<1> QED
  BY <1>2, <1>3

LEMMA EarliestType ==
  ASSUME StoreTypes, NEW from, NEW f \in Touched(from)
  PROVE  Earliest(f, from) \in 0 .. MaxWrites
<1>1. Holders(f, from) # {}
  BY DEF Touched
<1>2. All \in Seq(Checkpoints)
  BY AllType
<1>3. HoldersIn(All, f, from) # {}
  BY <1>1 DEF Holders, HoldersIn
<1>4. PICK i \in HoldersIn(All, f, from) :
        \A j \in HoldersIn(All, f, from) : BeforeIn(All, i, j)
  BY <1>2, <1>3, FirstHolder
<1>5. EarliestIn(All, f, from) = All[i].files[f]
  BY <1>2, <1>4, EarliestIsFirst
<1>6. Earliest(f, from) = All[i].files[f]
  BY <1>5 DEF Earliest, Holders, Before, EarliestIn, HoldersIn, BeforeIn
<1>7. All[i].files \in Snaps /\ f \in DOMAIN All[i].files
  BY <1>4, AllType, CheckpointParts DEF HoldersIn
<1> QED
  BY <1>6, <1>7 DEF Snaps

(* Begin stores the finished turn and the new one, and nothing else.       *)
LEMMA BeginStores ==
  ASSUME StoreTypes, BoundTypes, NumberInv, CountTypes, TurnInv,
         Len(msgs) \in 1 .. MaxMessages, BeginCheckpoint
  PROVE  /\ StoreTypes'
         /\ cpTurn \in Numbers
         /\ cur' \in Checkpoints /\ cur'.turn = cpTurn /\ cur'.idx = Len(msgs)
         /\ DOMAIN cur'.files = {}
         /\ DOMAIN disk' = DOMAIN disk \cup {cpTurn} /\ disk'[cpTurn] = cur'
         /\ \A t \in DOMAIN disk \ {cpTurn} : disk'[t] = disk[t]
         /\ done' = All
<1>1. cpTurn \in Numbers
  BY Limits DEF BeginCheckpoint, NumberInv, CountTypes, Events, Numbers, BoundTypes
<1>2. cur' = Started(cpTurn, Len(msgs)) /\ done' = All /\ disk' = Opened(Closed(disk), cur')
  BY DEF BeginCheckpoint, Boundary
<1>3. /\ cur' \in Checkpoints /\ cur'.turn = cpTurn /\ cur'.idx = Len(msgs)
      /\ DOMAIN cur'.files = {}
  BY <1>1, <1>2, StartedIsCheckpoint
<1>4. DOMAIN Closed(disk) = DOMAIN disk /\ \A t \in DOMAIN disk : Closed(disk)[t] = disk[t]
  BY DEF Closed, Persist, Put, TurnInv
<1>5. /\ DOMAIN disk' = DOMAIN disk \cup {cpTurn} /\ disk'[cpTurn] = cur'
      /\ \A t \in DOMAIN disk \ {cpTurn} : disk'[t] = disk[t]
  BY <1>2, <1>3, <1>4 DEF Opened, Persist, Put
<1>6. disk' = [t \in DOMAIN disk' |-> disk'[t]]
  BY <1>2 DEF Opened, Persist, Put
<1>7. StoreTypes'
  <2>1. All \in Seq(Checkpoints)
    BY AllType
  <2>2. \A t \in DOMAIN disk' : disk'[t] \in Checkpoints /\ disk'[t].turn = t
    BY <1>3, <1>5 DEF StoreTypes
  <2>3. DOMAIN disk' \subseteq Numbers
    BY <1>1, <1>5 DEF StoreTypes
  <2>4. disk' \in [DOMAIN disk' -> Checkpoints]
    BY <1>6, <2>2
  <2> QED
    BY <1>2, <1>3, <2>1, <2>2, <2>3, <2>4 DEF StoreTypes
<1> QED
  BY <1>1, <1>2, <1>3, <1>5, <1>7

(* Snapshot adds the file to the checkpoint of the turn, here and on disk. *)
LEMMA PreEditStores ==
  ASSUME StoreTypes, TurnInv, files \in Texts, cur # Nobody,
         NEW f \in Files, PreEdit(f)
  PROVE  /\ StoreTypes'
         /\ cur' \in Checkpoints /\ cur'.turn = cur.turn /\ cur'.idx = cur.idx
         /\ f \in DOMAIN cur.files => cur' = cur
         /\ DOMAIN cur'.files = DOMAIN cur.files \cup {f}
         /\ \A g \in DOMAIN cur.files : cur'.files[g] = cur.files[g]
         /\ f \notin DOMAIN cur.files => cur'.files[f] = files[f]
         /\ DOMAIN disk' = DOMAIN disk /\ disk'[cur.turn] = cur'
         /\ \A t \in DOMAIN disk \ {cur.turn} : disk'[t] = disk[t]
         /\ done' = done
<1>1. cur \in Checkpoints /\ cur.turn \in DOMAIN disk /\ disk[cur.turn] = cur
  BY CurType DEF TurnInv
<1>2. /\ cur' = [cur EXCEPT !.files = FirstTouch(cur.files, f)]
      /\ disk' = Snapped(disk, f, cur') /\ done' = done
  BY DEF PreEdit
<1>3. /\ cur' \in Checkpoints /\ cur'.turn = cur.turn /\ cur'.idx = cur.idx
      /\ f \in DOMAIN cur.files => cur' = cur
      /\ DOMAIN cur'.files = DOMAIN cur.files \cup {f}
      /\ \A g \in DOMAIN cur.files : cur'.files[g] = cur.files[g]
      /\ f \notin DOMAIN cur.files => cur'.files[f] = files[f]
  <2>1. cur' = TouchOf(cur, f)
    BY <1>2 DEF TouchOf
  <2> QED
    BY <1>1, <2>1, Touch
<1>4. /\ DOMAIN disk' = DOMAIN disk /\ disk'[cur.turn] = cur'
      /\ \A t \in DOMAIN disk \ {cur.turn} : disk'[t] = disk[t]
      /\ disk' = [t \in DOMAIN disk' |-> disk'[t]]
  <2>1. disk = [t \in DOMAIN disk |-> disk[t]]
    BY DEF StoreTypes
  <2>2. CASE f \in DOMAIN cur.files
    BY <1>1, <1>2, <1>3, <2>1, <2>2 DEF Snapped
  <2>3. CASE f \notin DOMAIN cur.files
    BY <1>1, <1>2, <1>3, <2>3 DEF Snapped, Persist, Put
  <2> QED
    BY <2>2, <2>3
<1>5. StoreTypes'
  <2>1. \A t \in DOMAIN disk' : disk'[t] \in Checkpoints /\ disk'[t].turn = t
    BY <1>1, <1>3, <1>4 DEF StoreTypes
  <2>2. disk' \in [DOMAIN disk' -> Checkpoints] /\ DOMAIN disk' \subseteq Numbers
    BY <1>4, <2>1 DEF StoreTypes
  <2> QED
    BY <1>2, <1>3, <2>1, <2>2 DEF StoreTypes
<1> QED
  BY <1>2, <1>3, <1>4, <1>5

LEMMA OpsTyped == Scopes \subseteq Ops /\ {"from", "upto"} \subseteq Ops
  BY FilesAssumption DEF Ops

LEMMA ScopesApart == Scopes \cap {"from", "upto"} = {}
  BY FilesAssumption

(* Looking at a turn notes a boundary of the right type.                   *)
LEMMA LookTyped ==
  ASSUME BoundTypes, NEW op \in Ops, NEW t \in Numbers, Look(op, t)
  PROVE  cmd' \in Cmds
<1>1. /\ t \in -1 .. MaxTurns - 1
      /\ (IF t \in DOMAIN cpBound THEN cpBound[t] ELSE 0) \in 0 .. MaxMessages
  BY Limits DEF BoundTypes, Numbers
<1> QED
  BY <1>1 DEF Look, Cmds

-----------------------------------------------------------------------------
(* Types.                                                                  *)

LEMMA CountTyped == IInv /\ [Next]_vars => CountTypes'
<1> SUFFICES ASSUME IInv, [Next]_vars PROVE CountTypes'
  OBVIOUS
<1> USE Limits DEF CountTypes, Spend, Events
<1> CountTypes /\ (edit # NoFile => count.writes < MaxWrites)
  BY DEF IInv, Types, TurnInv
<1>1. ASSUME Send PROVE CountTypes'
  BY <1>1 DEF Send
<1>2. ASSUME BeginCheckpoint PROVE CountTypes'
  BY <1>2 DEF BeginCheckpoint
<1>3. ASSUME Prompt PROVE CountTypes'
  BY <1>3 DEF Prompt
<1>4. ASSUME NEW f \in Files, PreEdit(f) PROVE CountTypes'
  BY <1>4 DEF PreEdit
<1>5. ASSUME Write PROVE CountTypes'
  BY <1>5 DEF Write
<1>6. ASSUME WriteFails PROVE CountTypes'
  BY <1>6 DEF WriteFails
<1>7. ASSUME Round PROVE CountTypes'
  BY <1>7 DEF Round
<1>8. ASSUME Answer PROVE CountTypes'
  BY <1>8 DEF Answer
<1>9. ASSUME EndTurn PROVE CountTypes'
  BY <1>9 DEF EndTurn
<1>10. ASSUME NEW from \in 1 .. MaxMessages, Compact(from) PROVE CountTypes'
  BY <1>10 DEF Compact
<1>11. ASSUME NEW t \in Numbers, NEW scope \in Scopes, RewindLook(t, scope)
      PROVE  CountTypes'
  BY <1>11 DEF RewindLook, Look
<1>12. ASSUME NEW t \in Numbers, NEW side \in {"from", "upto"}, SummarizeLook(t, side)
      PROVE  CountTypes'
  BY <1>12 DEF SummarizeLook, Look
<1>13. ASSUME NEW bad \in SUBSET Files, RewindCode(bad) PROVE CountTypes'
  <2>1. Cardinality(bad) \in Nat
    BY FilesAssumption, FS_Subset, FS_CardinalityType
  <2> QED
    BY <1>13, <2>1 DEF RewindCode
<1>14. ASSUME RewindConversation PROVE CountTypes'
  BY <1>14 DEF RewindConversation
<1>15. ASSUME RewindNothing PROVE CountTypes'
  BY <1>15 DEF RewindNothing
<1>16. ASSUME RewindUnavailable PROVE CountTypes'
  BY <1>16 DEF RewindUnavailable
<1>17. ASSUME RewindFail PROVE CountTypes'
  BY <1>17 DEF RewindFail
<1>18. ASSUME Summarize PROVE CountTypes'
  BY <1>18 DEF Summarize
<1>19. ASSUME SummarizeFails PROVE CountTypes'
  BY <1>19 DEF SummarizeFails
<1>20. ASSUME NEW clean \in BOOLEAN, Resume(clean) PROVE CountTypes'
  BY <1>20 DEF Resume
<1>21. CASE UNCHANGED vars
  BY <1>21 DEF vars
<1> HIDE DEF CountTypes, Spend, Events
<1> QED
  BY <1>1, <1>2, <1>3, <1>4, <1>5, <1>6, <1>7, <1>8, <1>9, <1>10, <1>11,
     <1>12, <1>13, <1>14, <1>15, <1>16, <1>17, <1>18, <1>19, <1>20, <1>21
     DEF Next

LEMMA TurnTyped == IInv /\ [Next]_vars => TurnTypes'
<1> SUFFICES ASSUME IInv, [Next]_vars PROVE TurnTypes'
  OBVIOUS
<1> USE Limits DEF TurnTypes
<1> TurnTypes /\ Len(msgs) \in 1 .. MaxMessages
  BY LogIsWhole DEF IInv, Types, LogTypes
<1>1. ASSUME Send PROVE TurnTypes'
  BY <1>1 DEF Send
<1>2. ASSUME BeginCheckpoint PROVE TurnTypes'
  BY <1>2 DEF BeginCheckpoint
<1>3. ASSUME Prompt PROVE TurnTypes'
  BY <1>3 DEF Prompt
<1>4. ASSUME NEW f \in Files, PreEdit(f) PROVE TurnTypes'
  BY <1>4 DEF PreEdit
<1>5. ASSUME Write PROVE TurnTypes'
  BY <1>5 DEF Write
<1>6. ASSUME WriteFails PROVE TurnTypes'
  BY <1>6 DEF WriteFails
<1>7. ASSUME Round PROVE TurnTypes'
  BY <1>7 DEF Round
<1>8. ASSUME Answer PROVE TurnTypes'
  BY <1>8 DEF Answer
<1>9. ASSUME EndTurn PROVE TurnTypes'
  BY <1>9 DEF EndTurn, started
<1>10. ASSUME NEW from \in 1 .. MaxMessages, Compact(from) PROVE TurnTypes'
  BY <1>10 DEF Compact
<1>11. ASSUME NEW t \in Numbers, NEW scope \in Scopes, RewindLook(t, scope)
      PROVE  TurnTypes'
  BY <1>11 DEF RewindLook, Look
<1>12. ASSUME NEW t \in Numbers, NEW side \in {"from", "upto"}, SummarizeLook(t, side)
      PROVE  TurnTypes'
  BY <1>12 DEF SummarizeLook, Look
<1>13. ASSUME NEW bad \in SUBSET Files, RewindCode(bad) PROVE TurnTypes'
  BY <1>13 DEF RewindCode
<1>14. ASSUME RewindConversation PROVE TurnTypes'
  BY <1>14 DEF RewindConversation
<1>15. ASSUME RewindNothing PROVE TurnTypes'
  BY <1>15 DEF RewindNothing
<1>16. ASSUME RewindUnavailable PROVE TurnTypes'
  BY <1>16 DEF RewindUnavailable
<1>17. ASSUME RewindFail PROVE TurnTypes'
  BY <1>17 DEF RewindFail
<1>18. ASSUME Summarize PROVE TurnTypes'
  BY <1>18 DEF Summarize
<1>19. ASSUME SummarizeFails PROVE TurnTypes'
  BY <1>19 DEF SummarizeFails
<1>20. ASSUME NEW clean \in BOOLEAN, Resume(clean) PROVE TurnTypes'
  BY <1>20 DEF Resume
<1>21. CASE UNCHANGED vars
  BY <1>21 DEF vars
<1> HIDE DEF TurnTypes
<1> QED
  BY <1>1, <1>2, <1>3, <1>4, <1>5, <1>6, <1>7, <1>8, <1>9, <1>10, <1>11,
     <1>12, <1>13, <1>14, <1>15, <1>16, <1>17, <1>18, <1>19, <1>20, <1>21
     DEF Next

LEMMA LogTyped == IInv /\ [Next]_vars => LogTypes'
<1> SUFFICES ASSUME IInv, [Next]_vars PROVE LogTypes'
  OBVIOUS
<1> USE Limits DEF LogTypes
<1> /\ LogTypes /\ CountTypes /\ BoundTypes /\ CommandInv
    /\ msgs \in Logs /\ saved \in Logs \cup {<<>>}
  BY DEF IInv, Types
<1> Len(msgs) \in 1 .. MaxMessages
  BY LogIsWhole
<1> \A kind \in Kinds \ {"system"} :
      Msg(kind) \in Message /\ Msg(kind).kind # "system"
  BY MessageType
<1> {"user", "call", "result", "answer", "summary"} \subseteq Kinds \ {"system"}
  BY DEF Kinds
<1>1. ASSUME Send PROVE LogTypes'
  BY <1>1 DEF Send
<1>2. ASSUME BeginCheckpoint PROVE LogTypes'
  BY <1>2 DEF BeginCheckpoint
<1>3. ASSUME Prompt PROVE LogTypes'
  BY <1>3, LogGrows DEF Prompt
<1>4. ASSUME NEW f \in Files, PreEdit(f) PROVE LogTypes'
  BY <1>4 DEF PreEdit
<1>5. ASSUME Write PROVE LogTypes'
  BY <1>5 DEF Write
<1>6. ASSUME WriteFails PROVE LogTypes'
  BY <1>6 DEF WriteFails
<1>7. ASSUME Round PROVE LogTypes'
  BY <1>7, LogGrowsByTwo DEF Round
<1>8. ASSUME Answer PROVE LogTypes'
  BY <1>8, LogGrows DEF Answer
<1>9. ASSUME EndTurn PROVE LogTypes'
  BY <1>9, SavedLog DEF EndTurn
<1>10. ASSUME NEW from \in 1 .. MaxMessages, Compact(from) PROVE LogTypes'
  BY <1>10, CompactedIsLog DEF Compact
<1>11. ASSUME NEW t \in Numbers, NEW scope \in Scopes, RewindLook(t, scope)
      PROVE  LogTypes'
  BY <1>11 DEF RewindLook, Look
<1>12. ASSUME NEW t \in Numbers, NEW side \in {"from", "upto"}, SummarizeLook(t, side)
      PROVE  LogTypes'
  BY <1>12 DEF SummarizeLook, Look
<1>13. ASSUME NEW bad \in SUBSET Files, RewindCode(bad) PROVE LogTypes'
  BY <1>13 DEF RewindCode
<1>14. ASSUME RewindConversation PROVE LogTypes'
  <2>1. cmd.bound \in 1 .. Len(msgs)
    BY <1>14, BoundType DEF RewindConversation
  <2> QED
    BY <1>14, <2>1, LogIsCut, SavedLog DEF RewindConversation
<1>15. ASSUME RewindNothing PROVE LogTypes'
  BY <1>15 DEF RewindNothing
<1>16. ASSUME RewindUnavailable PROVE LogTypes'
  BY <1>16 DEF RewindUnavailable
<1>17. ASSUME RewindFail PROVE LogTypes'
  BY <1>17 DEF RewindFail
<1>18. ASSUME Summarize PROVE LogTypes'
  BY <1>18, SummarizedIsLog, SavedLog DEF Summarize
<1>19. ASSUME SummarizeFails PROVE LogTypes'
  BY <1>19 DEF SummarizeFails
<1>20. ASSUME NEW clean \in BOOLEAN, Resume(clean) PROVE LogTypes'
  BY <1>20, SavedLog DEF Resume
<1>21. CASE UNCHANGED vars
  BY <1>21 DEF vars
<1> HIDE DEF LogTypes
<1> QED
  BY <1>1, <1>2, <1>3, <1>4, <1>5, <1>6, <1>7, <1>8, <1>9, <1>10, <1>11,
     <1>12, <1>13, <1>14, <1>15, <1>16, <1>17, <1>18, <1>19, <1>20, <1>21
     DEF Next

LEMMA WorkTyped == IInv /\ [Next]_vars => WorkTypes'
<1> SUFFICES ASSUME IInv, [Next]_vars PROVE WorkTypes'
  OBVIOUS
<1> USE Limits DEF WorkTypes, Texts
<1> /\ WorkTypes /\ TurnTypes /\ CountTypes /\ StoreTypes
    /\ (edit # NoFile => edit \in Files /\ count.writes < MaxWrites)
  BY DEF IInv, Types, TurnInv, TurnTypes
<1>1. ASSUME Send PROVE WorkTypes'
  BY <1>1 DEF Send
<1>2. ASSUME BeginCheckpoint PROVE WorkTypes'
  BY <1>2 DEF BeginCheckpoint
<1>3. ASSUME Prompt PROVE WorkTypes'
  BY <1>3 DEF Prompt
<1>4. ASSUME NEW f \in Files, PreEdit(f) PROVE WorkTypes'
  BY <1>4 DEF PreEdit
<1>5. ASSUME Write PROVE WorkTypes'
  <2>1. edit \in Files /\ count.writes + 1 \in 0 .. MaxWrites
    BY <1>5 DEF Write, CountTypes, Events
  <2> QED
    BY <1>5, <2>1 DEF Write
<1>6. ASSUME WriteFails PROVE WorkTypes'
  BY <1>6 DEF WriteFails
<1>7. ASSUME Round PROVE WorkTypes'
  BY <1>7 DEF Round
<1>8. ASSUME Answer PROVE WorkTypes'
  BY <1>8 DEF Answer
<1>9. ASSUME EndTurn PROVE WorkTypes'
  BY <1>9 DEF EndTurn
<1>10. ASSUME NEW from \in 1 .. MaxMessages, Compact(from) PROVE WorkTypes'
  BY <1>10 DEF Compact
<1>11. ASSUME NEW t \in Numbers, NEW scope \in Scopes, RewindLook(t, scope)
      PROVE  WorkTypes'
  BY <1>11 DEF RewindLook, Look
<1>12. ASSUME NEW t \in Numbers, NEW side \in {"from", "upto"}, SummarizeLook(t, side)
      PROVE  WorkTypes'
  BY <1>12 DEF SummarizeLook, Look
<1>13. ASSUME NEW bad \in SUBSET Files, RewindCode(bad) PROVE WorkTypes'
  <2>1. \A f \in Touched(cmd.turn) : Earliest(f, cmd.turn) \in 0 .. MaxWrites
    BY EarliestType
  <2> QED
    BY <1>13, <2>1 DEF RewindCode, Touched
<1>14. ASSUME RewindConversation PROVE WorkTypes'
  BY <1>14 DEF RewindConversation
<1>15. ASSUME RewindNothing PROVE WorkTypes'
  BY <1>15 DEF RewindNothing
<1>16. ASSUME RewindUnavailable PROVE WorkTypes'
  BY <1>16 DEF RewindUnavailable
<1>17. ASSUME RewindFail PROVE WorkTypes'
  BY <1>17 DEF RewindFail
<1>18. ASSUME Summarize PROVE WorkTypes'
  BY <1>18 DEF Summarize
<1>19. ASSUME SummarizeFails PROVE WorkTypes'
  BY <1>19 DEF SummarizeFails
<1>20. ASSUME NEW clean \in BOOLEAN, Resume(clean) PROVE WorkTypes'
  BY <1>20 DEF Resume
<1>21. CASE UNCHANGED vars
  BY <1>21 DEF vars
<1> HIDE DEF WorkTypes, Texts
<1> QED
  BY <1>1, <1>2, <1>3, <1>4, <1>5, <1>6, <1>7, <1>8, <1>9, <1>10, <1>11,
     <1>12, <1>13, <1>14, <1>15, <1>16, <1>17, <1>18, <1>19, <1>20, <1>21
     DEF Next

LEMMA StoreTyped == IInv /\ [Next]_vars => StoreTypes'
<1> SUFFICES ASSUME IInv, [Next]_vars PROVE StoreTypes'
  OBVIOUS
<1> USE Limits DEF StoreTypes
<1> /\ StoreTypes /\ BoundTypes /\ CountTypes /\ TurnInv /\ NumberInv
    /\ WorkTypes /\ files \in Texts /\ Len(msgs) \in 1 .. MaxMessages
  BY LogIsWhole DEF IInv, Types, LogTypes, WorkTypes
<1> cur # Nobody => cur \in Checkpoints /\ cur.turn \in Numbers
  BY CheckpointParts
<1>1. ASSUME Send PROVE StoreTypes'
  BY <1>1 DEF Send
<1>2. ASSUME BeginCheckpoint PROVE StoreTypes'
  BY <1>2, BeginStores DEF BeginCheckpoint
<1>3. ASSUME Prompt PROVE StoreTypes'
  BY <1>3 DEF Prompt
<1>4. ASSUME NEW f \in Files, PreEdit(f) PROVE StoreTypes'
  <2>1. cur \in Checkpoints /\ cur # Nobody
    BY <1>4 DEF PreEdit, TurnInv, started
  <2> QED
    BY <1>4, <2>1, PreEditStores
<1>5. ASSUME Write PROVE StoreTypes'
  BY <1>5 DEF Write
<1>6. ASSUME WriteFails PROVE StoreTypes'
  BY <1>6 DEF WriteFails
<1>7. ASSUME Round PROVE StoreTypes'
  BY <1>7 DEF Round
<1>8. ASSUME Answer PROVE StoreTypes'
  BY <1>8 DEF Answer
<1>9. ASSUME EndTurn PROVE StoreTypes'
  BY <1>9 DEF EndTurn
<1>10. ASSUME NEW from \in 1 .. MaxMessages, Compact(from) PROVE StoreTypes'
  BY <1>10 DEF Compact
<1>11. ASSUME NEW t \in Numbers, NEW scope \in Scopes, RewindLook(t, scope)
      PROVE  StoreTypes'
  BY <1>11 DEF RewindLook, Look
<1>12. ASSUME NEW t \in Numbers, NEW side \in {"from", "upto"}, SummarizeLook(t, side)
      PROVE  StoreTypes'
  BY <1>12 DEF SummarizeLook, Look
<1>13. ASSUME NEW bad \in SUBSET Files, RewindCode(bad) PROVE StoreTypes'
  BY <1>13 DEF RewindCode
<1>14. ASSUME RewindConversation PROVE StoreTypes'
  BY <1>14 DEF RewindConversation
<1>15. ASSUME RewindNothing PROVE StoreTypes'
  BY <1>15 DEF RewindNothing
<1>16. ASSUME RewindUnavailable PROVE StoreTypes'
  BY <1>16 DEF RewindUnavailable
<1>17. ASSUME RewindFail PROVE StoreTypes'
  BY <1>17 DEF RewindFail
<1>18. ASSUME Summarize PROVE StoreTypes'
  BY <1>18 DEF Summarize
<1>19. ASSUME SummarizeFails PROVE StoreTypes'
  BY <1>19 DEF SummarizeFails
<1>20. ASSUME NEW clean \in BOOLEAN, Resume(clean) PROVE StoreTypes'
  BY <1>20, SortedType DEF Resume
<1>21. CASE UNCHANGED vars
  BY <1>21 DEF vars
<1> HIDE DEF StoreTypes
<1> QED
  BY <1>1, <1>2, <1>3, <1>4, <1>5, <1>6, <1>7, <1>8, <1>9, <1>10, <1>11,
     <1>12, <1>13, <1>14, <1>15, <1>16, <1>17, <1>18, <1>19, <1>20, <1>21
     DEF Next

LEMMA BoundTyped == IInv /\ [Next]_vars => BoundTypes'
<1> SUFFICES ASSUME IInv, [Next]_vars PROVE BoundTypes'
  OBVIOUS
<1> USE Limits DEF BoundTypes
<1> BoundTypes /\ NumberInv /\ CountTypes /\ StoreTypes /\ Len(msgs) \in 1 .. MaxMessages
  BY LogIsWhole DEF IInv, Types, LogTypes
<1>1. ASSUME Send PROVE BoundTypes'
  BY <1>1 DEF Send
<1>2. ASSUME BeginCheckpoint PROVE BoundTypes'
  <2>1. cpTurn \in Numbers
    BY <1>2 DEF BeginCheckpoint, NumberInv, CountTypes, Events, Numbers
  <2> QED
    BY <1>2, <2>1 DEF BeginCheckpoint, Put, Boundary, Numbers
<1>3. ASSUME Prompt PROVE BoundTypes'
  BY <1>3 DEF Prompt
<1>4. ASSUME NEW f \in Files, PreEdit(f) PROVE BoundTypes'
  BY <1>4 DEF PreEdit
<1>5. ASSUME Write PROVE BoundTypes'
  BY <1>5 DEF Write
<1>6. ASSUME WriteFails PROVE BoundTypes'
  BY <1>6 DEF WriteFails
<1>7. ASSUME Round PROVE BoundTypes'
  BY <1>7 DEF Round
<1>8. ASSUME Answer PROVE BoundTypes'
  BY <1>8 DEF Answer
<1>9. ASSUME EndTurn PROVE BoundTypes'
  BY <1>9 DEF EndTurn
<1>10. ASSUME NEW from \in 1 .. MaxMessages, Compact(from) PROVE BoundTypes'
  BY <1>10 DEF Compact
<1>11. ASSUME NEW t \in Numbers, NEW scope \in Scopes, RewindLook(t, scope)
      PROVE  BoundTypes'
  BY <1>11 DEF RewindLook, Look
<1>12. ASSUME NEW t \in Numbers, NEW side \in {"from", "upto"}, SummarizeLook(t, side)
      PROVE  BoundTypes'
  BY <1>12 DEF SummarizeLook, Look
<1>13. ASSUME NEW bad \in SUBSET Files, RewindCode(bad) PROVE BoundTypes'
  BY <1>13 DEF RewindCode
<1>14. ASSUME RewindConversation PROVE BoundTypes'
  <2>1. cmd.turn \in Numbers
    BY <1>14 DEF RewindConversation, NumberInv, StoreTypes
  <2> QED
    BY <1>14, <2>1 DEF RewindConversation, KeptBounds, Restrict, Numbers
<1>15. ASSUME RewindNothing PROVE BoundTypes'
  BY <1>15 DEF RewindNothing
<1>16. ASSUME RewindUnavailable PROVE BoundTypes'
  BY <1>16 DEF RewindUnavailable
<1>17. ASSUME RewindFail PROVE BoundTypes'
  BY <1>17 DEF RewindFail
<1>18. ASSUME Summarize PROVE BoundTypes'
  BY <1>18 DEF Summarize, Empty
<1>19. ASSUME SummarizeFails PROVE BoundTypes'
  BY <1>19 DEF SummarizeFails
<1>20. ASSUME NEW clean \in BOOLEAN, Resume(clean) PROVE BoundTypes'
  <2>1. \A t \in DOMAIN disk : disk[t].idx \in 1 .. MaxMessages
    BY CheckpointParts DEF StoreTypes
  <2>2. NextTurn(disk) \in 0 .. MaxTurns
    BY NextTurnIsPast
  <2>3. DOMAIN Bounds(disk) = DOMAIN disk /\ Bounds(disk) \in [DOMAIN disk -> 1 .. MaxMessages]
    BY <2>1 DEF Bounds
  <2> QED
    BY <1>20, <2>2, <2>3 DEF Resume, StoreTypes
<1>21. CASE UNCHANGED vars
  BY <1>21 DEF vars
<1> HIDE DEF BoundTypes
<1> QED
  BY <1>1, <1>2, <1>3, <1>4, <1>5, <1>6, <1>7, <1>8, <1>9, <1>10, <1>11,
     <1>12, <1>13, <1>14, <1>15, <1>16, <1>17, <1>18, <1>19, <1>20, <1>21
     DEF Next

LEMMA CommandTyped == IInv /\ [Next]_vars => (cmd \in Cmds)'
<1> SUFFICES ASSUME IInv, [Next]_vars PROVE (cmd \in Cmds)'
  OBVIOUS
<1> USE Limits, OpsTyped DEF Cmds, Ops
<1> cmd \in Cmds /\ BoundTypes
  BY DEF IInv, Types
<1> NoCmd \in Cmds
  <2>1. -1 \in -1 .. MaxTurns - 1 /\ 0 \in 0 .. MaxMessages
    OBVIOUS
  <2> QED
    BY <2>1 DEF NoCmd
<1>1. ASSUME Send PROVE (cmd \in Cmds)'
  BY <1>1 DEF Send
<1>2. ASSUME BeginCheckpoint PROVE (cmd \in Cmds)'
  BY <1>2 DEF BeginCheckpoint
<1>3. ASSUME Prompt PROVE (cmd \in Cmds)'
  BY <1>3 DEF Prompt
<1>4. ASSUME NEW f \in Files, PreEdit(f) PROVE (cmd \in Cmds)'
  BY <1>4 DEF PreEdit
<1>5. ASSUME Write PROVE (cmd \in Cmds)'
  BY <1>5 DEF Write
<1>6. ASSUME WriteFails PROVE (cmd \in Cmds)'
  BY <1>6 DEF WriteFails
<1>7. ASSUME Round PROVE (cmd \in Cmds)'
  BY <1>7 DEF Round
<1>8. ASSUME Answer PROVE (cmd \in Cmds)'
  BY <1>8 DEF Answer
<1>9. ASSUME EndTurn PROVE (cmd \in Cmds)'
  BY <1>9 DEF EndTurn
<1>10. ASSUME NEW from \in 1 .. MaxMessages, Compact(from)
      PROVE  (cmd \in Cmds)'
  BY <1>10 DEF Compact
<1>11. ASSUME NEW t \in Numbers, NEW scope \in Scopes, RewindLook(t, scope)
      PROVE  (cmd \in Cmds)'
  BY <1>11, LookTyped DEF RewindLook, Look
<1>12. ASSUME NEW t \in Numbers, NEW side \in {"from", "upto"}, SummarizeLook(t, side)
      PROVE  (cmd \in Cmds)'
  BY <1>12, LookTyped DEF SummarizeLook, Look
<1>13. ASSUME NEW bad \in SUBSET Files, RewindCode(bad) PROVE (cmd \in Cmds)'
  BY <1>13 DEF RewindCode
<1>14. ASSUME RewindConversation PROVE (cmd \in Cmds)'
  BY <1>14 DEF RewindConversation
<1>15. ASSUME RewindNothing PROVE (cmd \in Cmds)'
  BY <1>15 DEF RewindNothing
<1>16. ASSUME RewindUnavailable PROVE (cmd \in Cmds)'
  BY <1>16 DEF RewindUnavailable
<1>17. ASSUME RewindFail PROVE (cmd \in Cmds)'
  BY <1>17 DEF RewindFail
<1>18. ASSUME Summarize PROVE (cmd \in Cmds)'
  BY <1>18 DEF Summarize
<1>19. ASSUME SummarizeFails PROVE (cmd \in Cmds)'
  BY <1>19 DEF SummarizeFails
<1>20. ASSUME NEW clean \in BOOLEAN, Resume(clean) PROVE (cmd \in Cmds)'
  BY <1>20 DEF Resume
<1>21. CASE UNCHANGED vars
  BY <1>21 DEF vars
<1> HIDE DEF Cmds, Ops
<1> QED
  BY <1>1, <1>2, <1>3, <1>4, <1>5, <1>6, <1>7, <1>8, <1>9, <1>10, <1>11,
     <1>12, <1>13, <1>14, <1>15, <1>16, <1>17, <1>18, <1>19, <1>20, <1>21
     DEF Next

LEMMA HistTyped == IInv /\ [Next]_vars => HistTypes'
<1> SUFFICES ASSUME IInv, [Next]_vars PROVE HistTypes'
  OBVIOUS
<1> USE Limits DEF HistTypes
<1> /\ HistTypes /\ NumberInv /\ CountTypes /\ StoreTypes /\ BoundTypes
    /\ cmd \in Cmds /\ WorkTypes /\ msgs \in Logs
  BY DEF IInv, Types, LogTypes
<1>1. ASSUME Send PROVE HistTypes'
  BY <1>1 DEF Send
<1>2. ASSUME BeginCheckpoint PROVE HistTypes'
  <2>1. cpTurn \in Numbers
    <3>1. phase = "sent"
      BY <1>2 DEF BeginCheckpoint
    <3>2. cpTurn < count.turns
      BY <3>1 DEF NumberInv
    <3>3. cpTurn \in 0 .. MaxTurns /\ count.turns <= MaxTurns /\ count.turns \in Nat
      BY DEF BoundTypes, CountTypes, Events
    <3> QED
      BY <3>2, <3>3 DEF Numbers
  <2>2. [log |-> msgs, files |-> files, utf8 |-> utf8] \in Starts
    BY DEF Starts, WorkTypes
  <2> QED
    BY <1>2, <2>1, <2>2 DEF BeginCheckpoint, Put
<1>3. ASSUME Prompt PROVE HistTypes'
  BY <1>3 DEF Prompt
<1>4. ASSUME NEW f \in Files, PreEdit(f) PROVE HistTypes'
  BY <1>4 DEF PreEdit
<1>5. ASSUME Write PROVE HistTypes'
  BY <1>5 DEF Write
<1>6. ASSUME WriteFails PROVE HistTypes'
  BY <1>6 DEF WriteFails
<1>7. ASSUME Round PROVE HistTypes'
  BY <1>7 DEF Round
<1>8. ASSUME Answer PROVE HistTypes'
  BY <1>8 DEF Answer
<1>9. ASSUME EndTurn PROVE HistTypes'
  BY <1>9 DEF EndTurn
<1>10. ASSUME NEW from \in 1 .. MaxMessages, Compact(from) PROVE HistTypes'
  BY <1>10 DEF Compact
<1>11. ASSUME NEW t \in Numbers, NEW scope \in Scopes, RewindLook(t, scope)
      PROVE  HistTypes'
  BY <1>11 DEF RewindLook, Look
<1>12. ASSUME NEW t \in Numbers, NEW side \in {"from", "upto"}, SummarizeLook(t, side)
      PROVE  HistTypes'
  BY <1>12 DEF SummarizeLook, Look
<1>13. ASSUME NEW bad \in SUBSET Files, RewindCode(bad) PROVE HistTypes'
  BY <1>13 DEF RewindCode, Cmds
<1>14. ASSUME RewindConversation PROVE HistTypes'
  <2>1. started \in BOOLEAN
    BY DEF started
  <2>2. stale' \in SUBSET live' /\ live' \in SUBSET live /\ startOf' = startOf
    BY <1>14 DEF RewindConversation
  <2>3. torn' \in -1 .. MaxTurns
    BY <1>14 DEF RewindConversation, Cmds
  <2>4. dirty' = started
    BY <1>14 DEF RewindConversation
  <2> QED
    BY <2>1, <2>2, <2>3, <2>4
<1>15. ASSUME RewindNothing PROVE HistTypes'
  BY <1>15 DEF RewindNothing
<1>16. ASSUME RewindUnavailable PROVE HistTypes'
  BY <1>16 DEF RewindUnavailable
<1>17. ASSUME RewindFail PROVE HistTypes'
  BY <1>17 DEF RewindFail
<1>18. ASSUME Summarize PROVE HistTypes'
  <2>1. started \in BOOLEAN
    BY DEF started
  <2> QED
    BY <1>18, <2>1 DEF Summarize
<1>19. ASSUME SummarizeFails PROVE HistTypes'
  BY <1>19 DEF SummarizeFails
<1>20. ASSUME NEW clean \in BOOLEAN, Resume(clean) PROVE HistTypes'
  <2>1. stale' \in SUBSET live' /\ live' = live /\ startOf' = startOf
    BY <1>20 DEF Resume
  <2>2. torn' \in -1 .. MaxTurns
    BY <1>20 DEF Resume
  <2>3. dirty' = FALSE
    BY <1>20 DEF Resume
  <2> QED
    BY <2>1, <2>2, <2>3
<1>21. CASE UNCHANGED vars
  BY <1>21 DEF vars
<1> HIDE DEF HistTypes
<1> QED
  BY <1>1, <1>2, <1>3, <1>4, <1>5, <1>6, <1>7, <1>8, <1>9, <1>10, <1>11,
     <1>12, <1>13, <1>14, <1>15, <1>16, <1>17, <1>18, <1>19, <1>20, <1>21
     DEF Next

-----------------------------------------------------------------------------
(* Turns, numbers and commands.                                            *)

LEMMA TurnKept == IInv /\ [Next]_vars => TurnInv'
<1> SUFFICES ASSUME IInv, [Next]_vars PROVE TurnInv'
  OBVIOUS
<1> USE Limits DEF TurnInv, started
<1> /\ StoreTypes /\ BoundTypes /\ CountTypes /\ TurnInv /\ NumberInv /\ TurnTypes
    /\ files \in Texts /\ msgs \in Logs
  BY DEF IInv, Types, LogTypes, WorkTypes
<1> Len(msgs) \in 1 .. MaxMessages
  BY LogIsWhole
<1>1. ASSUME Send PROVE TurnInv'
  BY <1>1 DEF Send, running, Spend, CountTypes, Events
<1>2. ASSUME BeginCheckpoint PROVE TurnInv'
  <2>1. /\ cur' \in Checkpoints /\ cur'.turn = cpTurn /\ disk'[cpTurn] = cur'
        /\ DOMAIN disk' = DOMAIN disk \cup {cpTurn}
    BY <1>2, BeginStores
  <2>2. cur' # Nobody
    BY <2>1, CheckpointParts
  <2>3. edit' = NoFile
    BY <1>2 DEF BeginCheckpoint
  <2> QED
    BY <2>1, <2>2, <2>3
<1>3. ASSUME Prompt PROVE TurnInv'
  BY <1>3 DEF Prompt
<1>4. ASSUME NEW f \in Files, PreEdit(f) PROVE TurnInv'
  <2>1. cur # Nobody
    BY <1>4 DEF PreEdit
  <2>2. /\ cur' \in Checkpoints /\ cur'.turn = cur.turn /\ disk'[cur.turn] = cur'
        /\ DOMAIN disk' = DOMAIN disk /\ f \in DOMAIN cur'.files
    BY <1>4, <2>1, PreEditStores
  <2>3. cur' # Nobody
    BY <2>2, CheckpointParts
  <2>4. edit' = f /\ phase' = "working" /\ count' = count /\ count.writes < MaxWrites
    BY <1>4 DEF PreEdit
  <2> QED
    BY <2>1, <2>2, <2>3, <2>4
<1>5. ASSUME Write PROVE TurnInv'
  BY <1>5 DEF Write
<1>6. ASSUME WriteFails PROVE TurnInv'
  BY <1>6 DEF WriteFails
<1>7. ASSUME Round PROVE TurnInv'
  BY <1>7 DEF Round
<1>8. ASSUME Answer PROVE TurnInv'
  BY <1>8 DEF Answer
<1>9. ASSUME EndTurn PROVE TurnInv'
  BY <1>9 DEF EndTurn
<1>10. ASSUME NEW from \in 1 .. MaxMessages, Compact(from) PROVE TurnInv'
  <2>1. UNCHANGED <<phase, edit, cur, disk>> /\ count'.writes = count.writes
    BY <1>10 DEF Compact, Spend, CountTypes, Events
  <2> QED
    BY <2>1
<1>11. ASSUME NEW t \in Numbers, NEW scope \in Scopes, RewindLook(t, scope)
      PROVE  TurnInv'
  <2>1. UNCHANGED <<phase, edit, cur, disk>> /\ count'.writes = count.writes
    BY <1>11 DEF RewindLook, Look, Spend, CountTypes, Events
  <2> QED
    BY <2>1
<1>12. ASSUME NEW t \in Numbers, NEW side \in {"from", "upto"}, SummarizeLook(t, side)
      PROVE  TurnInv'
  <2>1. UNCHANGED <<phase, edit, cur, disk>> /\ count'.writes = count.writes
    BY <1>12 DEF SummarizeLook, Look, Spend, CountTypes, Events
  <2> QED
    BY <2>1
<1>13. ASSUME NEW bad \in SUBSET Files, RewindCode(bad) PROVE TurnInv'
  <2>1. UNCHANGED <<phase, edit, cur, disk>> /\ count'.writes = count.writes
    BY <1>13 DEF RewindCode, CountTypes, Events
  <2> QED
    BY <2>1
<1>14. ASSUME RewindConversation PROVE TurnInv'
  BY <1>14 DEF RewindConversation
<1>15. ASSUME RewindNothing PROVE TurnInv'
  BY <1>15 DEF RewindNothing
<1>16. ASSUME RewindUnavailable PROVE TurnInv'
  BY <1>16 DEF RewindUnavailable
<1>17. ASSUME RewindFail PROVE TurnInv'
  BY <1>17 DEF RewindFail
<1>18. ASSUME Summarize PROVE TurnInv'
  BY <1>18 DEF Summarize
<1>19. ASSUME SummarizeFails PROVE TurnInv'
  BY <1>19 DEF SummarizeFails
<1>20. ASSUME NEW clean \in BOOLEAN, Resume(clean) PROVE TurnInv'
  BY <1>20 DEF Resume
<1>21. CASE UNCHANGED vars
  BY <1>21 DEF vars
<1> HIDE DEF TurnInv, started
<1> QED
  BY <1>1, <1>2, <1>3, <1>4, <1>5, <1>6, <1>7, <1>8, <1>9, <1>10, <1>11,
     <1>12, <1>13, <1>14, <1>15, <1>16, <1>17, <1>18, <1>19, <1>20, <1>21
     DEF Next

LEMMA KnownIsOnDisk ==
  ASSUME StoreTypes, TurnInv, NumberInv
  PROVE  \A i \in DOMAIN All : All[i].turn \in DOMAIN disk
<1>1. CASE cur = Nobody
  BY <1>1, AllType DEF NumberInv
<1>2. CASE cur # Nobody
  BY <1>2, AllType DEF NumberInv, TurnInv
<1> QED
  BY <1>1, <1>2

LEMMA NumbersKept == IInv /\ [Next]_vars => NumberInv'
<1> SUFFICES ASSUME IInv, [Next]_vars PROVE NumberInv'
  OBVIOUS
<1> USE Limits DEF NumberInv
<1> /\ StoreTypes /\ BoundTypes /\ CountTypes /\ TurnInv /\ NumberInv /\ TurnTypes
    /\ files \in Texts /\ msgs \in Logs
  BY DEF IInv, Types, LogTypes, WorkTypes
<1> Len(msgs) \in 1 .. MaxMessages
  BY LogIsWhole
<1> cmd \in Cmds /\ live \subseteq Numbers /\ count.turns \in Nat
  BY DEF IInv, Types, HistTypes, CountTypes, Events
<1> /\ cpTurn \in Nat /\ \A t \in DOMAIN disk : t \in Nat
    /\ \A t \in DOMAIN cpBound : t \in Nat
  BY DEF BoundTypes, StoreTypes, Numbers
<1>1. ASSUME Send PROVE NumberInv'
  <2>1. /\ UNCHANGED <<done, live, disk, cpTurn, cpBound, cmd>>
        /\ count'.turns = count.turns + 1
    BY <1>1 DEF Send, Spend, CountTypes, Events
  <2> QED
    BY <2>1
<1>2. ASSUME BeginCheckpoint PROVE NumberInv'
  <2>1. /\ DOMAIN disk' = DOMAIN disk \cup {cpTurn} /\ done' = All
    BY <1>2, BeginStores
  <2>2. /\ cpTurn' = cpTurn + 1 /\ count' = count /\ phase = "sent" /\ phase' = "open"
        /\ live' = live \cup {cpTurn} /\ cmd' = cmd
        /\ DOMAIN cpBound' = DOMAIN cpBound \cup {cpTurn}
    BY <1>2 DEF BeginCheckpoint, Put
  <2>3. \A i \in DOMAIN All : All[i].turn \in DOMAIN disk
    BY KnownIsOnDisk
  <2> QED
    BY <2>1, <2>2, <2>3
<1>3. ASSUME Prompt PROVE NumberInv'
  BY <1>3 DEF Prompt
<1>4. ASSUME NEW f \in Files, PreEdit(f) PROVE NumberInv'
  <2>1. cur # Nobody
    BY <1>4 DEF PreEdit, started, TurnInv
  <2>2. DOMAIN disk' = DOMAIN disk /\ done' = done
    BY <1>4, <2>1, PreEditStores
  <2>3. UNCHANGED <<live, cmd, cpTurn, cpBound, count, phase>>
    BY <1>4 DEF PreEdit
  <2> QED
    BY <2>2, <2>3
<1>5. ASSUME Write PROVE NumberInv'
  <2>1. /\ UNCHANGED <<done, live, disk, cpTurn, cpBound>> /\ phase' = phase
        /\ count'.turns = count.turns /\ (cmd' = cmd \/ cmd'.op = "none" \/ (cmd'.turn = cmd.turn /\ cmd.op # "none"))
    BY <1>5 DEF Write, CountTypes, Events, NoCmd, Cmds, Spend
  <2> QED
    BY <2>1
<1>6. ASSUME WriteFails PROVE NumberInv'
  <2>1. /\ UNCHANGED <<done, live, disk, cpTurn, cpBound>> /\ phase' = phase
        /\ count'.turns = count.turns /\ (cmd' = cmd \/ cmd'.op = "none" \/ (cmd'.turn = cmd.turn /\ cmd.op # "none"))
    BY <1>6 DEF WriteFails, CountTypes, Events, NoCmd, Cmds, Spend
  <2> QED
    BY <2>1
<1>7. ASSUME Round PROVE NumberInv'
  BY <1>7 DEF Round
<1>8. ASSUME Answer PROVE NumberInv'
  BY <1>8 DEF Answer
<1>9. ASSUME EndTurn PROVE NumberInv'
  BY <1>9 DEF EndTurn
<1>10. ASSUME NEW from \in 1 .. MaxMessages, Compact(from) PROVE NumberInv'
  <2>1. /\ UNCHANGED <<done, live, disk, cpTurn, cpBound>> /\ phase' = phase
        /\ count'.turns = count.turns /\ (cmd' = cmd \/ cmd'.op = "none" \/ (cmd'.turn = cmd.turn /\ cmd.op # "none"))
    BY <1>10 DEF Compact, CountTypes, Events, NoCmd, Cmds, Spend
  <2> QED
    BY <2>1
<1>11. ASSUME NEW t \in Numbers, NEW scope \in Scopes, RewindLook(t, scope)
      PROVE  NumberInv'
  <2>1. /\ UNCHANGED <<done, live, disk, cpTurn, cpBound, phase>>
        /\ count'.turns = count.turns /\ cmd'.turn = t /\ t \in Listed
    BY <1>11 DEF RewindLook, Look, Spend, CountTypes, Events
  <2>2. t \in DOMAIN disk
    BY <2>1, KnownIsOnDisk DEF Listed
  <2> QED
    BY <2>1, <2>2
<1>12. ASSUME NEW t \in Numbers, NEW side \in {"from", "upto"}, SummarizeLook(t, side)
      PROVE  NumberInv'
  <2>1. /\ UNCHANGED <<done, live, disk, cpTurn, cpBound, phase>>
        /\ count'.turns = count.turns /\ cmd'.turn = t /\ t \in Listed
    BY <1>12 DEF SummarizeLook, Look, Spend, CountTypes, Events
  <2>2. t \in DOMAIN disk
    BY <2>1, KnownIsOnDisk DEF Listed
  <2> QED
    BY <2>1, <2>2
<1>13. ASSUME NEW bad \in SUBSET Files, RewindCode(bad) PROVE NumberInv'
  <2>1. /\ UNCHANGED <<done, live, disk, cpTurn, cpBound, phase>>
        /\ count'.turns = count.turns
    BY <1>13 DEF RewindCode, CountTypes, Events
  <2>2. cmd.op # "none" /\ (cmd'.op = "none" \/ cmd'.turn = cmd.turn)
    BY <1>13 DEF RewindCode, Cmds, NoCmd
  <2> QED
    BY <2>1, <2>2
<1>14. ASSUME RewindConversation PROVE NumberInv'
  <2>1. /\ UNCHANGED <<done, disk, phase, count>> /\ cmd'.op = "none"
        /\ cpTurn' = cmd.turn /\ live' = {t \in live : t < cmd.turn}
        /\ DOMAIN cpBound' = {k \in DOMAIN cpBound : k < cmd.turn}
        /\ cmd.turn \in DOMAIN disk
    BY <1>14 DEF RewindConversation, KeptBounds, Restrict, NoCmd
  <2>2. live' \subseteq live
    BY <2>1
  <2> QED
    BY <2>1, <2>2
<1>15. ASSUME RewindNothing PROVE NumberInv'
  <2>1. /\ UNCHANGED <<done, live, disk, cpTurn, cpBound>> /\ phase' = phase
        /\ count'.turns = count.turns /\ (cmd' = cmd \/ cmd'.op = "none" \/ (cmd'.turn = cmd.turn /\ cmd.op # "none"))
    BY <1>15 DEF RewindNothing, CountTypes, Events, NoCmd, Cmds, Spend
  <2> QED
    BY <2>1
<1>16. ASSUME RewindUnavailable PROVE NumberInv'
  <2>1. /\ UNCHANGED <<done, live, disk, cpTurn, cpBound>> /\ phase' = phase
        /\ count'.turns = count.turns /\ (cmd' = cmd \/ cmd'.op = "none" \/ (cmd'.turn = cmd.turn /\ cmd.op # "none"))
    BY <1>16 DEF RewindUnavailable, CountTypes, Events, NoCmd, Cmds, Spend
  <2> QED
    BY <2>1
<1>17. ASSUME RewindFail PROVE NumberInv'
  <2>1. /\ UNCHANGED <<done, live, disk, cpTurn, cpBound>> /\ phase' = phase
        /\ count'.turns = count.turns /\ (cmd' = cmd \/ cmd'.op = "none" \/ (cmd'.turn = cmd.turn /\ cmd.op # "none"))
    BY <1>17 DEF RewindFail, CountTypes, Events, NoCmd, Cmds, Spend
  <2> QED
    BY <2>1
<1>18. ASSUME Summarize PROVE NumberInv'
  <2>1. /\ UNCHANGED <<done, live, disk, cpTurn, count, phase>>
        /\ cmd'.op = "none" /\ DOMAIN cpBound' = {}
    BY <1>18 DEF Summarize, NoCmd, Empty
  <2> QED
    BY <2>1
<1>19. ASSUME SummarizeFails PROVE NumberInv'
  <2>1. /\ UNCHANGED <<done, live, disk, cpTurn, cpBound>> /\ phase' = phase
        /\ count'.turns = count.turns /\ (cmd' = cmd \/ cmd'.op = "none" \/ (cmd'.turn = cmd.turn /\ cmd.op # "none"))
    BY <1>19 DEF SummarizeFails, CountTypes, Events, NoCmd, Cmds, Spend
  <2> QED
    BY <2>1
<1>20. ASSUME NEW clean \in BOOLEAN, Resume(clean) PROVE NumberInv'
  <2>1. /\ UNCHANGED <<live, disk>> /\ count'.turns = count.turns
        /\ cmd'.op = "none" /\ DOMAIN cpBound' = DOMAIN disk /\ done' = Sorted(disk)
        /\ cpTurn' = NextTurn(disk) /\ phase' = "idle"
    BY <1>20 DEF Resume, NoCmd, Bounds, Spend, CountTypes, Events
  <2>2. /\ NextTurn(disk) \in 0 .. MaxTurns
        /\ \A t \in DOMAIN disk : t < NextTurn(disk)
        /\ NextTurn(disk) = 0 \/ NextTurn(disk) - 1 \in DOMAIN disk
    BY NextTurnIsPast
  <2>3. \A i \in DOMAIN Sorted(disk) : Sorted(disk)[i].turn \in DOMAIN disk
    BY SortedType DEF StoreTypes
  <2>4. NextTurn(disk) <= count.turns
    BY <2>2
  <2> QED
    BY <2>1, <2>2, <2>3, <2>4
<1>21. CASE UNCHANGED vars
  BY <1>21 DEF vars
<1> HIDE DEF NumberInv
<1> QED
  BY <1>1, <1>2, <1>3, <1>4, <1>5, <1>6, <1>7, <1>8, <1>9, <1>10, <1>11,
     <1>12, <1>13, <1>14, <1>15, <1>16, <1>17, <1>18, <1>19, <1>20, <1>21
     DEF Next

LEMMA CommandsKept == IInv /\ [Next]_vars => CommandInv'
<1> SUFFICES ASSUME IInv, [Next]_vars PROVE CommandInv'
  OBVIOUS
<1> USE Limits DEF CommandInv
<1> cmd \in Cmds /\ BoundTypes /\ NumberInv
  BY DEF IInv, Types
<1> CommandInv
  BY DEF IInv
<1> ~NoCmd.has /\ NoCmd.op = "none"
  BY DEF NoCmd
<1>1. ASSUME Send PROVE CommandInv'
  BY <1>1 DEF Send
<1>2. ASSUME BeginCheckpoint PROVE CommandInv'
  <2>1. cmd' = cmd /\ cpBound' = Put(cpBound, cpTurn, Len(msgs))
    BY <1>2 DEF BeginCheckpoint, Boundary
  <2>2. cmd.has => cmd.turn \in DOMAIN cpBound /\ cmd.turn # cpTurn
    BY DEF NumberInv, BoundTypes, Numbers
  <2>3. cmd.has => cmd.turn \in DOMAIN cpBound' /\ cpBound'[cmd.turn] = cpBound[cmd.turn]
    BY <2>1, <2>2 DEF Put
  <2> QED
    BY <2>1, <2>3
<1>3. ASSUME Prompt PROVE CommandInv'
  BY <1>3 DEF Prompt
<1>4. ASSUME NEW f \in Files, PreEdit(f) PROVE CommandInv'
  BY <1>4 DEF PreEdit
<1>5. ASSUME Write PROVE CommandInv'
  BY <1>5 DEF Write
<1>6. ASSUME WriteFails PROVE CommandInv'
  BY <1>6 DEF WriteFails
<1>7. ASSUME Round PROVE CommandInv'
  BY <1>7 DEF Round
<1>8. ASSUME Answer PROVE CommandInv'
  BY <1>8 DEF Answer
<1>9. ASSUME EndTurn PROVE CommandInv'
  BY <1>9 DEF EndTurn
<1>10. ASSUME NEW from \in 1 .. MaxMessages, Compact(from) PROVE CommandInv'
  BY <1>10 DEF Compact
<1>11. ASSUME NEW t \in Numbers, NEW scope \in Scopes, RewindLook(t, scope)
      PROVE  CommandInv'
  <2>1. /\ cpBound' = cpBound /\ cmd'.turn = t /\ cmd'.op \in Scopes
        /\ cmd'.has <=> t \in DOMAIN cpBound
        /\ t \in DOMAIN cpBound => cmd'.bound = cpBound[t]
    BY <1>11 DEF RewindLook, Look
  <2>2. cmd'.op \notin {"from", "upto"}
    BY <2>1, ScopesApart
  <2> QED
    BY <2>1, <2>2
<1>12. ASSUME NEW t \in Numbers, NEW side \in {"from", "upto"}, SummarizeLook(t, side)
      PROVE  CommandInv'
  <2>1. /\ cpBound' = cpBound /\ cmd'.turn = t /\ t \in DOMAIN cpBound
        /\ cmd'.has <=> t \in DOMAIN cpBound
        /\ t \in DOMAIN cpBound => cmd'.bound = cpBound[t]
    BY <1>12 DEF SummarizeLook, Look
  <2> QED
    BY <2>1
<1>13. ASSUME NEW bad \in SUBSET Files, RewindCode(bad) PROVE CommandInv'
  <2>1. cpBound' = cpBound
    BY <1>13 DEF RewindCode
  <2>2. CASE cmd' = NoCmd
    BY <2>1, <2>2
  <2>3. CASE cmd' # NoCmd
    <3>1. /\ cmd'.turn = cmd.turn /\ cmd'.bound = cmd.bound /\ (cmd'.has <=> cmd.has)
          /\ cmd'.op \notin {"from", "upto"}
      BY <1>13, <2>3 DEF RewindCode, Cmds
    <3> QED
      BY <2>1, <3>1
  <2> QED
    BY <2>2, <2>3
<1>14. ASSUME RewindConversation PROVE CommandInv'
  BY <1>14 DEF RewindConversation
<1>15. ASSUME RewindNothing PROVE CommandInv'
  BY <1>15 DEF RewindNothing
<1>16. ASSUME RewindUnavailable PROVE CommandInv'
  <2>1. ~cmd'.has /\ cmd'.op \notin {"from", "upto"}
    BY <1>16 DEF RewindUnavailable, Cmds
  <2> QED
    BY <2>1
<1>17. ASSUME RewindFail PROVE CommandInv'
  BY <1>17 DEF RewindFail
<1>18. ASSUME Summarize PROVE CommandInv'
  BY <1>18 DEF Summarize
<1>19. ASSUME SummarizeFails PROVE CommandInv'
  BY <1>19 DEF SummarizeFails
<1>20. ASSUME NEW clean \in BOOLEAN, Resume(clean) PROVE CommandInv'
  BY <1>20 DEF Resume
<1>21. CASE UNCHANGED vars
  BY <1>21 DEF vars
<1> HIDE DEF CommandInv
<1> QED
  BY <1>1, <1>2, <1>3, <1>4, <1>5, <1>6, <1>7, <1>8, <1>9, <1>10, <1>11,
     <1>12, <1>13, <1>14, <1>15, <1>16, <1>17, <1>18, <1>19, <1>20, <1>21
     DEF Next

(* A boundary in memory is the one on disk.                                *)

LEMMA DurableKept == IInv /\ [Next]_vars => BoundsDurable'
<1> SUFFICES ASSUME IInv, [Next]_vars PROVE BoundsDurable'
  OBVIOUS
<1> USE Limits DEF BoundsDurable
<1> /\ StoreTypes /\ BoundTypes /\ CountTypes /\ TurnInv /\ NumberInv /\ TurnTypes
    /\ files \in Texts /\ msgs \in Logs
  BY DEF IInv, Types, LogTypes, WorkTypes
<1> Len(msgs) \in 1 .. MaxMessages
  BY LogIsWhole
<1> BoundsDurable
  BY DEF IInv
<1>1. ASSUME Send PROVE BoundsDurable'
  BY <1>1 DEF Send
<1>2. ASSUME BeginCheckpoint PROVE BoundsDurable'
  <2>1. /\ cur'.turn = cpTurn /\ cur'.idx = Len(msgs)
        /\ DOMAIN disk' = DOMAIN disk \cup {cpTurn} /\ disk'[cpTurn] = cur'
        /\ \A t \in DOMAIN disk \ {cpTurn} : disk'[t] = disk[t]
    BY <1>2, BeginStores
  <2>2. cpBound' = Put(cpBound, cpTurn, Len(msgs))
    BY <1>2 DEF BeginCheckpoint, Boundary
  <2> QED
    BY <2>1, <2>2 DEF Put
<1>3. ASSUME Prompt PROVE BoundsDurable'
  BY <1>3 DEF Prompt
<1>4. ASSUME NEW f \in Files, PreEdit(f) PROVE BoundsDurable'
  <2>1. cur # Nobody
    BY <1>4 DEF PreEdit, started, TurnInv
  <2>2. /\ DOMAIN disk' = DOMAIN disk /\ disk'[cur.turn] = cur' /\ cur'.idx = cur.idx
        /\ \A t \in DOMAIN disk \ {cur.turn} : disk'[t] = disk[t]
    BY <1>4, <2>1, PreEditStores
  <2>3. cpBound' = cpBound /\ disk[cur.turn] = cur
    BY <1>4, <2>1 DEF PreEdit, TurnInv
  <2> QED
    BY <2>2, <2>3
<1>5. ASSUME Write PROVE BoundsDurable'
  BY <1>5 DEF Write
<1>6. ASSUME WriteFails PROVE BoundsDurable'
  BY <1>6 DEF WriteFails
<1>7. ASSUME Round PROVE BoundsDurable'
  BY <1>7 DEF Round
<1>8. ASSUME Answer PROVE BoundsDurable'
  BY <1>8 DEF Answer
<1>9. ASSUME EndTurn PROVE BoundsDurable'
  BY <1>9 DEF EndTurn
<1>10. ASSUME NEW from \in 1 .. MaxMessages, Compact(from) PROVE BoundsDurable'
  BY <1>10 DEF Compact
<1>11. ASSUME NEW t \in Numbers, NEW scope \in Scopes, RewindLook(t, scope)
      PROVE  BoundsDurable'
  BY <1>11 DEF RewindLook, Look
<1>12. ASSUME NEW t \in Numbers, NEW side \in {"from", "upto"}, SummarizeLook(t, side)
      PROVE  BoundsDurable'
  BY <1>12 DEF SummarizeLook, Look
<1>13. ASSUME NEW bad \in SUBSET Files, RewindCode(bad) PROVE BoundsDurable'
  BY <1>13 DEF RewindCode
<1>14. ASSUME RewindConversation PROVE BoundsDurable'
  BY <1>14 DEF RewindConversation, KeptBounds, Restrict
<1>15. ASSUME RewindNothing PROVE BoundsDurable'
  BY <1>15 DEF RewindNothing
<1>16. ASSUME RewindUnavailable PROVE BoundsDurable'
  BY <1>16 DEF RewindUnavailable
<1>17. ASSUME RewindFail PROVE BoundsDurable'
  BY <1>17 DEF RewindFail
<1>18. ASSUME Summarize PROVE BoundsDurable'
  BY <1>18 DEF Summarize, Empty
<1>19. ASSUME SummarizeFails PROVE BoundsDurable'
  BY <1>19 DEF SummarizeFails
<1>20. ASSUME NEW clean \in BOOLEAN, Resume(clean) PROVE BoundsDurable'
  BY <1>20 DEF Resume, Bounds
<1>21. CASE UNCHANGED vars
  BY <1>21 DEF vars
<1> HIDE DEF BoundsDurable
<1> QED
  BY <1>1, <1>2, <1>3, <1>4, <1>5, <1>6, <1>7, <1>8, <1>9, <1>10, <1>11,
     <1>12, <1>13, <1>14, <1>15, <1>16, <1>17, <1>18, <1>19, <1>20, <1>21
     DEF Next

-----------------------------------------------------------------------------
(* Boundaries and the log.                                                 *)

LEMMA BoundOfTurn ==
  ASSUME BoundTypes, OrderInv, NEW t \in live \ stale
  PROVE  t \in DOMAIN cpBound /\ cpBound[t] \in 1 .. MaxMessages
  BY DEF BoundTypes, OrderInv

(* Logs of which one is only the system prompt begin alike.                *)
LEMMA AllBeginAlike ==
  ASSUME NEW log \in Logs
  PROVE  SubSeq(log, 1, 1) = <<Sys>>
<1>1. log \in Seq(Message) /\ Len(log) \in 1 .. MaxMessages /\ log[1] = Sys
  BY LogIsWhole
<1>2. SubSeq(log, 1, 1) = <<log[1]>>
  <2>1. 1 \in Int /\ \A i \in 1 .. 1 : log[i] \in Message
    <3>1. 1 \in 1 .. Len(log)
      BY <1>1, Limits
    <3>2. log[1] \in Message
      BY <1>1, <3>1, ElementOfSeq
    <3> QED
      BY <3>2
  <2>2. /\ SubSeq(log, 1, 1) \in Seq(Message) /\ Len(SubSeq(log, 1, 1)) = 1
        /\ SubSeq(log, 1, 1)[1] = log[1]
    BY <2>1, SubSeqProperties
  <2>3. /\ <<log[1]>> \in Seq(Message) /\ Len(<<log[1]>>) = 1 /\ <<log[1]>>[1] = log[1]
    BY <2>1
  <2>4. \A i \in 1 .. 1 : SubSeq(log, 1, 1)[i] = <<log[1]>>[i]
    BY <2>2, <2>3
  <2> HIDE <2>1
  <2> QED
    BY <2>2, <2>3, <2>4, SeqEqual
<1> QED
  BY <1>1, <1>2

LEMMA CutsAtOne ==
  ASSUME BoundTypes, OrderInv, MapInv, msgs \in Logs, Len(msgs) = 1,
         NEW t \in live \ stale, NEW log \in Logs
  PROVE  Cuts(log, t)
<1>1. Cuts(msgs, t) /\ cpBound[t] \in 1 .. MaxMessages
  BY BoundOfTurn DEF MapInv
<1>2. cpBound[t] = 1
  BY <1>1, Limits DEF Cuts
<1>3. SubSeq(log, 1, 1) = SubSeq(msgs, 1, 1) /\ Len(log) \in 1 .. MaxMessages
  BY AllBeginAlike, LogIsWhole
<1> QED
  BY <1>1, <1>2, <1>3, Limits DEF Cuts

(* The session file after a save begins with every turn that maps.         *)
LEMMA SaveMaps ==
  ASSUME (msgs \in Logs)', BoundTypes', OrderInv', MapInv', (saved \in Logs)',
         Len(msgs') > 1 => saved' = msgs'
  PROVE  (\A t \in live \ stale : Cuts(saved, t))' /\ Continues(saved', msgs')
<1>1. Len(msgs') \in 1 .. MaxMessages /\ SubSeq(msgs', 1, Len(msgs')) = msgs'
  BY LogIsWhole
<1>2. CASE Len(msgs') > 1
  BY <1>1, <1>2, Limits DEF MapInv, Continues
<1>3. CASE ~(Len(msgs') > 1)
  <2>1. Len(msgs') = 1
    BY <1>1, <1>3, Limits
  <2>2. SubSeq(msgs', 1, 1) = <<Sys>> /\ SubSeq(saved', 1, 1) = <<Sys>>
    BY AllBeginAlike
  <2>3. Len(saved') \in 1 .. MaxMessages
    BY LogIsWhole
  <2>4. Continues(saved', msgs')
    <3>1. Len(msgs') <= Len(saved')
      BY <2>1, <2>3, Limits
    <3>2. SubSeq(saved', 1, Len(msgs')) = msgs'
      BY <1>1, <2>1, <2>2, Zenon
    <3> QED
      BY <3>1, <3>2 DEF Continues
  <2>5. ASSUME NEW t \in live' \ stale' PROVE Cuts(saved, t)'
    <3>1. Cuts(msgs, t)'
      BY <2>5 DEF MapInv
    <3>2. cpBound'[t] \in 1 .. MaxMessages
      BY <2>5 DEF BoundTypes, OrderInv
    <3>3. cpBound'[t] = 1
      BY <2>1, <3>1, <3>2, Limits DEF Cuts
    <3>4. SubSeq(msgs', 1, 1) = startOf'[t].log
      BY <3>1, <3>3, Zenon DEF Cuts
    <3>5. SubSeq(saved', 1, cpBound'[t]) = startOf'[t].log
      BY <2>2, <3>3, <3>4, Zenon
    <3>6. cpBound'[t] <= Len(saved')
      BY <2>3, <3>3, Limits
    <3> QED
      BY <3>5, <3>6 DEF Cuts
  <2> QED
    BY <2>4, <2>5
<1> QED
  BY <1>2, <1>3

(* The log grows or is as it was.                                          *)
Grows ==
  /\ Len(msgs) \in Nat /\ Len(msgs') \in Nat /\ Len(msgs) <= Len(msgs')
  /\ \A b \in 0 .. Len(msgs) : SubSeq(msgs', 1, b) = SubSeq(msgs, 1, b)

LEMMA LogsThatGrow ==
  ASSUME IInv
  PROVE  /\ UNCHANGED msgs => Grows
         /\ Prompt \/ Answer \/ Round => Grows
<1>1. msgs \in Logs /\ Len(msgs) \in 1 .. MaxMessages /\ CountTypes
  BY LogIsWhole DEF IInv, Types, LogTypes
<1>2. \A kind \in {"user", "call", "result", "answer"} :
        Msg(kind) \in Message /\ Msg(kind).kind # "system"
  BY <1>1, MessageType DEF Kinds
<1>3. ASSUME UNCHANGED msgs PROVE Grows
  BY <1>1, <1>3, Limits DEF Grows
<1>4. ASSUME NEW m \in Message, m.kind # "system", Len(msgs) < MaxMessages,
             msgs' = Append(msgs, m)
      PROVE  Grows
  BY <1>1, <1>4, LogGrows, Limits DEF Grows
<1>5. ASSUME Prompt PROVE Grows
  BY <1>2, <1>4, <1>5 DEF Prompt
<1>6. ASSUME Answer PROVE Grows
  BY <1>2, <1>4, <1>6 DEF Answer
<1>7. ASSUME Round PROVE Grows
  <2>1. msgs' = msgs \o <<Msg("call"), Msg("result")>> /\ Len(msgs) + 2 <= MaxMessages
    BY <1>7 DEF Round
  <2> QED
    BY <1>1, <1>2, <2>1, LogGrowsByTwo, Limits DEF Grows
<1> QED
  BY <1>3, <1>5, <1>6, <1>7

LEMMA MapMoves ==
  ASSUME BoundTypes, OrderInv, MapInv, Grows, UNCHANGED <<cpBound, startOf, live, stale>>
  PROVE  MapInv'
<1> SUFFICES ASSUME NEW t \in live \ stale PROVE Cuts(msgs, t)'
  BY DEF MapInv
<1>1. Cuts(msgs, t) /\ cpBound[t] \in 1 .. MaxMessages
  BY BoundOfTurn DEF MapInv
<1>2. cpBound[t] \in 0 .. Len(msgs)
  BY <1>1, Limits DEF Cuts, Grows
<1>3. cpBound[t] <= Len(msgs')
  BY <1>1, <1>2, Limits DEF Grows
<1> QED
  BY <1>1, <1>2, <1>3 DEF Cuts, Grows

LEMMA OrderKept == IInv /\ [Next]_vars => OrderInv'
<1> SUFFICES ASSUME IInv, [Next]_vars PROVE OrderInv'
  OBVIOUS
<1> USE Limits DEF OrderInv
<1> /\ BoundTypes /\ OrderInv /\ MapInv /\ NumberInv /\ CommandInv /\ HistTypes
    /\ BoundsDurable /\ SavedInv /\ msgs \in Logs /\ saved \in Logs \cup {<<>>}
    /\ cmd \in Cmds
  BY DEF IInv, Types, LogTypes
<1> Len(msgs) \in 1 .. MaxMessages /\ SubSeq(msgs, 1, Len(msgs)) = msgs
  BY LogIsWhole
<1> /\ live \subseteq Nat /\ stale \subseteq live /\ cpTurn \in Nat
    /\ \A t \in live \cup DOMAIN cpBound : t < cpTurn /\ t \in Nat
  BY DEF HistTypes, BoundTypes, NumberInv, Numbers
<1>1. ASSUME Send PROVE OrderInv'
  BY <1>1 DEF Send
<1>2. ASSUME BeginCheckpoint PROVE OrderInv'
  <2>1. /\ live' = live \cup {cpTurn} /\ stale' = stale \ {cpTurn}
        /\ cpBound' = Put(cpBound, cpTurn, Len(msgs))
    BY <1>2 DEF BeginCheckpoint, Boundary
  <2>2. /\ cpTurn \notin live /\ stale' = stale
        /\ live' \ stale' = (live \ stale) \cup {cpTurn}
    BY <2>1
  <2>3. /\ DOMAIN cpBound' = DOMAIN cpBound \cup {cpTurn} /\ cpBound'[cpTurn] = Len(msgs)
        /\ \A t \in live \ stale : cpBound'[t] = cpBound[t]
    BY <2>1 DEF Put
  <2>4. \A t \in live \ stale : cpBound[t] <= Len(msgs)
    BY DEF MapInv, Cuts
  <2>5. ASSUME NEW t \in live' \ stale', NEW u \in live' \ stale', t < u
        PROVE  cpBound'[t] <= cpBound'[u]
    <3>1. t \in live \ stale
      <4>1. t \in (live \ stale) \cup {cpTurn} /\ u \in (live \ stale) \cup {cpTurn}
        BY <2>2
      <4>2. u <= cpTurn /\ u \in Nat /\ t \in Nat
        BY <4>1
      <4> QED
        BY <2>5, <4>1, <4>2
    <3>2. CASE u = cpTurn
      BY <2>3, <2>4, <3>1, <3>2
    <3>3. CASE u # cpTurn
      BY <2>2, <2>3, <2>5, <3>1, <3>3
    <3> QED
      BY <3>2, <3>3
  <2>6. \A t \in live', u \in stale' : t < u => t \in stale'
    BY <2>1, <2>2
  <2> QED
    BY <2>2, <2>3, <2>5, <2>6
<1>3. ASSUME Prompt PROVE OrderInv'
  BY <1>3 DEF Prompt
<1>4. ASSUME NEW f \in Files, PreEdit(f) PROVE OrderInv'
  BY <1>4 DEF PreEdit
<1>5. ASSUME Write PROVE OrderInv'
  BY <1>5 DEF Write
<1>6. ASSUME WriteFails PROVE OrderInv'
  BY <1>6 DEF WriteFails
<1>7. ASSUME Round PROVE OrderInv'
  BY <1>7 DEF Round
<1>8. ASSUME Answer PROVE OrderInv'
  BY <1>8 DEF Answer
<1>9. ASSUME EndTurn PROVE OrderInv'
  BY <1>9 DEF EndTurn
<1>10. ASSUME NEW from \in 1 .. MaxMessages, Compact(from) PROVE OrderInv'
  <2>1. stale' = live' /\ cpBound' = cpBound
    BY <1>10 DEF Compact
  <2> QED
    BY <2>1
<1>11. ASSUME NEW t \in Numbers, NEW scope \in Scopes, RewindLook(t, scope)
      PROVE  OrderInv'
  BY <1>11 DEF RewindLook, Look
<1>12. ASSUME NEW t \in Numbers, NEW side \in {"from", "upto"}, SummarizeLook(t, side)
      PROVE  OrderInv'
  BY <1>12 DEF SummarizeLook, Look
<1>13. ASSUME NEW bad \in SUBSET Files, RewindCode(bad) PROVE OrderInv'
  BY <1>13 DEF RewindCode
<1>14. ASSUME RewindConversation PROVE OrderInv'
  <2> DEFINE c == cmd.turn
  <2>1. /\ live' = {t \in live : t < c} /\ cpBound' = KeptBounds(c)
        /\ stale' = (IF c \in live THEN stale \cap live' ELSE live')
        /\ startOf' = startOf
        /\ c \in DOMAIN cpBound /\ c \in Nat /\ cmd.bound = cpBound[c]
        /\ msgs' = SubSeq(msgs, 1, cmd.bound) /\ cmd.bound <= Len(msgs)
    BY <1>14, BoundType DEF RewindConversation
  <2>2. /\ DOMAIN cpBound' = {k \in DOMAIN cpBound : k < c}
        /\ \A t \in DOMAIN cpBound' : cpBound'[t] = cpBound[t]
    BY <2>1 DEF KeptBounds, Restrict
  <2>3. \A t \in live', u \in stale' : t < u => t \in stale'
    BY <2>1
  <2>4. live' \ stale' \subseteq live \ stale /\ \A t \in live' : t < c
    BY <2>1
  <2>5. live' \ stale' \subseteq DOMAIN cpBound'
    BY <2>2, <2>4
  <2>6. \A t, u \in live' \ stale' : t < u => cpBound'[t] <= cpBound'[u]
    BY <2>2, <2>4, <2>5
  <2> QED
    BY <2>3, <2>5, <2>6
<1>15. ASSUME RewindNothing PROVE OrderInv'
  BY <1>15 DEF RewindNothing
<1>16. ASSUME RewindUnavailable PROVE OrderInv'
  BY <1>16 DEF RewindUnavailable
<1>17. ASSUME RewindFail PROVE OrderInv'
  BY <1>17 DEF RewindFail
<1>18. ASSUME Summarize PROVE OrderInv'
  <2>1. stale' = live'
    BY <1>18 DEF Summarize
  <2> QED
    BY <2>1
<1>19. ASSUME SummarizeFails PROVE OrderInv'
  BY <1>19 DEF SummarizeFails
<1>20. ASSUME NEW clean \in BOOLEAN, Resume(clean) PROVE OrderInv'
  <2>1. live' = live /\ (stale' = live \/ stale' = stale) /\ cpBound' = Bounds(disk)
    BY <1>20 DEF Resume
  <2>2. DOMAIN cpBound' = DOMAIN disk /\ \A t \in DOMAIN disk : cpBound'[t] = disk[t].idx
    BY <2>1 DEF Bounds
  <2>3. \A t \in live \ stale : t \in DOMAIN disk /\ cpBound'[t] = cpBound[t]
    BY <2>2 DEF BoundsDurable
  <2>4. CASE stale' = live
    BY <2>1, <2>2, <2>4
  <2>5. CASE stale' = stale
    BY <2>1, <2>2, <2>3, <2>5
  <2> QED
    BY <2>1, <2>4, <2>5
<1>21. CASE UNCHANGED vars
  BY <1>21 DEF vars
<1> HIDE DEF OrderInv
<1> QED
  BY <1>1, <1>2, <1>3, <1>4, <1>5, <1>6, <1>7, <1>8, <1>9, <1>10, <1>11,
     <1>12, <1>13, <1>14, <1>15, <1>16, <1>17, <1>18, <1>19, <1>20, <1>21
     DEF Next

LEMMA MapKept == IInv /\ [Next]_vars => MapInv'
<1> SUFFICES ASSUME IInv, [Next]_vars PROVE MapInv'
  OBVIOUS
<1> USE Limits
<1> /\ BoundTypes /\ OrderInv /\ MapInv /\ NumberInv /\ CommandInv /\ HistTypes
    /\ BoundsDurable /\ SavedInv /\ msgs \in Logs /\ saved \in Logs \cup {<<>>}
    /\ cmd \in Cmds
  BY DEF IInv, Types, LogTypes
<1> Len(msgs) \in 1 .. MaxMessages /\ SubSeq(msgs, 1, Len(msgs)) = msgs
  BY LogIsWhole
<1> /\ live \subseteq Nat /\ stale \subseteq live /\ cpTurn \in Nat
    /\ \A t \in live \cup DOMAIN cpBound : t < cpTurn /\ t \in Nat
  BY DEF HistTypes, BoundTypes, NumberInv, Numbers
<1>1. ASSUME Send PROVE MapInv'
  <2>1. Grows /\ UNCHANGED <<cpBound, startOf, live, stale>>
    BY <1>1, LogsThatGrow DEF Send
  <2> QED
    BY <2>1, MapMoves
<1>2. ASSUME BeginCheckpoint PROVE MapInv'
  <2>1. /\ live' = live \cup {cpTurn} /\ stale' = stale \ {cpTurn} /\ msgs' = msgs
        /\ cpBound' = Put(cpBound, cpTurn, Len(msgs))
        /\ startOf' = Put(startOf, cpTurn, [log |-> msgs, files |-> files, utf8 |-> utf8])
    BY <1>2 DEF BeginCheckpoint, Boundary
  <2>2. cpTurn \notin live /\ live' \ stale' = (live \ stale) \cup {cpTurn}
    BY <2>1
  <2>3. ASSUME NEW n, n = cpTurn PROVE Cuts(msgs, n)'
    <3>1. cpBound'[n] = Len(msgs) /\ startOf'[n].log = msgs
      BY <2>1, <2>3 DEF Put
    <3> QED
      BY <2>1, <3>1 DEF Cuts
  <2>4. ASSUME NEW t \in live \ stale PROVE Cuts(msgs, t)'
    <3>1. t \in DOMAIN cpBound /\ t \in DOMAIN startOf /\ t # cpTurn
      BY <2>2, BoundOfTurn DEF HistTypes
    <3>2. cpBound'[t] = cpBound[t] /\ startOf'[t] = startOf[t]
      BY <2>1, <3>1 DEF Put
    <3>3. Cuts(msgs, t)
      BY DEF MapInv
    <3> QED
      BY <2>1, <3>2, <3>3 DEF Cuts
  <2> QED
    BY <2>2, <2>3, <2>4 DEF MapInv
<1>3. ASSUME Prompt PROVE MapInv'
  <2>1. Grows /\ UNCHANGED <<cpBound, startOf, live, stale>>
    BY <1>3, LogsThatGrow DEF Prompt
  <2> QED
    BY <2>1, MapMoves
<1>4. ASSUME NEW f \in Files, PreEdit(f) PROVE MapInv'
  <2>1. Grows /\ UNCHANGED <<cpBound, startOf, live, stale>>
    BY <1>4, LogsThatGrow DEF PreEdit
  <2> QED
    BY <2>1, MapMoves
<1>5. ASSUME Write PROVE MapInv'
  <2>1. Grows /\ UNCHANGED <<cpBound, startOf, live, stale>>
    BY <1>5, LogsThatGrow DEF Write
  <2> QED
    BY <2>1, MapMoves
<1>6. ASSUME WriteFails PROVE MapInv'
  <2>1. Grows /\ UNCHANGED <<cpBound, startOf, live, stale>>
    BY <1>6, LogsThatGrow DEF WriteFails
  <2> QED
    BY <2>1, MapMoves
<1>7. ASSUME Round PROVE MapInv'
  <2>1. Grows /\ UNCHANGED <<cpBound, startOf, live, stale>>
    BY <1>7, LogsThatGrow DEF Round
  <2> QED
    BY <2>1, MapMoves
<1>8. ASSUME Answer PROVE MapInv'
  <2>1. Grows /\ UNCHANGED <<cpBound, startOf, live, stale>>
    BY <1>8, LogsThatGrow DEF Answer
  <2> QED
    BY <2>1, MapMoves
<1>9. ASSUME EndTurn PROVE MapInv'
  <2>1. Grows /\ UNCHANGED <<cpBound, startOf, live, stale>>
    BY <1>9, LogsThatGrow DEF EndTurn
  <2> QED
    BY <2>1, MapMoves
<1>10. ASSUME NEW from \in 1 .. MaxMessages, Compact(from) PROVE MapInv'
  <2>1. stale' = live'
    BY <1>10 DEF Compact
  <2> QED
    BY <2>1 DEF MapInv
<1>11. ASSUME NEW t \in Numbers, NEW scope \in Scopes, RewindLook(t, scope)
      PROVE  MapInv'
  <2>1. Grows /\ UNCHANGED <<cpBound, startOf, live, stale>>
    BY <1>11, LogsThatGrow DEF RewindLook, Look
  <2> QED
    BY <2>1, MapMoves
<1>12. ASSUME NEW t \in Numbers, NEW side \in {"from", "upto"}, SummarizeLook(t, side)
      PROVE  MapInv'
  <2>1. Grows /\ UNCHANGED <<cpBound, startOf, live, stale>>
    BY <1>12, LogsThatGrow DEF SummarizeLook, Look
  <2> QED
    BY <2>1, MapMoves
<1>13. ASSUME NEW bad \in SUBSET Files, RewindCode(bad) PROVE MapInv'
  <2>1. Grows /\ UNCHANGED <<cpBound, startOf, live, stale>>
    BY <1>13, LogsThatGrow DEF RewindCode
  <2> QED
    BY <2>1, MapMoves
<1>14. ASSUME RewindConversation PROVE MapInv'
  <2> DEFINE c == cmd.turn
  <2>1. /\ live' = {t \in live : t < c} /\ cpBound' = KeptBounds(c)
        /\ stale' = (IF c \in live THEN stale \cap live' ELSE live')
        /\ startOf' = startOf
        /\ c \in DOMAIN cpBound /\ c \in Nat /\ cmd.bound = cpBound[c]
        /\ msgs' = SubSeq(msgs, 1, cmd.bound) /\ cmd.bound <= Len(msgs)
    BY <1>14, BoundType DEF RewindConversation
  <2>2. /\ DOMAIN cpBound' = {k \in DOMAIN cpBound : k < c}
        /\ \A t \in DOMAIN cpBound' : cpBound'[t] = cpBound[t]
    BY <2>1 DEF KeptBounds, Restrict
  <2>3. SUFFICES ASSUME NEW t \in live' \ stale' PROVE Cuts(msgs, t)'
    BY DEF MapInv
  <2>4. c \in live /\ t \in live \ stale /\ t < c
    BY <2>1
  <2>5. c \in live \ stale
    BY <2>4 DEF OrderInv
  <2>6. /\ cpBound[t] <= cmd.bound /\ t \in DOMAIN cpBound' /\ cpBound'[t] = cpBound[t]
        /\ cpBound[t] \in 1 .. MaxMessages /\ cmd.bound \in 1 .. MaxMessages
    BY <2>1, <2>2, <2>4, <2>5, BoundOfTurn DEF OrderInv
  <2>7. cmd.bound \in 1 .. Len(msgs) /\ cpBound[t] \in 0 .. cmd.bound
    BY <2>1, <2>6
  <2>8. Len(msgs') = cmd.bound /\ SubSeq(msgs', 1, cpBound[t]) = SubSeq(msgs, 1, cpBound[t])
    BY <2>1, <2>7, LogIsCut
  <2>9. Cuts(msgs, t)
    BY <2>4 DEF MapInv
  <2> QED
    BY <2>1, <2>6, <2>8, <2>9 DEF Cuts
<1>15. ASSUME RewindNothing PROVE MapInv'
  <2>1. Grows /\ UNCHANGED <<cpBound, startOf, live, stale>>
    BY <1>15, LogsThatGrow DEF RewindNothing
  <2> QED
    BY <2>1, MapMoves
<1>16. ASSUME RewindUnavailable PROVE MapInv'
  <2>1. Grows /\ UNCHANGED <<cpBound, startOf, live, stale>>
    BY <1>16, LogsThatGrow DEF RewindUnavailable
  <2> QED
    BY <2>1, MapMoves
<1>17. ASSUME RewindFail PROVE MapInv'
  <2>1. Grows /\ UNCHANGED <<cpBound, startOf, live, stale>>
    BY <1>17, LogsThatGrow DEF RewindFail
  <2> QED
    BY <2>1, MapMoves
<1>18. ASSUME Summarize PROVE MapInv'
  <2>1. stale' = live'
    BY <1>18 DEF Summarize
  <2> QED
    BY <2>1 DEF MapInv
<1>19. ASSUME SummarizeFails PROVE MapInv'
  <2>1. Grows /\ UNCHANGED <<cpBound, startOf, live, stale>>
    BY <1>19, LogsThatGrow DEF SummarizeFails
  <2> QED
    BY <2>1, MapMoves
<1>20. ASSUME NEW clean \in BOOLEAN, Resume(clean) PROVE MapInv'
  <2>1. /\ live' = live /\ cpBound' = Bounds(disk) /\ msgs' = saved' /\ startOf' = startOf
        /\ stale' = (IF dirty /\ ~clean THEN live ELSE stale)
        /\ saved' = (IF clean THEN Save(msgs) ELSE saved) /\ saved' # <<>>
    BY <1>20 DEF Resume
  <2>2. SUFFICES ASSUME NEW t \in live' \ stale' PROVE Cuts(msgs, t)'
    BY DEF MapInv
  <2>3. t \in live \ stale /\ ~(dirty /\ ~clean)
    BY <2>1
  <2>4. cpBound'[t] = cpBound[t]
    BY <2>1, <2>3, BoundOfTurn DEF Bounds, BoundsDurable
  <2>5. Cuts(saved', t)
    <3>1. CASE ~clean
      BY <2>1, <2>3, <3>1 DEF SavedInv
    <3>2. CASE clean /\ Len(msgs) > 1
      <4>1. saved' = msgs
        BY <2>1, <3>2, SavedLog DEF LogTypes
      <4> QED
        BY <2>3, <4>1 DEF MapInv
    <3>3. CASE clean /\ ~(Len(msgs) > 1)
      <4>1. saved' = saved /\ saved' \in Logs
        BY <2>1, <3>3, SavedLog DEF LogTypes
      <4>2. Len(msgs) = 1
        BY <3>3
      <4> QED
        BY <2>3, <4>1, <4>2, CutsAtOne
    <3> QED
      BY <3>1, <3>2, <3>3
  <2> QED
    BY <2>1, <2>4, <2>5 DEF Cuts
<1>21. CASE UNCHANGED vars
  <2>1. Grows /\ UNCHANGED <<cpBound, startOf, live, stale>>
    BY <1>21, LogsThatGrow DEF vars
  <2> QED
    BY <2>1, MapMoves
<1> QED
  BY <1>1, <1>2, <1>3, <1>4, <1>5, <1>6, <1>7, <1>8, <1>9, <1>10, <1>11,
     <1>12, <1>13, <1>14, <1>15, <1>16, <1>17, <1>18, <1>19, <1>20, <1>21
     DEF Next

LEMMA Squeeze == \A a, b \in Nat : ~(a > b) /\ b <= a => b = a
  OBVIOUS

LEMMA SavedMoves ==
  ASSUME IInv, SavedInv, Grows, UNCHANGED <<cpBound, startOf, live, stale, saved, start, dirty>>,
         started' = started, started \/ msgs' = msgs
  PROVE  SavedInv'
<1> start \in Nat
  BY DEF IInv, Types, TurnTypes
<1>1. SUFFICES ASSUME saved # <<>>, ~dirty
               PROVE  /\ \A t \in live \ stale : Cuts(saved, t)'
                      /\ ~started => Continues(saved, msgs')
                      /\ started => start <= Len(msgs') /\ Continues(saved, SubSeq(msgs', 1, start))
  BY DEF SavedInv
<1>2. \A t \in live \ stale : Cuts(saved, t)'
  BY <1>1 DEF SavedInv, Cuts
<1>3. CASE started
  <2>1. start <= Len(msgs) /\ Continues(saved, SubSeq(msgs, 1, start))
    BY <1>1, <1>3 DEF SavedInv
  <2>2. start \in 0 .. Len(msgs) /\ start <= Len(msgs')
    BY <2>1 DEF Grows
  <2>3. SubSeq(msgs', 1, start) = SubSeq(msgs, 1, start)
    BY <2>2 DEF Grows
  <2> QED
    BY <1>2, <1>3, <2>1, <2>2, <2>3
<1>4. CASE ~started
  BY <1>1, <1>2, <1>4 DEF SavedInv
<1> QED
  BY <1>3, <1>4

LEMMA SavedKept == IInv /\ [Next]_vars => SavedInv'
<1> SUFFICES ASSUME IInv, [Next]_vars PROVE SavedInv'
  OBVIOUS
<1> USE Limits
<1> /\ BoundTypes /\ OrderInv /\ MapInv /\ NumberInv /\ CommandInv /\ HistTypes
    /\ BoundsDurable /\ SavedInv /\ msgs \in Logs /\ saved \in Logs \cup {<<>>}
    /\ cmd \in Cmds
  BY DEF IInv, Types, LogTypes
<1> Len(msgs) \in 1 .. MaxMessages /\ SubSeq(msgs, 1, Len(msgs)) = msgs
  BY LogIsWhole
<1> /\ live \subseteq Nat /\ stale \subseteq live /\ cpTurn \in Nat
    /\ \A t \in live \cup DOMAIN cpBound : t < cpTurn /\ t \in Nat
  BY DEF HistTypes, BoundTypes, NumberInv, Numbers
<1> /\ msgs' \in Logs /\ saved' \in Logs \cup {<<>>} /\ BoundTypes' /\ OrderInv' /\ MapInv'
  BY LogTyped, BoundTyped, OrderKept, MapKept DEF LogTypes
<1> Len(msgs') \in 1 .. MaxMessages /\ SubSeq(msgs', 1, Len(msgs')) = msgs'
  BY LogIsWhole
<1> start \in Nat
  BY DEF IInv, Types, TurnTypes
<1>1. ASSUME Send PROVE SavedInv'
  <2>1. /\ Grows /\ UNCHANGED <<cpBound, startOf, live, stale, saved, start, dirty>>
        /\ started' = started /\ (started \/ msgs' = msgs)
    BY <1>1, LogsThatGrow DEF Send, running, started
  <2> QED
    BY <2>1, SavedMoves
<1>2. ASSUME BeginCheckpoint PROVE SavedInv'
  <2>1. /\ live' = live \cup {cpTurn} /\ stale' = stale \ {cpTurn} /\ msgs' = msgs
        /\ cpBound' = Put(cpBound, cpTurn, Len(msgs)) /\ saved' = saved
        /\ startOf' = Put(startOf, cpTurn, [log |-> msgs, files |-> files, utf8 |-> utf8])
        /\ start' = Len(msgs) /\ ~started /\ dirty' = dirty
    BY <1>2 DEF BeginCheckpoint, Boundary, started
  <2>2. SUFFICES ASSUME saved # <<>>, ~dirty
                 PROVE  /\ \A t \in live' \ stale' : Cuts(saved, t)'
                        /\ start' <= Len(msgs') /\ Continues(saved', SubSeq(msgs', 1, start'))
                        /\ started'
    BY <2>1 DEF SavedInv
  <2>3. started'
    BY <1>2 DEF BeginCheckpoint, started
  <2>4. Continues(saved, msgs) /\ \A t \in live \ stale : Cuts(saved, t)
    BY <2>1, <2>2 DEF SavedInv
  <2>5. cpTurn \notin live /\ live' \ stale' = (live \ stale) \cup {cpTurn}
    BY <2>1
  <2>6. ASSUME NEW n, n = cpTurn PROVE Cuts(saved, n)'
    <3>1. cpBound'[n] = Len(msgs) /\ startOf'[n].log = msgs
      BY <2>1, <2>6 DEF Put
    <3> QED
      BY <2>1, <2>4, <3>1 DEF Cuts, Continues
  <2>7. ASSUME NEW t \in live \ stale PROVE Cuts(saved, t)'
    <3>1. t \in DOMAIN cpBound /\ t \in DOMAIN startOf /\ t # cpTurn
      BY <2>5, BoundOfTurn DEF HistTypes
    <3>2. cpBound'[t] = cpBound[t] /\ startOf'[t] = startOf[t]
      BY <2>1, <3>1 DEF Put
    <3> QED
      BY <2>1, <2>4, <3>2 DEF Cuts
  <2>8. start' <= Len(msgs') /\ Continues(saved', SubSeq(msgs', 1, start'))
    <3>1. start' = Len(msgs') /\ SubSeq(msgs', 1, start') = msgs
      BY <2>1
    <3>2. start' <= Len(msgs')
      BY <3>1
    <3> QED
      BY <2>1, <2>4, <3>1, <3>2
  <2> QED
    BY <2>3, <2>5, <2>6, <2>7, <2>8
<1>3. ASSUME Prompt PROVE SavedInv'
  <2>1. /\ Grows /\ UNCHANGED <<cpBound, startOf, live, stale, saved, start, dirty>>
        /\ started' = started /\ (started \/ msgs' = msgs)
    BY <1>3, LogsThatGrow DEF Prompt, started
  <2> QED
    BY <2>1, SavedMoves
<1>4. ASSUME NEW f \in Files, PreEdit(f) PROVE SavedInv'
  <2>1. /\ Grows /\ UNCHANGED <<cpBound, startOf, live, stale, saved, start, dirty>>
        /\ started' = started /\ (started \/ msgs' = msgs)
    BY <1>4, LogsThatGrow DEF PreEdit, started
  <2> QED
    BY <2>1, SavedMoves
<1>5. ASSUME Write PROVE SavedInv'
  <2>1. /\ Grows /\ UNCHANGED <<cpBound, startOf, live, stale, saved, start, dirty>>
        /\ started' = started /\ (started \/ msgs' = msgs)
    BY <1>5, LogsThatGrow DEF Write, started
  <2> QED
    BY <2>1, SavedMoves
<1>6. ASSUME WriteFails PROVE SavedInv'
  <2>1. /\ Grows /\ UNCHANGED <<cpBound, startOf, live, stale, saved, start, dirty>>
        /\ started' = started /\ (started \/ msgs' = msgs)
    BY <1>6, LogsThatGrow DEF WriteFails, started
  <2> QED
    BY <2>1, SavedMoves
<1>7. ASSUME Round PROVE SavedInv'
  <2>1. /\ Grows /\ UNCHANGED <<cpBound, startOf, live, stale, saved, start, dirty>>
        /\ started' = started /\ (started \/ msgs' = msgs)
    BY <1>7, LogsThatGrow DEF Round, started
  <2> QED
    BY <2>1, SavedMoves
<1>8. ASSUME Answer PROVE SavedInv'
  <2>1. /\ Grows /\ UNCHANGED <<cpBound, startOf, live, stale, saved, start, dirty>>
        /\ started' = started /\ (started \/ msgs' = msgs)
    BY <1>8, LogsThatGrow DEF Answer, started
  <2> QED
    BY <2>1, SavedMoves
<1>9. ASSUME EndTurn PROVE SavedInv'
  <2>1. /\ UNCHANGED <<live, stale, msgs, cpBound, startOf, start>> /\ started /\ ~started'
    BY <1>9 DEF EndTurn, started
  <2>2. CASE Len(msgs) > start
    <3>1. saved' = Save(msgs) /\ dirty' = FALSE
      BY <1>9, <2>2 DEF EndTurn
    <3>2. Len(msgs') > 1 => saved' = msgs'
      BY <2>1, <3>1, SavedLog DEF LogTypes
    <3> QED
      BY <2>1, <3>2, SaveMaps DEF SavedInv
  <2>3. CASE ~(Len(msgs) > start)
    <3>1. saved' = saved /\ dirty' = dirty
      BY <1>9, <2>3 DEF EndTurn
    <3>2. start <= Len(msgs) => start = Len(msgs)
      <4>1. start \in Nat /\ Len(msgs) \in Nat
        OBVIOUS
      <4> QED
        BY <2>3, <4>1, Squeeze, Zenon
    <3>3. ASSUME saved # <<>>, ~dirty
          PROVE  Continues(saved, msgs) /\ \A t \in live \ stale : Cuts(saved, t)
      BY <2>1, <3>2, <3>3 DEF SavedInv
    <3> QED
      BY <2>1, <3>1, <3>3 DEF SavedInv, Cuts
  <2> QED
    BY <2>2, <2>3
<1>10. ASSUME NEW from \in 1 .. MaxMessages, Compact(from) PROVE SavedInv'
  <2>1. stale' = live'
    BY <1>10 DEF Compact
  <2>2. \/ dirty' = TRUE
        \/ saved' = msgs' /\ ~started'
    BY <1>10 DEF Compact, started
  <2>3. Continues(msgs', msgs')
    BY DEF Continues
  <2> QED
    BY <2>1, <2>2, <2>3 DEF SavedInv
<1>11. ASSUME NEW t \in Numbers, NEW scope \in Scopes, RewindLook(t, scope)
      PROVE  SavedInv'
  <2>1. /\ Grows /\ UNCHANGED <<cpBound, startOf, live, stale, saved, start, dirty>>
        /\ started' = started /\ (started \/ msgs' = msgs)
    BY <1>11, LogsThatGrow DEF RewindLook, Look, started
  <2> QED
    BY <2>1, SavedMoves
<1>12. ASSUME NEW t \in Numbers, NEW side \in {"from", "upto"}, SummarizeLook(t, side)
      PROVE  SavedInv'
  <2>1. /\ Grows /\ UNCHANGED <<cpBound, startOf, live, stale, saved, start, dirty>>
        /\ started' = started /\ (started \/ msgs' = msgs)
    BY <1>12, LogsThatGrow DEF SummarizeLook, Look, started
  <2> QED
    BY <2>1, SavedMoves
<1>13. ASSUME NEW bad \in SUBSET Files, RewindCode(bad) PROVE SavedInv'
  <2>1. /\ Grows /\ UNCHANGED <<cpBound, startOf, live, stale, saved, start, dirty>>
        /\ started' = started /\ (started \/ msgs' = msgs)
    BY <1>13, LogsThatGrow DEF RewindCode, started
  <2> QED
    BY <2>1, SavedMoves
<1>14. ASSUME RewindConversation PROVE SavedInv'
  <2>1. /\ msgs' = SubSeq(msgs, 1, cmd.bound) /\ saved' = Save(msgs')
        /\ dirty' = started /\ started' = started
    BY <1>14 DEF RewindConversation, started
  <2>2. Len(msgs') > 1 => saved' = msgs'
    BY <2>1, SavedLog DEF LogTypes
  <2> QED
    BY <2>1, <2>2, SaveMaps DEF SavedInv
<1>15. ASSUME RewindNothing PROVE SavedInv'
  <2>1. /\ Grows /\ UNCHANGED <<cpBound, startOf, live, stale, saved, start, dirty>>
        /\ started' = started /\ (started \/ msgs' = msgs)
    BY <1>15, LogsThatGrow DEF RewindNothing, started
  <2> QED
    BY <2>1, SavedMoves
<1>16. ASSUME RewindUnavailable PROVE SavedInv'
  <2>1. /\ Grows /\ UNCHANGED <<cpBound, startOf, live, stale, saved, start, dirty>>
        /\ started' = started /\ (started \/ msgs' = msgs)
    BY <1>16, LogsThatGrow DEF RewindUnavailable, started
  <2> QED
    BY <2>1, SavedMoves
<1>17. ASSUME RewindFail PROVE SavedInv'
  <2>1. /\ Grows /\ UNCHANGED <<cpBound, startOf, live, stale, saved, start, dirty>>
        /\ started' = started /\ (started \/ msgs' = msgs)
    BY <1>17, LogsThatGrow DEF RewindFail, started
  <2> QED
    BY <2>1, SavedMoves
<1>18. ASSUME Summarize PROVE SavedInv'
  <2>1. saved' = Save(msgs') /\ dirty' = started /\ started' = started
    BY <1>18 DEF Summarize, started
  <2>2. Len(msgs') > 1 => saved' = msgs'
    BY <2>1, SavedLog DEF LogTypes
  <2> QED
    BY <2>1, <2>2, SaveMaps DEF SavedInv
<1>19. ASSUME SummarizeFails PROVE SavedInv'
  <2>1. /\ Grows /\ UNCHANGED <<cpBound, startOf, live, stale, saved, start, dirty>>
        /\ started' = started /\ (started \/ msgs' = msgs)
    BY <1>19, LogsThatGrow DEF SummarizeFails, started
  <2> QED
    BY <2>1, SavedMoves
<1>20. ASSUME NEW clean \in BOOLEAN, Resume(clean) PROVE SavedInv'
  <2>1. saved' = msgs' /\ ~started'
    BY <1>20 DEF Resume, started
  <2> QED
    BY <2>1, SaveMaps DEF SavedInv
<1>21. CASE UNCHANGED vars
  <2>1. /\ Grows /\ UNCHANGED <<cpBound, startOf, live, stale, saved, start, dirty>>
        /\ started' = started /\ (started \/ msgs' = msgs)
    BY <1>21, LogsThatGrow DEF vars, started
  <2> QED
    BY <2>1, SavedMoves
<1> QED
  BY <1>1, <1>2, <1>3, <1>4, <1>5, <1>6, <1>7, <1>8, <1>9, <1>10, <1>11,
     <1>12, <1>13, <1>14, <1>15, <1>16, <1>17, <1>18, <1>19, <1>20, <1>21
     DEF Next

-----------------------------------------------------------------------------
(* The plan of a code rewind.                                              *)

LEMMA PlanStays ==
  ASSUME All' = All, NEW CONSTANT f, NEW CONSTANT t
  PROVE  Holders(f, t)' = Holders(f, t) /\ Earliest(f, t)' = Earliest(f, t)
  BY PlanIn

(* The same holders make the same plan.                                    *)
LEMMA SameHolders ==
  ASSUME NEW f, NEW t, NEW u, Holders(f, t) = Holders(f, u)
  PROVE  Earliest(f, t) = Earliest(f, u)
  BY DEF Earliest

(* A list of checkpoints in which those that hold the file stay the same.  *)
LEMMA FirstStays ==
  ASSUME NEW old \in Seq(Checkpoints), NEW new \in Seq(Checkpoints), NEW f, NEW t,
         HoldersIn(new, f, t) = HoldersIn(old, f, t), HoldersIn(old, f, t) # {},
         \A i \in HoldersIn(old, f, t) :
           new[i].turn = old[i].turn /\ new[i].files[f] = old[i].files[f]
  PROVE  EarliestIn(new, f, t) = EarliestIn(old, f, t)
<1>1. PICK i \in HoldersIn(old, f, t) : \A j \in HoldersIn(old, f, t) : BeforeIn(old, i, j)
  BY FirstHolder
<1>2. EarliestIn(old, f, t) = old[i].files[f]
  BY <1>1, EarliestIsFirst
<1>3. i \in HoldersIn(new, f, t) /\ \A j \in HoldersIn(new, f, t) : BeforeIn(new, i, j)
  BY <1>1 DEF BeforeIn
<1>4. EarliestIn(new, f, t) = new[i].files[f]
  BY <1>3, EarliestIsFirst
<1> QED
  BY <1>2, <1>4

(* The checkpoint of the turn holds a file more.                           *)
LEMMA LastGains ==
  ASSUME NEW old \in Seq(Checkpoints), NEW new \in Seq(Checkpoints), NEW f, NEW t \in Nat,
         NEW n \in Nat, n > 0, DOMAIN old = 1 .. n, DOMAIN new = 1 .. n,
         \A i \in 1 .. n - 1 : new[i] = old[i],
         new[n].turn = old[n].turn, f \notin DOMAIN old[n].files,
         f \in DOMAIN new[n].files, old[n].turn >= t
  PROVE  /\ HoldersIn(new, f, t) = HoldersIn(old, f, t) \cup {n}
         /\ (\E i \in HoldersIn(old, f, t) : old[i].turn <= old[n].turn)
            => EarliestIn(new, f, t) = EarliestIn(old, f, t)
         /\ ~(\E i \in HoldersIn(old, f, t) : old[i].turn <= old[n].turn)
            => EarliestIn(new, f, t) = new[n].files[f]
<1>1. \A i \in 1 .. n : i = n \/ i \in 1 .. n - 1
  OBVIOUS
<1>2. /\ HoldersIn(new, f, t) = HoldersIn(old, f, t) \cup {n} /\ n \notin HoldersIn(old, f, t)
      /\ \A i \in HoldersIn(old, f, t) : i \in 1 .. n - 1 /\ new[i] = old[i]
  BY <1>1 DEF HoldersIn
<1>3. \A i \in 1 .. n : new[i].turn = old[i].turn /\ old[i].turn \in Nat
  <2>1. \A i \in 1 .. n : old[i] \in Checkpoints
    BY ElementOfSeq
  <2> QED
    BY <1>1, <2>1, CheckpointParts, Limits DEF Numbers
<1>4. ASSUME NEW k \in HoldersIn(old, f, t), old[k].turn <= old[n].turn
      PROVE  EarliestIn(new, f, t) = EarliestIn(old, f, t)
  <2>1. PICK i \in HoldersIn(old, f, t) : \A j \in HoldersIn(old, f, t) : BeforeIn(old, i, j)
    BY <1>4, FirstHolder
  <2>2. EarliestIn(old, f, t) = old[i].files[f] /\ i \in 1 .. n - 1 /\ k \in 1 .. n - 1
    BY <1>2, <2>1, EarliestIsFirst
  <2>3. BeforeIn(new, i, n)
    <3>1. old[i].turn <= old[k].turn
      <4>1. BeforeIn(old, i, k)
        BY <2>1
      <4>2. old[i].turn \in Nat /\ old[k].turn \in Nat
        BY <1>3, <2>2
      <4> QED
        BY <4>1, <4>2 DEF BeforeIn
    <3>2. /\ old[i].turn \in Nat /\ old[k].turn \in Nat /\ old[n].turn \in Nat
          /\ new[i].turn = old[i].turn /\ new[n].turn = old[n].turn
      BY <1>3, <2>2
    <3>3. new[i].turn <= new[n].turn /\ i <= n
      BY <1>4, <2>2, <3>1, <3>2
    <3> QED
      BY <3>2, <3>3 DEF BeforeIn
  <2>4. \A j \in HoldersIn(old, f, t) : BeforeIn(new, i, j)
    BY <1>2, <2>1 DEF BeforeIn
  <2>5. EarliestIn(new, f, t) = new[i].files[f]
    BY <1>2, <2>1, <2>3, <2>4, EarliestIsFirst
  <2> QED
    BY <1>2, <2>1, <2>2, <2>5
<1>5. ASSUME \A i \in HoldersIn(old, f, t) : ~(old[i].turn <= old[n].turn)
      PROVE  EarliestIn(new, f, t) = new[n].files[f]
  <2>1. \A j \in HoldersIn(old, f, t) : BeforeIn(new, n, j)
    BY <1>2, <1>3, <1>5 DEF BeforeIn
  <2>2. BeforeIn(new, n, n)
    BY DEF BeforeIn
  <2>3. n \in HoldersIn(new, f, t) /\ \A j \in HoldersIn(new, f, t) : BeforeIn(new, n, j)
    BY <1>2, <2>1, <2>2
  <2> QED
    BY <2>3, EarliestIsFirst
<1> QED
  BY <1>2, <1>4, <1>5

(* Begin adds a checkpoint that holds nothing.                             *)
LEMMA BeginPlans ==
  ASSUME IInv, BeginCheckpoint
  PROVE  /\ All' \in Seq(Checkpoints) /\ All \in Seq(Checkpoints)
         /\ \A i \in DOMAIN All : All'[i] = All[i]
         /\ \A i \in DOMAIN All' : i \in DOMAIN All \/ All'[i].turn = cpTurn
         /\ \A f, t : /\ HoldersIn(All', f, t) = HoldersIn(All, f, t)
                      /\ HoldersIn(All, f, t) # {} => EarliestIn(All', f, t) = EarliestIn(All, f, t)
<1>1. /\ StoreTypes /\ BoundTypes /\ NumberInv /\ CountTypes /\ TurnInv
      /\ Len(msgs) \in 1 .. MaxMessages
  BY LogIsWhole DEF IInv, Types, LogTypes
<1>2. /\ cur' \in Checkpoints /\ cur'.turn = cpTurn /\ DOMAIN cur'.files = {} /\ done' = All
  BY <1>1, BeginStores
<1>3. All \in Seq(Checkpoints) /\ Len(All) \in Nat /\ DOMAIN All = 1 .. Len(All)
  BY <1>1, AllType
<1>4. All' = Append(All, cur')
  BY <1>2, CheckpointParts DEF All
<1>5. /\ All' \in Seq(Checkpoints) /\ DOMAIN All' = 1 .. Len(All) + 1
      /\ \A i \in 1 .. Len(All) : All'[i] = All[i]
      /\ All'[Len(All) + 1] = cur'
  BY <1>2, <1>3, <1>4, AppendProperties
<1>6. DOMAIN All' = DOMAIN All \cup {Len(All) + 1}
  BY <1>3, <1>5
<1>7. ASSUME NEW f, NEW t
      PROVE  /\ HoldersIn(All', f, t) = HoldersIn(All, f, t)
             /\ HoldersIn(All, f, t) # {} => EarliestIn(All', f, t) = EarliestIn(All, f, t)
  <2>1. \A i \in HoldersIn(All, f, t) : i \in DOMAIN All
    BY DEF HoldersIn
  <2>2. HoldersIn(All', f, t) = HoldersIn(All, f, t)
    BY <1>2, <1>3, <1>5, <1>6 DEF HoldersIn
  <2> QED
    BY <1>3, <1>5, <2>1, <2>2, FirstStays
<1> QED
  BY <1>2, <1>3, <1>5, <1>6, <1>7

(* Snapshot adds a file to the checkpoint of the turn.                     *)
LEMMA PreEditPlans ==
  ASSUME IInv, NEW g \in Files, PreEdit(g)
  PROVE  /\ DOMAIN All' = DOMAIN All /\ \A i \in DOMAIN All : All'[i].turn = All[i].turn
         /\ Len(All) \in DOMAIN All /\ All[Len(All)] = cur
         /\ \A f, t : f # g \/ g \in DOMAIN cur.files \/ ~(cur.turn >= t) =>
              /\ HoldersIn(All', f, t) = HoldersIn(All, f, t)
              /\ HoldersIn(All, f, t) # {} => EarliestIn(All', f, t) = EarliestIn(All, f, t)
         /\ \A t \in Nat : g \notin DOMAIN cur.files /\ cur.turn >= t =>
              /\ HoldersIn(All', g, t) = HoldersIn(All, g, t) \cup {Len(All)}
              /\ (\E i \in HoldersIn(All, g, t) : All[i].turn <= cur.turn)
                 => EarliestIn(All', g, t) = EarliestIn(All, g, t)
              /\ ~(\E i \in HoldersIn(All, g, t) : All[i].turn <= cur.turn)
                 => EarliestIn(All', g, t) = files[g]
<1>1. StoreTypes /\ TurnInv /\ files \in Texts /\ cur # Nobody
  BY DEF IInv, Types, WorkTypes, PreEdit, TurnInv, started
<1> DEFINE n == Len(All)
<1>2. /\ All \in Seq(Checkpoints) /\ n \in Nat /\ DOMAIN All = 1 .. n
      /\ n = Len(done) + 1 /\ All[n] = cur /\ n \in DOMAIN All
      /\ \A i \in DOMAIN done : All[i] = done[i] /\ DOMAIN done = 1 .. n - 1
      /\ done \in Seq(Checkpoints) /\ Len(done) \in Nat /\ DOMAIN done = 1 .. Len(done)
      /\ n > 0
  <2>1. done \in Seq(Checkpoints) /\ Len(done) \in Nat /\ DOMAIN done = 1 .. Len(done)
    BY <1>1 DEF StoreTypes
  <2>2. All \in Seq(Checkpoints) /\ n \in Nat /\ DOMAIN All = 1 .. n
    BY <1>1, AllType
  <2>3. n = Len(done) + 1 /\ All[n] = cur /\ \A i \in DOMAIN done : All[i] = done[i]
    BY <1>1, AllType
  <2> HIDE DEF n
  <2> QED
    BY <2>1, <2>2, <2>3
<1>3. /\ cur' \in Checkpoints /\ cur'.turn = cur.turn /\ done' = done
      /\ g \in DOMAIN cur.files => cur' = cur
      /\ DOMAIN cur'.files = DOMAIN cur.files \cup {g}
      /\ \A f \in DOMAIN cur.files : cur'.files[f] = cur.files[f]
      /\ g \notin DOMAIN cur.files => cur'.files[g] = files[g]
  BY <1>1, PreEditStores
<1>4. All' = Append(done, cur')
  BY <1>3, CheckpointParts DEF All
<1>5. /\ All' \in Seq(Checkpoints) /\ DOMAIN All' = 1 .. n /\ All'[n] = cur'
      /\ \A i \in 1 .. n - 1 : All'[i] = All[i]
  <2>1. /\ All' \in Seq(Checkpoints) /\ Len(All') = Len(done) + 1
        /\ \A i \in 1 .. Len(done) : All'[i] = done[i]
        /\ All'[Len(done) + 1] = cur'
    BY <1>2, <1>3, <1>4, AppendProperties
  <2> HIDE DEF n
  <2> QED
    BY <1>2, <2>1
<1> HIDE DEF n
<1>6. \A i \in 1 .. n : i = n \/ i \in 1 .. n - 1
  BY <1>2
<1>7. \A i \in 1 .. n : All'[i].turn = All[i].turn
  BY <1>2, <1>3, <1>5, <1>6
<1>8. ASSUME NEW f, NEW t, f # g \/ g \in DOMAIN cur.files \/ ~(cur.turn >= t)
      PROVE  /\ HoldersIn(All', f, t) = HoldersIn(All, f, t)
             /\ HoldersIn(All, f, t) # {} => EarliestIn(All', f, t) = EarliestIn(All, f, t)
  <2>1. \A i \in 1 .. n : All[i].turn >= t =>
           /\ f \in DOMAIN All'[i].files <=> f \in DOMAIN All[i].files
           /\ f \in DOMAIN All[i].files => All'[i].files[f] = All[i].files[f]
    BY <1>2, <1>3, <1>5, <1>6, <1>8
  <2>2. HoldersIn(All', f, t) = HoldersIn(All, f, t)
    BY <1>2, <1>5, <1>7, <2>1 DEF HoldersIn
  <2>3. \A i \in HoldersIn(All, f, t) :
          All'[i].turn = All[i].turn /\ All'[i].files[f] = All[i].files[f]
    BY <1>2, <1>7, <2>1 DEF HoldersIn
  <2> QED
    BY <1>2, <1>5, <2>2, <2>3, FirstStays
<1>9. ASSUME NEW t \in Nat, g \notin DOMAIN cur.files, cur.turn >= t
      PROVE  /\ HoldersIn(All', g, t) = HoldersIn(All, g, t) \cup {n}
             /\ (\E i \in HoldersIn(All, g, t) : All[i].turn <= cur.turn)
                => EarliestIn(All', g, t) = EarliestIn(All, g, t)
             /\ ~(\E i \in HoldersIn(All, g, t) : All[i].turn <= cur.turn)
                => EarliestIn(All', g, t) = files[g]
  <2>1. g \in DOMAIN cur'.files /\ cur'.files[g] = files[g]
    BY <1>3, <1>9
  <2>2. All[n] = cur /\ All'[n] = cur'
    BY <1>2, <1>5
  <2> QED
    BY <1>2, <1>3, <1>5, <1>9, <2>1, <2>2, LastGains
<1> QED
  BY <1>2, <1>5, <1>7, <1>8, <1>9 DEF n

LEMMA CurBegins ==
  ASSUME IInv, BeginCheckpoint
  PROVE  cur'.turn = cpTurn /\ cpTurn \in live'
<1>1. /\ StoreTypes /\ BoundTypes /\ NumberInv /\ CountTypes /\ TurnInv
      /\ Len(msgs) \in 1 .. MaxMessages
  BY LogIsWhole DEF IInv, Types, LogTypes
<1>2. cpTurn \in live'
  BY DEF BeginCheckpoint
<1> QED
  BY <1>1, <1>2, BeginStores

LEMMA CommandTurn ==
  ASSUME IInv, RewindConversation
  PROVE  cmd.turn \in Nat
<1>1. cmd.turn \in Numbers
  BY DEF IInv, NumberInv, Types, StoreTypes, RewindConversation
<1> QED
  BY <1>1, Limits DEF Numbers

LEMMA PlanMoves ==
  ASSUME RestInv, AheadInv, TornInv, started' => started,
         UNCHANGED <<done, cur, files, live, torn, startOf, cpTurn>>
  PROVE  RecoverInv'
<1>1. All' = All
  BY DEF All
<1>2. RestInv'
  <2> SUFFICES ASSUME NEW t \in live, t <= torn, NEW f \in Files
               PROVE  Recovered(t, f)' = startOf[t].files[f]
    BY DEF RestInv
  <2>1. Recovered(t, f) = startOf[t].files[f]
    BY DEF RestInv
  <2> QED
    BY <1>1, <2>1, PlanStays DEF Recovered
<1>3. AheadInv'
  <2> SUFFICES ASSUME NEW t \in live \cup {cpTurn}, t <= torn, NEW f \in Files,
                      Holders(f, t)' # {}, \A i \in Holders(f, t)' : All'[i].turn >= cpTurn
               PROVE  Earliest(f, t)' = files[f]
    BY DEF AheadInv
  <2>1. Holders(f, t)' = Holders(f, t) /\ Earliest(f, t)' = Earliest(f, t)
    BY <1>1, PlanStays
  <2> QED
    BY <1>1, <2>1 DEF AheadInv
<1>4. TornInv'
  BY <1>1 DEF TornInv
<1> QED
  BY <1>2, <1>3, <1>4 DEF RecoverInv

LEMMA RecoveryKept == IInv /\ RecoverInv /\ [Next]_vars => RecoverInv'
<1> SUFFICES ASSUME IInv, RecoverInv, [Next]_vars PROVE RecoverInv'
  OBVIOUS
<1> USE Limits
<1> /\ RestInv /\ AheadInv /\ TornInv /\ TurnInv /\ NumberInv /\ StoreTypes
    /\ HistTypes /\ BoundTypes /\ CommandInv
  BY DEF IInv, Types, RecoverInv
<1> /\ live \subseteq Nat /\ cpTurn \in Nat /\ torn \in Int
    /\ \A t \in live : t < cpTurn
  BY DEF HistTypes, BoundTypes, NumberInv, Numbers
<1>1. ASSUME Send PROVE RecoverInv'
  <2>1. /\ UNCHANGED <<done, cur, files, live, torn, startOf, cpTurn>>
        /\ started' => started
    BY <1>1 DEF Send, started
  <2> QED
    BY <2>1, PlanMoves
<1>2. ASSUME BeginCheckpoint PROVE RecoverInv'
  <2>1. /\ UNCHANGED <<files, torn>> /\ cpTurn' = cpTurn + 1 /\ live' = live \cup {cpTurn}
        /\ startOf' = Put(startOf, cpTurn, [log |-> msgs, files |-> files, utf8 |-> utf8])
        /\ ~started
    BY <1>2 DEF BeginCheckpoint, started
  <2>2. /\ \A i \in DOMAIN All : All'[i] = All[i]
        /\ \A i \in DOMAIN All' : i \in DOMAIN All \/ All'[i].turn = cpTurn
    BY <1>2, BeginPlans
  <2>3. ASSUME NEW f, NEW t
        PROVE  /\ Holders(f, t)' = Holders(f, t) /\ Holders(f, t) \subseteq DOMAIN All
               /\ Holders(f, t) # {} => Earliest(f, t)' = Earliest(f, t)
               /\ \A i \in Holders(f, t) : All[i].turn >= t
    <3>1. /\ HoldersIn(All', f, t) = HoldersIn(All, f, t)
          /\ HoldersIn(All, f, t) # {} => EarliestIn(All', f, t) = EarliestIn(All, f, t)
      BY <1>2, BeginPlans
    <3>2. Holders(f, t) \subseteq DOMAIN All /\ \A i \in Holders(f, t) : All[i].turn >= t
      BY DEF Holders
    <3> QED
      BY <3>1, <3>2, PlanIn
  <2>4. ASSUME NEW t \in live', t <= torn', NEW f \in Files
        PROVE  Recovered(t, f)' = startOf'[t].files[f]
    <3>1. CASE t = cpTurn
      <4>1. startOf'[t].files = files
        BY <2>1, <3>1 DEF Put
      <4>2. Holders(f, t) # {} => Earliest(f, t) = files[f]
        BY <2>1, <2>3, <2>4, <3>1 DEF AheadInv
      <4> QED
        BY <2>1, <2>3, <4>1, <4>2 DEF Recovered
    <3>2. CASE t # cpTurn
      <4>1. t \in live /\ startOf'[t] = startOf[t]
        BY <2>1, <3>2 DEF Put, HistTypes
      <4>2. Recovered(t, f) = startOf[t].files[f]
        BY <2>1, <2>4, <4>1 DEF RestInv
      <4> QED
        BY <2>1, <2>3, <4>1, <4>2 DEF Recovered
    <3> QED
      BY <3>1, <3>2
  <2>5. ASSUME NEW t \in live' \cup {cpTurn'}, t <= torn', NEW f \in Files,
               Holders(f, t)' # {}, \A i \in Holders(f, t)' : All'[i].turn >= cpTurn'
        PROVE  Earliest(f, t)' = files'[f]
    <3>1. Holders(f, t) # {} /\ \A i \in Holders(f, t) : All[i].turn >= cpTurn + 1
      BY <2>1, <2>2, <2>3, <2>5
    <3>2. CASE t = cpTurn + 1
      <4>1. \A i \in DOMAIN All : All[i].turn < cpTurn
        BY <2>1, <2>5, <3>2 DEF TornInv
      <4>2. PICK i \in Holders(f, t) : TRUE
        BY <3>1
      <4>3. All[i].turn < cpTurn /\ All[i].turn >= cpTurn + 1 /\ All[i].turn \in Nat
        BY <2>3, <3>1, <4>1, AllType, Limits DEF Numbers
      <4> QED
        BY <4>3
    <3>3. CASE t # cpTurn + 1
      <4>1. t \in live \cup {cpTurn} /\ t <= torn
        BY <2>1, <2>5, <3>3
      <4>2. \A i \in Holders(f, t) : All[i].turn >= cpTurn
        BY <2>3, <3>1, AllType, Limits DEF Numbers
      <4>3. Earliest(f, t) = files[f]
        BY <3>1, <4>1, <4>2 DEF AheadInv
      <4> QED
        BY <2>1, <2>3, <3>1, <4>3
    <3> QED
      BY <3>2, <3>3
  <2>6. TornInv'
    <3>1. /\ cur'.turn = cpTurn /\ cpTurn \in live'
      BY <1>2, <2>1, CurBegins
    <3>2. ASSUME torn' >= cpTurn', NEW i \in DOMAIN All' PROVE All'[i].turn < cpTurn'
      <4>1. torn > cpTurn
        BY <2>1, <3>2
      <4>2. CASE i \in DOMAIN All
        BY <2>1, <2>2, <4>1, <4>2, AllType, Limits DEF TornInv, Numbers
      <4>3. CASE i \notin DOMAIN All
        BY <2>1, <2>2, <3>2, <4>3
      <4> QED
        BY <4>2, <4>3
    <3>3. cur'.turn = cpTurn' - 1 /\ cur'.turn \in live'
      BY <2>1, <3>1
    <3>4. torn' > cpTurn' \/ torn' = cpTurn' => torn' >= cpTurn'
      BY <2>1
    <3> QED
      BY <3>2, <3>3, <3>4 DEF TornInv
  <2> QED
    BY <2>4, <2>5, <2>6 DEF RecoverInv, RestInv, AheadInv
<1>3. ASSUME Prompt PROVE RecoverInv'
  <2>1. /\ UNCHANGED <<done, cur, files, live, torn, startOf, cpTurn>>
        /\ started' => started
    BY <1>3 DEF Prompt, started
  <2> QED
    BY <2>1, PlanMoves
<1>4. ASSUME NEW f \in Files, PreEdit(f) PROVE RecoverInv'
  <2>1. /\ UNCHANGED <<files, torn, cpTurn, live, startOf, phase>> /\ started /\ started' = started
    BY <1>4 DEF PreEdit, started
  <2>2. /\ DOMAIN All' = DOMAIN All /\ \A i \in DOMAIN All : All'[i].turn = All[i].turn
        /\ Len(All) \in DOMAIN All /\ All[Len(All)] = cur
    BY <1>4, PreEditPlans
  <2>3. cur'.turn = cur.turn /\ cur.turn \in Nat
    <3>1. cur # Nobody /\ files \in Texts
      BY <1>4 DEF PreEdit, started, TurnInv, IInv, Types, WorkTypes
    <3> QED
      BY <1>4, <3>1, PreEditStores, CurType, Limits DEF Numbers
  <2>4. ASSUME NEW h, NEW t, h # f \/ f \in DOMAIN cur.files \/ ~(cur.turn >= t)
        PROVE  /\ Holders(h, t)' = Holders(h, t) /\ Holders(h, t) \subseteq DOMAIN All
               /\ Holders(h, t) # {} => Earliest(h, t)' = Earliest(h, t)
    <3>1. /\ HoldersIn(All', h, t) = HoldersIn(All, h, t)
          /\ HoldersIn(All, h, t) # {} => EarliestIn(All', h, t) = EarliestIn(All, h, t)
      BY <1>4, <2>4, PreEditPlans
    <3>2. Holders(h, t) \subseteq DOMAIN All
      BY DEF Holders
    <3> QED
      BY <3>1, <3>2, PlanIn
  <2>5. ASSUME NEW t \in Nat, f \notin DOMAIN cur.files, cur.turn >= t
        PROVE  /\ Holders(f, t)' = Holders(f, t) \cup {Len(All)}
               /\ (\E i \in Holders(f, t) : All[i].turn <= cur.turn)
                  => Earliest(f, t)' = Earliest(f, t)
               /\ ~(\E i \in Holders(f, t) : All[i].turn <= cur.turn)
                  => Earliest(f, t)' = files[f]
    <3>1. /\ HoldersIn(All', f, t) = HoldersIn(All, f, t) \cup {Len(All)}
          /\ (\E i \in HoldersIn(All, f, t) : All[i].turn <= cur.turn)
             => EarliestIn(All', f, t) = EarliestIn(All, f, t)
          /\ ~(\E i \in HoldersIn(All, f, t) : All[i].turn <= cur.turn)
             => EarliestIn(All', f, t) = files[f]
      BY <1>4, <2>5, PreEditPlans
    <3> QED
      BY <3>1, PlanIn
  <2>6. torn >= 0 => cur.turn = cpTurn - 1 /\ cur.turn \in live
    BY <2>1 DEF TornInv
  <2>7. ASSUME NEW t \in live', t <= torn', NEW h \in Files
        PROVE  Recovered(t, h)' = startOf'[t].files[h]
    <3>1. /\ t \in live /\ t <= torn /\ t \in Nat /\ t < cpTurn
          /\ Recovered(t, h) = startOf[t].files[h]
      BY <2>1, <2>7 DEF RestInv
    <3>2. cur.turn >= t /\ cur.turn = cpTurn - 1
      BY <2>3, <2>6, <3>1
    <3>3. CASE h # f \/ f \in DOMAIN cur.files
      BY <2>1, <2>4, <3>1, <3>3 DEF Recovered
    <3>4. CASE h = f /\ f \notin DOMAIN cur.files
      <4>1. Holders(f, t)' # {}
        BY <2>5, <3>1, <3>2, <3>4
      <4>2. CASE \E i \in Holders(f, t) : All[i].turn <= cur.turn
        <5>1. Earliest(f, t)' = Earliest(f, t) /\ Holders(f, t) # {}
          BY <2>5, <3>1, <3>2, <3>4, <4>2
        <5> QED
          BY <2>1, <3>1, <3>4, <4>1, <5>1 DEF Recovered
      <4>3. CASE ~(\E i \in Holders(f, t) : All[i].turn <= cur.turn)
        <5>1. Earliest(f, t)' = files[f]
          BY <2>5, <3>1, <3>2, <3>4, <4>3
        <5>2. \A i \in Holders(f, t) : All[i].turn >= cpTurn
          <6>1. \A i \in Holders(f, t) : All[i].turn \in Nat /\ ~(All[i].turn <= cur.turn)
            BY <4>3, AllType, Limits DEF Holders, Numbers
          <6> QED
            BY <2>3, <3>2, <6>1
        <5>3. Holders(f, t) # {} => Earliest(f, t) = files[f]
          BY <3>1, <5>2 DEF AheadInv
        <5> QED
          BY <2>1, <3>1, <3>4, <4>1, <5>1, <5>3 DEF Recovered
      <4> QED
        BY <4>2, <4>3
    <3> QED
      BY <3>3, <3>4
  <2>8. ASSUME NEW t \in live' \cup {cpTurn'}, t <= torn', NEW h \in Files,
               Holders(h, t)' # {}, \A i \in Holders(h, t)' : All'[i].turn >= cpTurn'
        PROVE  Earliest(h, t)' = files'[h]
    <3>1. t \in live \cup {cpTurn} /\ t <= torn /\ t \in Nat /\ torn >= 0
      BY <2>1, <2>8
    <3>2. cur.turn = cpTurn - 1
      BY <2>6, <3>1
    <3>3. CASE h # f \/ f \in DOMAIN cur.files \/ ~(cur.turn >= t)
      <4>1. Holders(h, t) # {} /\ \A i \in Holders(h, t) : All[i].turn >= cpTurn
        BY <2>1, <2>2, <2>4, <2>8, <3>3
      <4>2. Earliest(h, t) = files[h]
        BY <3>1, <4>1 DEF AheadInv
      <4> QED
        BY <2>1, <2>4, <3>3, <4>1, <4>2
    <3>4. CASE h = f /\ f \notin DOMAIN cur.files /\ cur.turn >= t
      <4>1. Len(All) \in Holders(h, t)'
        BY <2>5, <3>1, <3>4
      <4>2. All'[Len(All)].turn >= cpTurn
        BY <2>1, <2>8, <4>1
      <4>3. All'[Len(All)].turn = cur.turn
        BY <2>2
      <4> QED
        BY <2>3, <3>2, <4>2, <4>3
    <3> QED
      BY <3>3, <3>4
  <2>9. TornInv'
    BY <2>1, <2>2, <2>3 DEF TornInv
  <2> QED
    BY <2>7, <2>8, <2>9 DEF RecoverInv, RestInv, AheadInv
<1>5. ASSUME Write PROVE RecoverInv'
  <2>1. /\ UNCHANGED <<done, cur, torn, cpTurn, live, startOf, phase>> /\ started
        /\ \A f \in Files : f # edit => files'[f] = files[f]
        /\ edit # NoFile
    BY <1>5 DEF Write, started, IInv, Types, WorkTypes, Texts
  <2>2. All' = All
    BY <2>1 DEF All
  <2>3. edit \in DOMAIN cur.files /\ cur # Nobody
    BY <2>1 DEF TurnInv
  <2>4. Len(All) \in DOMAIN All /\ All[Len(All)] = cur
    BY <2>3, AllType
  <2>5. cur.turn \in Nat
    BY <2>3, CurType, Limits DEF Numbers
  <2>6. torn >= 0 => cur.turn = cpTurn - 1
    BY <2>1 DEF TornInv
  <2>7. ASSUME NEW t \in live, t <= torn
        PROVE  Len(All) \in Holders(edit, t) /\ ~(All[Len(All)].turn >= cpTurn)
    <3>1. cur.turn = cpTurn - 1 /\ t < cpTurn /\ t \in Nat
      BY <2>6, <2>7
    <3>2. cur.turn >= t /\ ~(cur.turn >= cpTurn)
      BY <2>5, <3>1
    <3> QED
      BY <2>3, <2>4, <3>2 DEF Holders
  <2>8. ASSUME NEW t \in live', t <= torn', NEW f \in Files
        PROVE  Recovered(t, f)' = startOf'[t].files[f]
    <3>1. Recovered(t, f) = startOf[t].files[f] /\ t \in live /\ t <= torn
      BY <2>1, <2>8 DEF RestInv
    <3>2. f = edit => Holders(f, t) # {}
      BY <2>7, <3>1
    <3> QED
      BY <2>1, <2>2, <3>1, <3>2, PlanStays DEF Recovered
  <2>9. ASSUME NEW t \in live' \cup {cpTurn'}, t <= torn', NEW f \in Files,
               Holders(f, t)' # {}, \A i \in Holders(f, t)' : All'[i].turn >= cpTurn'
        PROVE  Earliest(f, t)' = files'[f]
    <3>1. /\ Holders(f, t) # {} /\ \A i \in Holders(f, t) : All[i].turn >= cpTurn
          /\ t \in live \cup {cpTurn} /\ t <= torn
      BY <2>1, <2>2, <2>9, PlanStays
    <3>2. Earliest(f, t) = files[f]
      BY <3>1 DEF AheadInv
    <3>3. CASE t \in live
      <4>1. f # edit
        BY <2>7, <3>1, <3>3
      <4> QED
        BY <2>1, <2>2, <3>2, <4>1, PlanStays
    <3>4. CASE t = cpTurn
      <4>1. \A i \in DOMAIN All : All[i].turn < cpTurn
        BY <2>1, <3>1, <3>4 DEF TornInv
      <4>2. PICK i \in Holders(f, t) : TRUE
        BY <3>1
      <4>3. All[i].turn < cpTurn /\ All[i].turn >= cpTurn /\ All[i].turn \in Nat
        BY <3>1, <4>1, <4>2, AllType, Limits DEF Holders, Numbers
      <4> QED
        BY <4>3
    <3> QED
      BY <3>1, <3>3, <3>4
  <2>10. TornInv'
    BY <2>1, <2>2 DEF TornInv, started
  <2> QED
    BY <2>8, <2>9, <2>10 DEF RecoverInv, RestInv, AheadInv
<1>6. ASSUME WriteFails PROVE RecoverInv'
  <2>1. /\ UNCHANGED <<done, cur, files, live, torn, startOf, cpTurn>>
        /\ started' => started
    BY <1>6 DEF WriteFails, started
  <2> QED
    BY <2>1, PlanMoves
<1>7. ASSUME Round PROVE RecoverInv'
  <2>1. /\ UNCHANGED <<done, cur, files, live, torn, startOf, cpTurn>>
        /\ started' => started
    BY <1>7 DEF Round, started
  <2> QED
    BY <2>1, PlanMoves
<1>8. ASSUME Answer PROVE RecoverInv'
  <2>1. /\ UNCHANGED <<done, cur, files, live, torn, startOf, cpTurn>>
        /\ started' => started
    BY <1>8 DEF Answer, started
  <2> QED
    BY <2>1, PlanMoves
<1>9. ASSUME EndTurn PROVE RecoverInv'
  <2>1. /\ UNCHANGED <<done, cur, files, live, torn, startOf, cpTurn>>
        /\ started' => started
    BY <1>9 DEF EndTurn, started
  <2> QED
    BY <2>1, PlanMoves
<1>10. ASSUME NEW from \in 1 .. MaxMessages, Compact(from) PROVE RecoverInv'
  <2>1. /\ UNCHANGED <<done, cur, files, live, torn, startOf, cpTurn>>
        /\ started' => started
    BY <1>10 DEF Compact, started
  <2> QED
    BY <2>1, PlanMoves
<1>11. ASSUME NEW t \in Numbers, NEW scope \in Scopes, RewindLook(t, scope)
      PROVE  RecoverInv'
  <2>1. /\ UNCHANGED <<done, cur, files, live, torn, startOf, cpTurn>>
        /\ started' => started
    BY <1>11 DEF RewindLook, Look, started
  <2> QED
    BY <2>1, PlanMoves
<1>12. ASSUME NEW t \in Numbers, NEW side \in {"from", "upto"}, SummarizeLook(t, side)
      PROVE  RecoverInv'
  <2>1. /\ UNCHANGED <<done, cur, files, live, torn, startOf, cpTurn>>
        /\ started' => started
    BY <1>12 DEF SummarizeLook, Look, started
  <2> QED
    BY <2>1, PlanMoves
<1>13. ASSUME NEW bad \in SUBSET Files, RewindCode(bad) PROVE RecoverInv'
  <2> DEFINE c == cmd.turn
  <2>1. /\ UNCHANGED <<done, cur, cpTurn, live, startOf, phase>>
        /\ files' = [f \in Files |-> IF f \in Touched(c) \ bad THEN Earliest(f, c) ELSE files[f]]
        /\ torn' = IF running \/ c \notin live THEN -1 ELSE IF c < torn THEN c ELSE torn
    BY <1>13 DEF RewindCode
  <2>2. All' = All /\ running' = running /\ started' = started
    BY <2>1 DEF All, running, started
  <2>3. started => running
    BY DEF started, running
  <2>4. torn' >= 0 => ~running /\ c \in live /\ torn' <= c /\ torn' <= torn /\ c \in Nat
    BY <2>1
  <2>5. ASSUME NEW t \in live', t <= torn', NEW f \in Files
        PROVE  Recovered(t, f)' = startOf'[t].files[f]
    <3>1. t \in Nat /\ t <= c /\ t <= torn /\ c \in Nat /\ t \in live
      BY <2>1, <2>4, <2>5
    <3>2. Recovered(t, f) = startOf[t].files[f]
      BY <3>1 DEF RestInv
    <3>3. f \in Touched(c) => Holders(f, t) # {}
      <4>1. \A i \in Holders(f, c) : i \in Holders(f, t)
        BY <3>1, AllType, Limits DEF Holders, Numbers
      <4> QED
        BY <4>1 DEF Touched
    <3> QED
      BY <2>1, <2>2, <3>2, <3>3, PlanStays DEF Recovered
  <2>6. ASSUME NEW t \in live' \cup {cpTurn'}, t <= torn', NEW f \in Files,
               Holders(f, t)' # {}, \A i \in Holders(f, t)' : All'[i].turn >= cpTurn'
        PROVE  Earliest(f, t)' = files'[f]
    <3>1. /\ Holders(f, t) # {} /\ \A i \in Holders(f, t) : All[i].turn >= cpTurn
          /\ t \in live \cup {cpTurn} /\ t \in Nat
      BY <2>1, <2>2, <2>6, PlanStays
    <3>2. t <= c /\ t <= torn /\ c \in Nat /\ c < cpTurn
      BY <2>1, <2>4, <2>6, <3>1
    <3>3. Earliest(f, t) = files[f]
      BY <3>1, <3>2 DEF AheadInv
    <3>4. Earliest(f, t) = Earliest(f, c)
      <4>1. \A i \in DOMAIN All : All[i].turn \in Nat
        BY AllType, Limits DEF Numbers
      <4>2. \A i \in Holders(f, t) : i \in Holders(f, c)
        BY <3>1, <3>2, <4>1 DEF Holders
      <4>3. \A i \in Holders(f, c) : i \in Holders(f, t)
        BY <3>1, <3>2, <4>1 DEF Holders
      <4>4. Holders(f, t) = Holders(f, c)
        BY <4>2, <4>3
      <4> QED
        BY <4>4, SameHolders
    <3> QED
      BY <2>1, <2>2, <3>3, <3>4, PlanStays
  <2>7. TornInv'
    <3>1. torn' = -1 \/ (~running /\ torn' <= torn /\ torn' \in Int)
      BY <2>1
    <3> QED
      BY <2>1, <2>2, <2>3, <3>1 DEF TornInv
  <2> QED
    BY <2>5, <2>6, <2>7 DEF RecoverInv, RestInv, AheadInv
<1>14. ASSUME RewindConversation PROVE RecoverInv'
  <2> DEFINE c == cmd.turn
  <2>1. /\ UNCHANGED <<done, cur, files, startOf, phase>> /\ cpTurn' = c
        /\ live' = {t \in live : t < c}
        /\ torn' = IF /\ ~running /\ c \in live /\ c <= torn
                      /\ files = startOf[c].files
                   THEN c ELSE -1
    BY <1>14 DEF RewindConversation
  <2>2. All' = All /\ started' = started
    BY <2>1 DEF All, started
  <2>3. started => running
    BY DEF started, running
  <2>4. torn' >= 0 => /\ ~running /\ c \in live /\ torn' = c /\ c <= torn /\ c \in Nat
                      /\ files = startOf[c].files
    <3>1. ~(-1 >= 0)
      OBVIOUS
    <3>2. c \in Nat
      BY <1>14, CommandTurn
    <3> QED
      BY <2>1, <3>1, <3>2
  <2>5. ASSUME NEW t \in live', t <= torn', NEW f \in Files
        PROVE  Recovered(t, f)' = startOf'[t].files[f]
    <3>1. t \in Nat /\ t <= torn /\ t \in live
      <4>1. t \in live /\ t \in Nat
        BY <2>1, <2>5
      <4>2. torn' = -1 \/ torn' \in Nat
        <5>1. c \in Nat
          BY <1>14, CommandTurn
        <5> QED
          BY <2>1, <5>1
      <4>3. torn' >= 0
        BY <2>5, <4>1, <4>2
      <4>4. torn' = c /\ c <= torn /\ c \in Nat
        BY <2>4, <4>3
      <4>5. torn \in Int
        BY Limits
      <4> QED
        BY <2>5, <4>1, <4>4, <4>5
    <3>2. Recovered(t, f) = startOf[t].files[f]
      BY <3>1 DEF RestInv
    <3> QED
      BY <2>1, <2>2, <3>2, PlanStays DEF Recovered
  <2>6. ASSUME NEW t \in live' \cup {cpTurn'}, t <= torn', NEW f \in Files,
               Holders(f, t)' # {}, \A i \in Holders(f, t)' : All'[i].turn >= cpTurn'
        PROVE  Earliest(f, t)' = files'[f]
    <3>0. c \in Nat /\ t \in Nat
      BY <1>14, <2>1, <2>6, CommandTurn
    <3>1. torn' >= 0
      <4>1. torn' = -1 \/ torn' \in Nat
        BY <2>1, <3>0
      <4> QED
        BY <2>6, <3>0, <4>1
    <3>2. c \in live /\ c \in Nat /\ t \in Nat /\ t <= c /\ Recovered(c, f) = files[f]
      <4>1. c \in live /\ torn' = c /\ c <= torn /\ files = startOf[c].files
        BY <2>4, <3>1
      <4>2. Recovered(c, f) = startOf[c].files[f]
        BY <4>1 DEF RestInv
      <4> QED
        BY <2>6, <3>0, <4>1, <4>2
    <3>3. Holders(f, t) # {} /\ \A i \in Holders(f, t) : All[i].turn >= c
      BY <2>1, <2>2, <2>6, PlanStays
    <3>4. Holders(f, t) = Holders(f, c)
      <4>1. \A i \in DOMAIN All : All[i].turn \in Nat
        BY AllType, Limits DEF Numbers
      <4>2. \A i \in Holders(f, t) : i \in Holders(f, c)
        BY <3>3 DEF Holders
      <4>3. \A i \in Holders(f, c) : i \in Holders(f, t)
        BY <3>2, <4>1 DEF Holders
      <4> QED
        BY <4>2, <4>3
    <3>5. Earliest(f, t) = Earliest(f, c)
      BY <3>4, SameHolders
    <3>6. Earliest(f, c) = files[f]
      BY <3>2, <3>3, <3>4 DEF Recovered
    <3> QED
      BY <2>1, <2>2, <3>5, <3>6, PlanStays
  <2>7. TornInv'
    <3>1. (torn' = -1 \/ (~running /\ torn' = cpTurn' /\ cpTurn' \in Nat)) /\ cpTurn' \in Nat
      BY <1>14, <2>1, <2>4, CommandTurn
    <3> QED
      BY <2>2, <2>3, <3>1 DEF TornInv
  <2> QED
    BY <2>5, <2>6, <2>7 DEF RecoverInv, RestInv, AheadInv
<1>15. ASSUME RewindNothing PROVE RecoverInv'
  <2>1. /\ UNCHANGED <<done, cur, files, live, torn, startOf, cpTurn>>
        /\ started' => started
    BY <1>15 DEF RewindNothing, started
  <2> QED
    BY <2>1, PlanMoves
<1>16. ASSUME RewindUnavailable PROVE RecoverInv'
  <2>1. /\ UNCHANGED <<done, cur, files, live, torn, startOf, cpTurn>>
        /\ started' => started
    BY <1>16 DEF RewindUnavailable, started
  <2> QED
    BY <2>1, PlanMoves
<1>17. ASSUME RewindFail PROVE RecoverInv'
  <2>1. /\ UNCHANGED <<done, cur, files, live, torn, startOf, cpTurn>>
        /\ started' => started
    BY <1>17 DEF RewindFail, started
  <2> QED
    BY <2>1, PlanMoves
<1>18. ASSUME Summarize PROVE RecoverInv'
  <2>1. /\ UNCHANGED <<done, cur, files, live, torn, startOf, cpTurn>>
        /\ started' => started
    BY <1>18 DEF Summarize, started
  <2> QED
    BY <2>1, PlanMoves
<1>19. ASSUME SummarizeFails PROVE RecoverInv'
  <2>1. /\ UNCHANGED <<done, cur, files, live, torn, startOf, cpTurn>>
        /\ started' => started
    BY <1>19 DEF SummarizeFails, started
  <2> QED
    BY <2>1, PlanMoves
<1>20. ASSUME NEW clean \in BOOLEAN, Resume(clean) PROVE RecoverInv'
  <2>1. /\ UNCHANGED <<files, live, startOf>> /\ cpTurn' = NextTurn(disk)
        /\ done' = Sorted(disk) /\ cur' = Nobody
        /\ torn' = (IF All = Sorted(disk) THEN torn ELSE -1)
        /\ ~started'
    BY <1>20 DEF Resume, started
  <2>2. All' = Sorted(disk)
    BY <2>1 DEF All
  <2>3. NextTurn(disk) \in Nat /\ \A t \in DOMAIN disk : t < NextTurn(disk)
    BY NextTurnIsPast, Limits
  <2>4. \A i \in DOMAIN All' : All'[i].turn \in DOMAIN disk /\ All'[i].turn < cpTurn'
    BY <2>1, <2>2, <2>3, SortedType DEF StoreTypes
  <2>5. ASSUME NEW t \in live', t <= torn', NEW f \in Files
        PROVE  Recovered(t, f)' = startOf'[t].files[f]
    <3>1. All' = All /\ t \in live /\ t <= torn
      BY <2>1, <2>2, <2>5
    <3>2. Recovered(t, f) = startOf[t].files[f]
      BY <3>1 DEF RestInv
    <3> QED
      BY <2>1, <3>1, <3>2, PlanStays DEF Recovered
  <2>6. ASSUME NEW f, NEW t, Holders(f, t)' # {}
        PROVE  \E i \in Holders(f, t)' : ~(All'[i].turn >= cpTurn')
    <3>1. PICK i \in Holders(f, t)' : TRUE
      BY <2>6
    <3>2. i \in DOMAIN All'
      BY <3>1, PlanIn DEF HoldersIn
    <3>3. All'[i].turn \in Nat /\ cpTurn' \in Nat
      BY <2>1, <2>3, <2>4, <3>2, Limits DEF StoreTypes, Numbers
    <3> QED
      BY <2>4, <3>2, <3>3
  <2>7. TornInv'
    BY <2>1, <2>4 DEF TornInv
  <2> QED
    BY <2>5, <2>6, <2>7 DEF RecoverInv, RestInv, AheadInv
<1>21. CASE UNCHANGED vars
  <2>1. /\ UNCHANGED <<done, cur, files, live, torn, startOf, cpTurn>>
        /\ started' => started
    BY <1>21 DEF vars, started
  <2> QED
    BY <2>1, PlanMoves
<1> QED
  BY <1>1, <1>2, <1>3, <1>4, <1>5, <1>6, <1>7, <1>8, <1>9, <1>10, <1>11,
     <1>12, <1>13, <1>14, <1>15, <1>16, <1>17, <1>18, <1>19, <1>20, <1>21
     DEF Next

-----------------------------------------------------------------------------
(* The theorems.                                                           *)

LEMMA EmptyMap == DOMAIN Empty = {} /\ \A S : Empty \in [{} -> S]
  BY DEF Empty

LEMMA InitInv == Init => IInv
<1> SUFFICES ASSUME Init PROVE IInv
  OBVIOUS
<1> USE Limits, EmptyMap DEF Init
<1>1. TurnTypes /\ BoundTypes
  BY DEF TurnTypes, BoundTypes
<1>2. LogTypes
  <2>1. Sys \in Message /\ msgs = <<Sys>>
    BY DEF Sys, Message, Kinds
  <2>2. msgs \in Seq(Message) /\ Len(msgs) = 1 /\ msgs[1] = Sys
    BY <2>1
  <2>3. \A i \in 2 .. Len(msgs) : msgs[i].kind # "system"
    BY <2>2
  <2>4. msgs \in Logs
    <3>1. Len(msgs) \in 1 .. MaxMessages
      BY <2>2
    <3> HIDE DEF Init
    <3> QED
      BY <2>2, <2>3, <3>1, InLogs
  <2> QED
    BY <2>4 DEF LogTypes
<1>3. WorkTypes
  BY DEF WorkTypes, Texts, Absent
<1>4. StoreTypes
  BY DEF StoreTypes
<1>5. cmd \in Cmds
  <2>1. cmd.op \in Ops /\ cmd.turn \in -1 .. MaxTurns - 1 /\ cmd.bound \in 0 .. MaxMessages
    BY DEF NoCmd, Ops
  <2> QED
    BY <2>1 DEF Cmds, NoCmd
<1>6. CountTypes
  BY DEF CountTypes, Events
<1>7. HistTypes
  <2>1. startOf \in [DOMAIN startOf -> Starts]
    <3>1. startOf = Empty /\ DOMAIN Empty = {} /\ Empty \in [{} -> Starts]
      BY EmptyMap
    <3> QED
      BY <3>1
  <2>2. live = {} /\ stale = {} /\ torn = MaxTurns /\ dirty \in BOOLEAN
    OBVIOUS
  <2> HIDE DEF Init
  <2>3. torn \in -1 .. MaxTurns /\ live \in SUBSET Numbers /\ stale \in SUBSET live
    BY <2>2
  <2> QED
    BY <2>1, <2>2, <2>3 DEF HistTypes
<1>8. TurnInv
  BY DEF TurnInv, started
<1>9. NumberInv
  BY DEF NumberInv, NoCmd, Events
<1>10. CommandInv
  BY DEF CommandInv, NoCmd
<1>11. OrderInv /\ MapInv /\ SavedInv /\ BoundsDurable
  BY DEF OrderInv, MapInv, SavedInv, BoundsDurable
<1> QED
  BY <1>1, <1>2, <1>3, <1>4, <1>5, <1>6, <1>7, <1>8, <1>9, <1>10, <1>11
     DEF IInv, Types

LEMMA InitRecover == Init => RecoverInv
<1> SUFFICES ASSUME Init PROVE RecoverInv
  OBVIOUS
<1>1. live = {} /\ cpTurn = 0 /\ DOMAIN All = {} /\ ~started
  BY DEF Init, All, started
<1>2. \A f, t : Holders(f, t) = {}
  BY <1>1 DEF Holders
<1> QED
  BY <1>1, <1>2 DEF RecoverInv, RestInv, AheadInv, TornInv

(* The strengthened invariant holds throughout: types, the checkpoint of   *)
(* the turn, the turn numbers, the boundaries in memory, on disk and in    *)
(* the session file, and what a code rewind would restore (checkpoint.go   *)
(* Begin, Snapshot, RestoreCode; controller.go Rewind, SummarizeFrom).     *)
THEOREM Invariance == Spec => [](IInv /\ RecoverInv)
<1>1. IInv /\ [Next]_vars => IInv'
  BY CountTyped, TurnTyped, LogTyped, WorkTyped, StoreTyped, BoundTyped, CommandTyped,
     HistTyped, TurnKept, NumbersKept, CommandsKept, OrderKept, MapKept, SavedKept,
     DurableKept DEF IInv, Types
<1>2. Init => IInv /\ RecoverInv
  BY InitInv, InitRecover
<1> QED
  BY <1>1, <1>2, RecoveryKept, PTL DEF Spec

LEMMA InvIsTyped == IInv => TypeOK
<1> SUFFICES ASSUME IInv PROVE TypeOK
  OBVIOUS
<1>1. /\ TurnTypes /\ LogTypes /\ WorkTypes /\ StoreTypes /\ BoundTypes
      /\ cmd \in Cmds /\ HistTypes /\ TurnInv
  BY DEF IInv, Types
<1>2. \A log \in Logs : IsLog(log) /\ log # <<>>
  <2> TAKE log \in Logs
  <2>1. /\ log \in Seq(Message) /\ Len(log) \in 1 .. MaxMessages
        /\ DOMAIN log = 1 .. Len(log) /\ log # <<>>
    BY LogIsWhole
  <2>2. \A i \in DOMAIN log : log[i].kind \in Kinds
    <3>1. \A i \in 1 .. Len(log) : log[i] \in Message
      BY <2>1, ElementOfSeq
    <3> QED
      BY <2>1, <3>1 DEF Message
  <2> QED
    BY <2>1, <2>2, Limits DEF IsLog
<1>3. IsLog(<<>>)
  BY Limits DEF IsLog
<1>4. IsLog(msgs) /\ msgs # <<>> /\ IsLog(saved)
  BY <1>1, <1>2, <1>3 DEF LogTypes
<1>5. \A i \in DOMAIN done : done[i] \in Checkpoints
  BY <1>1, ElementOfSeq DEF StoreTypes
<1>6. IsTurnMap(disk, Checkpoints) /\ IsTurnMap(cpBound, 1 .. MaxMessages)
  BY <1>1 DEF StoreTypes, BoundTypes, IsTurnMap
<1>7. cmd.op \in Ops
  BY <1>1 DEF Cmds
<1>8. edit # NoFile => phase = "working"
  BY <1>1 DEF TurnInv
<1> QED
  BY <1>1, <1>4, <1>5, <1>6, <1>7, <1>8
     DEF TypeOK, TurnTypes, WorkTypes, StoreTypes, BoundTypes, HistTypes, Texts

(* Every variable has its type, a writer holds a file only inside a turn   *)
(* and each checkpoint stands in the store under its own number            *)
(* (checkpoint.go persistLocked; agent.go executeOne).                     *)
THEOREM TypeCorrect == Spec => []TypeOK
  BY Invariance, InvIsTyped, PTL

(* The boundary of every turn of the timeline, in memory and on disk, cuts *)
(* the log where the turn began: after any number of rewinds, compactions, *)
(* summaries, crashes and resumes (controller.go beginCheckpoint, Rewind,  *)
(* SummarizeFrom, Resume; checkpoint.go Begin, load).                      *)
THEOREM BoundariesHold == Spec => []BoundsRight
<1>1. IInv => BoundsRight
  BY InvIsTyped DEF IInv, BoundsRight, MapInv, BoundsMap, Cuts
<1> QED
  BY Invariance, <1>1, PTL

FreshStep ==
  phase = "sent" /\ phase' = "open" => cur'.turn \notin live /\ cur'.turn \notin DOMAIN cpBound
CoveredStep ==
  files' # files /\ phase = "working" /\ cmd.op \notin {"code", "both"} =>
    edit \in DOMAIN disk[cur.turn].files
ExactStep ==
  /\ cmd.op \in {"code", "both"} /\ cmd'.op \in {"none", "conversation"}
  /\ count.restarts' = count.restarts
  /\ ~running /\ cmd.turn \in live /\ cmd.turn <= torn
  => files' = startOf[cmd.turn].files

LEMMA StepIsFresh == IInv /\ [Next]_vars => FreshStep
<1> SUFFICES ASSUME IInv, [Next]_vars PROVE FreshStep
  OBVIOUS
<1> USE DEF FreshStep
<1>1. ASSUME Send PROVE FreshStep
  BY <1>1 DEF Send
<1>2. ASSUME BeginCheckpoint PROVE FreshStep
  <2>1. /\ StoreTypes /\ BoundTypes /\ NumberInv /\ CountTypes /\ TurnInv
        /\ Len(msgs) \in 1 .. MaxMessages
    BY LogIsWhole DEF IInv, Types, LogTypes
  <2>2. cur'.turn = cpTurn
    BY <1>2, <2>1, BeginStores
  <2>3. \A t \in live \cup DOMAIN cpBound : t < cpTurn
    BY <2>1 DEF NumberInv
  <2>4. cpTurn \in Nat
    BY <2>1 DEF BoundTypes
  <2>5. ~(cpTurn < cpTurn)
    BY <2>4
  <2> QED
    BY <2>2, <2>3, <2>5
<1>3. ASSUME Prompt PROVE FreshStep
  BY <1>3 DEF Prompt
<1>4. ASSUME NEW f \in Files, PreEdit(f) PROVE FreshStep
  BY <1>4 DEF PreEdit
<1>5. ASSUME Write PROVE FreshStep
  BY <1>5 DEF Write
<1>6. ASSUME WriteFails PROVE FreshStep
  BY <1>6 DEF WriteFails
<1>7. ASSUME Round PROVE FreshStep
  BY <1>7 DEF Round
<1>8. ASSUME Answer PROVE FreshStep
  BY <1>8 DEF Answer
<1>9. ASSUME EndTurn PROVE FreshStep
  BY <1>9 DEF EndTurn, started
<1>10. ASSUME NEW from \in 1 .. MaxMessages, Compact(from) PROVE FreshStep
  BY <1>10 DEF Compact
<1>11. ASSUME NEW t \in Numbers, NEW scope \in Scopes, RewindLook(t, scope)
      PROVE  FreshStep
  BY <1>11 DEF RewindLook, Look
<1>12. ASSUME NEW t \in Numbers, NEW side \in {"from", "upto"}, SummarizeLook(t, side)
      PROVE  FreshStep
  BY <1>12 DEF SummarizeLook, Look
<1>13. ASSUME NEW bad \in SUBSET Files, RewindCode(bad) PROVE FreshStep
  BY <1>13 DEF RewindCode
<1>14. ASSUME RewindConversation PROVE FreshStep
  BY <1>14 DEF RewindConversation
<1>15. ASSUME RewindNothing PROVE FreshStep
  BY <1>15 DEF RewindNothing
<1>16. ASSUME RewindUnavailable PROVE FreshStep
  BY <1>16 DEF RewindUnavailable
<1>17. ASSUME RewindFail PROVE FreshStep
  BY <1>17 DEF RewindFail
<1>18. ASSUME Summarize PROVE FreshStep
  BY <1>18 DEF Summarize
<1>19. ASSUME SummarizeFails PROVE FreshStep
  BY <1>19 DEF SummarizeFails
<1>20. ASSUME NEW clean \in BOOLEAN, Resume(clean) PROVE FreshStep
  BY <1>20 DEF Resume
<1>21. CASE UNCHANGED vars
  BY <1>21 DEF vars
<1> HIDE DEF FreshStep
<1> QED
  BY <1>1, <1>2, <1>3, <1>4, <1>5, <1>6, <1>7, <1>8, <1>9, <1>10, <1>11,
     <1>12, <1>13, <1>14, <1>15, <1>16, <1>17, <1>18, <1>19, <1>20, <1>21
     DEF Next

LEMMA StepIsCovered == IInv /\ [Next]_vars => CoveredStep
<1> SUFFICES ASSUME IInv, [Next]_vars PROVE CoveredStep
  OBVIOUS
<1> USE DEF CoveredStep
<1>1. ASSUME Send PROVE CoveredStep
  BY <1>1 DEF Send
<1>2. ASSUME BeginCheckpoint PROVE CoveredStep
  BY <1>2 DEF BeginCheckpoint
<1>3. ASSUME Prompt PROVE CoveredStep
  BY <1>3 DEF Prompt
<1>4. ASSUME NEW f \in Files, PreEdit(f) PROVE CoveredStep
  BY <1>4 DEF PreEdit
<1>5. ASSUME Write PROVE CoveredStep
  <2>1. /\ TurnInv /\ edit # NoFile /\ started
    BY <1>5 DEF IInv, Write, started
  <2> QED
    BY <2>1 DEF TurnInv
<1>6. ASSUME WriteFails PROVE CoveredStep
  BY <1>6 DEF WriteFails
<1>7. ASSUME Round PROVE CoveredStep
  BY <1>7 DEF Round
<1>8. ASSUME Answer PROVE CoveredStep
  BY <1>8 DEF Answer
<1>9. ASSUME EndTurn PROVE CoveredStep
  BY <1>9 DEF EndTurn
<1>10. ASSUME NEW from \in 1 .. MaxMessages, Compact(from) PROVE CoveredStep
  BY <1>10 DEF Compact
<1>11. ASSUME NEW t \in Numbers, NEW scope \in Scopes, RewindLook(t, scope)
      PROVE  CoveredStep
  BY <1>11 DEF RewindLook, Look
<1>12. ASSUME NEW t \in Numbers, NEW side \in {"from", "upto"}, SummarizeLook(t, side)
      PROVE  CoveredStep
  BY <1>12 DEF SummarizeLook, Look
<1>13. ASSUME NEW bad \in SUBSET Files, RewindCode(bad) PROVE CoveredStep
  BY <1>13 DEF RewindCode
<1>14. ASSUME RewindConversation PROVE CoveredStep
  BY <1>14 DEF RewindConversation
<1>15. ASSUME RewindNothing PROVE CoveredStep
  BY <1>15 DEF RewindNothing
<1>16. ASSUME RewindUnavailable PROVE CoveredStep
  BY <1>16 DEF RewindUnavailable
<1>17. ASSUME RewindFail PROVE CoveredStep
  BY <1>17 DEF RewindFail
<1>18. ASSUME Summarize PROVE CoveredStep
  BY <1>18 DEF Summarize
<1>19. ASSUME SummarizeFails PROVE CoveredStep
  BY <1>19 DEF SummarizeFails
<1>20. ASSUME NEW clean \in BOOLEAN, Resume(clean) PROVE CoveredStep
  BY <1>20 DEF Resume
<1>21. CASE UNCHANGED vars
  BY <1>21 DEF vars
<1> HIDE DEF CoveredStep
<1> QED
  BY <1>1, <1>2, <1>3, <1>4, <1>5, <1>6, <1>7, <1>8, <1>9, <1>10, <1>11,
     <1>12, <1>13, <1>14, <1>15, <1>16, <1>17, <1>18, <1>19, <1>20, <1>21
     DEF Next

LEMMA StepIsExact == IInv /\ RecoverInv /\ [Next]_vars => ExactStep
<1> SUFFICES ASSUME IInv, RecoverInv, [Next]_vars PROVE ExactStep
  OBVIOUS
<1> USE ScopesApart DEF ExactStep, NoCmd
<1>1. ASSUME Send PROVE ExactStep
  BY <1>1 DEF Send
<1>2. ASSUME BeginCheckpoint PROVE ExactStep
  BY <1>2 DEF BeginCheckpoint
<1>3. ASSUME Prompt PROVE ExactStep
  BY <1>3 DEF Prompt
<1>4. ASSUME NEW f \in Files, PreEdit(f) PROVE ExactStep
  BY <1>4 DEF PreEdit
<1>5. ASSUME Write PROVE ExactStep
  BY <1>5 DEF Write
<1>6. ASSUME WriteFails PROVE ExactStep
  BY <1>6 DEF WriteFails
<1>7. ASSUME Round PROVE ExactStep
  BY <1>7 DEF Round
<1>8. ASSUME Answer PROVE ExactStep
  BY <1>8 DEF Answer
<1>9. ASSUME EndTurn PROVE ExactStep
  BY <1>9 DEF EndTurn
<1>10. ASSUME NEW from \in 1 .. MaxMessages, Compact(from) PROVE ExactStep
  BY <1>10 DEF Compact
<1>11. ASSUME NEW t \in Numbers, NEW scope \in Scopes, RewindLook(t, scope)
      PROVE  ExactStep
  BY <1>11 DEF RewindLook, Look
<1>12. ASSUME NEW t \in Numbers, NEW side \in {"from", "upto"}, SummarizeLook(t, side)
      PROVE  ExactStep
  BY <1>12 DEF SummarizeLook, Look
<1>13. ASSUME NEW bad \in SUBSET Files, RewindCode(bad) PROVE ExactStep
  <2> SUFFICES ASSUME cmd'.op \in {"none", "conversation"},
                      cmd.turn \in live, cmd.turn <= torn
               PROVE  files' = startOf[cmd.turn].files
    OBVIOUS
  <2> DEFINE c == cmd.turn
  <2>1. bad = {}
    BY <1>13 DEF RewindCode
  <2>2. files' = [f \in Files |-> IF f \in Touched(c) THEN Earliest(f, c) ELSE files[f]]
    BY <1>13, <2>1 DEF RewindCode
  <2>3. \A f \in Files : files'[f] = Recovered(c, f)
    BY <2>2 DEF Recovered, Touched
  <2>4. \A f \in Files : Recovered(c, f) = startOf[c].files[f]
    BY DEF RecoverInv, RestInv
  <2>5. startOf[c].files \in Texts
    BY DEF IInv, Types, HistTypes, Starts
  <2> QED
    BY <2>2, <2>3, <2>4, <2>5 DEF Texts
<1>14. ASSUME RewindConversation PROVE ExactStep
  BY <1>14 DEF RewindConversation
<1>15. ASSUME RewindNothing PROVE ExactStep
  BY <1>15 DEF RewindNothing
<1>16. ASSUME RewindUnavailable PROVE ExactStep
  BY <1>16 DEF RewindUnavailable
<1>17. ASSUME RewindFail PROVE ExactStep
  BY <1>17 DEF RewindFail
<1>18. ASSUME Summarize PROVE ExactStep
  BY <1>18 DEF Summarize
<1>19. ASSUME SummarizeFails PROVE ExactStep
  BY <1>19 DEF SummarizeFails
<1>20. ASSUME NEW clean \in BOOLEAN, Resume(clean) PROVE ExactStep
  <2>1. count.restarts' = count.restarts + 1 /\ count.restarts \in Nat
    BY <1>20 DEF Resume, Spend, IInv, Types, CountTypes, Events
  <2> QED
    BY <2>1
<1>21. CASE UNCHANGED vars
  BY <1>21 DEF vars
<1> HIDE DEF ExactStep, NoCmd
<1> QED
  BY <1>1, <1>2, <1>3, <1>4, <1>5, <1>6, <1>7, <1>8, <1>9, <1>10, <1>11,
     <1>12, <1>13, <1>14, <1>15, <1>16, <1>17, <1>18, <1>19, <1>20, <1>21
     DEF Next

(* A turn's snapshots are there when they are needed: its number is that   *)
(* of no turn of the timeline, whose snapshots and boundary it would       *)
(* overwrite, and a writer changes a file only after the checkpoint on     *)
(* disk holds its text (controller.go beginCheckpoint; agent.go            *)
(* executeOne; checkpoint.go Snapshot).                                    *)
THEOREM SnapshotsAreKept == Spec => SnapshotsHold
<1>1. IInv /\ [Next]_vars => FreshStep /\ CoveredStep
  BY StepIsFresh, StepIsCovered
<1> QED
  BY Invariance, <1>1, PTL
     DEF Spec, SnapshotsHold, NumbersAreFresh, SnapshotPrecedesWrite, FreshStep, CoveredStep

(* A code rewind to a turn of the timeline gives every file the text it had *)
(* when the turn began, within the bounds RestoreExact names: for any       *)
(* number of files, turns, rewinds, failed restores and resumes             *)
(* (checkpoint.go RestoreCode; controller.go Rewind).                       *)
THEOREM RewindsAreExact == Spec => RestoreExact
<1>1. IInv /\ RecoverInv /\ [Next]_vars => ExactStep
  BY StepIsExact
<1> QED
  BY Invariance, <1>1, PTL DEF Spec, RestoreExact, ExactStep

=============================================================================
