-------------------------- MODULE AgentTurnProofs --------------------------
(***************************************************************************)
(* Proofs that the guards of the agent loop count what they are meant to   *)
(* count, that the calls of a batch that must run alone do, that           *)
(* complete_step finds in the ledger only what did happen, and that every  *)
(* request has a result for each call: for any answers of the model, any   *)
(* limits and any number of turns, passes and crashes.                     *)
(***************************************************************************)
EXTENDS AgentTurn, SequenceTheorems, FiniteSetTheorems, WellFoundedInduction,
        NaturalsInduction, TLAPS

States == {"wait", "run", "ok", "err", "unknown", "blocked"}

(* The calls of the answer and where they stand.                           *)
CallsInv ==
  /\ \E n \in Nat : DOMAIN calls = 1..n
  /\ st \in [DOMAIN calls -> States]

(* A call has been launched only if every earlier one of its segment has,  *)
(* and every earlier one of another segment has finished.                  *)
OrderInv ==
  \A k \in DOMAIN calls : st[k] # "wait" =>
    \A i \in 1..k-1 : st[i] # "wait" /\ (SameSegment(i, k) \/ Finished(i))

(* A receipt of success is the receipt of a success of this turn.          *)
LedgerInv == \A r \in ledger : r[2] => r[1] \in worked

(* The counter of the storm breaker is the streak of the history, and its  *)
(* signature the last one there.                                           *)
HistInv == \E S : hist \in Seq(S)
LastSig == IF hist = <<>> THEN <<>> ELSE hist[Len(hist)]
StormInv ==
  /\ storm = [sig |-> LastSig, count |-> Streak]
  /\ nudged <=> Streak >= 3

(* The latch counts the passes since the prompt was last under the trigger *)
(* and stops at two; a pass under way began with the latch open.           *)
LatchInv ==
  \/ fired \in {0, 1} /\ latch = [count |-> fired, stuck |-> FALSE]
  \/ fired = 2 /\ latch = [count |-> 2, stuck |-> TRUE] /\ pc # "fold"

IInv == CallsInv /\ OrderInv /\ LedgerInv /\ HistInv /\ StormInv /\ LatchInv

-----------------------------------------------------------------------------
USE DEF turnVars, guardVars, ghostVars, PassVars, MaintainVars, ExecStep

(* The streak of a history that grows by one round.                        *)
StreakOf(h) ==
  Cardinality({m \in 1..Len(h) : \A i \in m..Len(h) : h[i] = h[Len(h)] /\ h[Len(h)] # <<>>})

LEMMA StreakGrows ==
  ASSUME NEW S, NEW h \in Seq(S), NEW sig \in S
  PROVE  /\ StreakOf(h) \in Nat
         /\ StreakOf(Append(h, sig)) =
              IF sig = <<>> THEN 0
              ELSE IF h # <<>> /\ h[Len(h)] = sig THEN StreakOf(h) + 1 ELSE 1
<1> DEFINE n == Len(h)
           g == Append(h, sig)
           Run(f, l) == {m \in 1..l : \A i \in m..l : f[i] = f[l] /\ f[l] # <<>>}
<1>1. /\ n \in Nat /\ Len(g) = n + 1 /\ g[n + 1] = sig
      /\ \A i \in 1..n : g[i] = h[i]
  BY AppendProperties, LenProperties
<1>2. /\ StreakOf(h) = Cardinality(Run(h, n))
      /\ StreakOf(g) = Cardinality(Run(g, n + 1))
  BY <1>1 DEF StreakOf
<1>3. IsFiniteSet(Run(h, n)) /\ n + 1 \notin Run(h, n)
  <2>1. IsFiniteSet(1..n)
    BY <1>1, FS_Interval
  <2> QED
    BY <1>1, <2>1, FS_Subset
<1>4. Cardinality(Run(h, n)) \in Nat
  BY <1>3, FS_CardinalityType
<1>5. CASE sig = <<>>
  <2>1. Run(g, n + 1) = {}
    BY <1>1, <1>5
  <2> QED
    BY <1>2, <1>4, <1>5, <2>1, FS_EmptySet
<1>6. CASE sig # <<>> /\ h # <<>> /\ h[n] = sig
  <2>1. n \in 1..n
    BY <1>1, <1>6, EmptySeq
  <2>2. Run(g, n + 1) = Run(h, n) \cup {n + 1}
    <3>1. ASSUME NEW m \in 1..n
          PROVE  m \in Run(g, n + 1) <=> m \in Run(h, n)
      <4>1. m..n + 1 = m..n \cup {n + 1} /\ m..n \subseteq 1..n
        BY <1>1
      <4> QED
        BY <1>1, <1>6, <4>1
    <3>2. n + 1 \in Run(g, n + 1)
      <4>1. n + 1..n + 1 = {n + 1} /\ n + 1 \in 1..n + 1
        BY <1>1
      <4> QED
        BY <1>1, <1>6, <4>1
    <3>3. 1..n + 1 = 1..n \cup {n + 1}
      BY <1>1
    <3> QED
      BY <3>1, <3>2, <3>3
  <2> QED
    BY <1>2, <1>3, <1>4, <1>6, <2>2, FS_AddElement
<1>7. CASE sig # <<>> /\ ~(h # <<>> /\ h[n] = sig)
  <2>1. n # 0 => n \in 1..n /\ h[n] # sig
    <3>1. h = <<>> <=> n = 0
      BY <1>1, EmptySeq
    <3> QED
      BY <1>1, <1>7, <3>1
  <2>2. Run(g, n + 1) = {n + 1}
    <3>1. n + 1 \in Run(g, n + 1)
      <4>1. n + 1..n + 1 = {n + 1} /\ n + 1 \in 1..n + 1
        BY <1>1
      <4> QED
        BY <1>1, <1>7, <4>1
    <3>2. ASSUME NEW m \in 1..n PROVE m \notin Run(g, n + 1)
      <4>1. n \in 1..n /\ n \in m..n + 1 /\ h[n] # sig
        BY <1>1, <2>1
      <4> QED
        BY <1>1, <4>1
    <3>3. 1..n + 1 = 1..n \cup {n + 1}
      BY <1>1
    <3> QED
      BY <3>1, <3>2, <3>3
  <2> QED
    BY <1>2, <1>4, <1>7, <2>2, FS_Singleton
<1> QED
  BY <1>2, <1>4, <1>5, <1>6, <1>7

LEMMA NoStreak == StreakOf(<<>>) = 0
<1>1. Len(<<>>) = 0
  OBVIOUS
<1>2. 1..0 = {}
  OBVIOUS
<1> DEFINE Run == {m \in 1..Len(<<>>) : \A i \in m..Len(<<>>) :
                     <<>>[i] = <<>>[Len(<<>>)] /\ <<>>[Len(<<>>)] # <<>>}
<1>3. Run = {}
  BY <1>1, <1>2
<1>4. StreakOf(<<>>) = Cardinality(Run)
  BY DEF StreakOf
<1> QED
  BY <1>3, <1>4, FS_EmptySet

LEMMA StormSame ==
  HistInv /\ StormInv /\ UNCHANGED <<hist, storm, nudged>> => (HistInv /\ StormInv)'
  BY DEF HistInv, StormInv, LastSig, Streak

LEMMA StreakIs == Streak = StreakOf(hist)
  BY DEF Streak, StreakOf

(* A pass that ends counts, and there is room for it.                      *)
LEMMA Latching ==
  /\ Latched(1) = [count |-> 1, stuck |-> FALSE]
  /\ Latched(2) = [count |-> 2, stuck |-> TRUE]
<1>1. (1 >= 2) = FALSE /\ (2 >= 2) = TRUE
  OBVIOUS
<1> QED
  BY <1>1 DEF Latched

LEMMA PassCounts == LatchInv /\ ~latch.stuck /\ PassDone => LatchInv'
<1> SUFFICES ASSUME LatchInv, ~latch.stuck, PassDone PROVE LatchInv'
  OBVIOUS
<1>1. fired \in {0, 1} /\ latch.count = fired
  BY DEF LatchInv
<1>2. fired' = fired + 1 /\ latch' = Latched(fired + 1) /\ pc' \in {"end", "stream"}
  BY <1>1 DEF PassDone, NextRound
<1>3. CASE fired = 0
  BY <1>2, <1>3, Latching DEF LatchInv
<1>4. CASE fired = 1
  BY <1>2, <1>4, Latching DEF LatchInv
<1> QED
  BY <1>1, <1>3, <1>4


LEMMA StepCalls == IInv /\ [Next]_vars => CallsInv'
<1> SUFFICES ASSUME IInv, [Next]_vars PROVE CallsInv'
  OBVIOUS
<1> USE DEF States
<1> CallsInv
  BY DEF IInv
<1> USE DEF CallsInv
<1>1. ASSUME StartTurn PROVE CallsInv'
  BY <1>1 DEF StartTurn, ResetLedger, Spend
<1>2. ASSUME StreamFails PROVE CallsInv'
  BY <1>2 DEF StreamFails
<1>3. ASSUME Collect PROVE CallsInv'
  BY <1>3 DEF Collect
<1>4. ASSUME AppendResult PROVE CallsInv'
  <2>1. CASE nth + 1 = Len(calls)
    <3>1. calls' = <<>> /\ st' = <<>>
      BY <1>4, <2>1 DEF AppendResult
    <3>2. DOMAIN calls' = 1..0 /\ 1..0 = {} /\ DOMAIN st' = {}
      BY <3>1
    <3> QED
      BY <3>1, <3>2
  <2>2. CASE nth + 1 # Len(calls)
    BY <1>4, <2>2 DEF AppendResult
  <2> QED
    BY <2>1, <2>2
<1>5. ASSUME NEW batch \in Batches, NEW u \in Usages, Answer(batch, u)
      PROVE  CallsInv'
  <2>1. Len(batch) \in Nat /\ DOMAIN batch = 1..Len(batch)
    BY BatchesAssumption
  <2>2. DOMAIN calls' = DOMAIN batch
    BY <1>5 DEF Answer, CallsOf
  <2>3. st' = [k \in DOMAIN calls' |-> "wait"]
    BY <1>5, <2>2 DEF Answer
  <2> QED
    BY <2>1, <2>2, <2>3
<1>6. ASSUME NEW k \in DOMAIN calls, Launch(k) PROVE CallsInv'
  BY <1>6 DEF Launch, Busy
<1>7. ASSUME NEW k \in DOMAIN calls, Refuse(k) PROVE CallsInv'
  BY <1>7 DEF Refuse
<1>8. ASSUME NEW k \in DOMAIN calls, NEW ok \in BOOLEAN, Execute(k, ok)
      PROVE  CallsInv'
  BY <1>8 DEF Execute
<1>9. ASSUME Maintain PROVE CallsInv'
  BY <1>9 DEF Maintain
<1>10. ASSUME Fold PROVE CallsInv'
  BY <1>10 DEF Fold
<1>11. ASSUME FoldFails PROVE CallsInv'
  BY <1>11 DEF FoldFails, NextRound
<1>12. ASSUME EndTurn PROVE CallsInv'
  BY <1>12 DEF EndTurn
<1>13. ASSUME PassStarts PROVE CallsInv'
  BY <1>13 DEF PassStarts, Spend
<1>14. ASSUME PassReplaces PROVE CallsInv'
  BY <1>14 DEF PassReplaces
<1>15. ASSUME PassFails PROVE CallsInv'
  BY <1>15 DEF PassFails
<1>16. ASSUME PassSaves PROVE CallsInv'
  BY <1>16 DEF PassSaves
<1>17. ASSUME Crash PROVE CallsInv'
  BY <1>17 DEF Crash, Spend
<1>18. CASE UNCHANGED vars
  BY <1>18 DEF vars
<1> QED
  BY <1>1, <1>2, <1>3, <1>4, <1>5, <1>6, <1>7, <1>8, <1>9, <1>10, <1>11,
     <1>12, <1>13, <1>14, <1>15, <1>16, <1>17, <1>18
     DEF Next

LEMMA StepOrder == IInv /\ [Next]_vars => OrderInv'
<1> SUFFICES ASSUME IInv, [Next]_vars PROVE OrderInv'
  OBVIOUS
<1> USE DEF Finished, SameSegment, Parallelisable
<1> CallsInv /\ OrderInv
  BY DEF IInv
<1> \A k \in DOMAIN calls : \A i \in 1..k-1 : i \in DOMAIN calls /\ i # k
  BY DEF CallsInv
<1> USE DEF OrderInv
<1>1. ASSUME StartTurn PROVE OrderInv'
  BY <1>1 DEF StartTurn, ResetLedger, Spend
<1>2. ASSUME StreamFails PROVE OrderInv'
  BY <1>2 DEF StreamFails
<1>3. ASSUME Collect PROVE OrderInv'
  BY <1>3 DEF Collect
<1>4. ASSUME AppendResult PROVE OrderInv'
  BY <1>4 DEF AppendResult
<1>5. ASSUME NEW batch \in Batches, NEW u \in Usages, Answer(batch, u)
      PROVE  OrderInv'
  <2>1. DOMAIN calls' = DOMAIN batch
    BY <1>5 DEF Answer, CallsOf
  <2>2. \A k \in DOMAIN calls' : st'[k] = "wait"
    BY <1>5, <2>1 DEF Answer
  <2> QED
    BY <2>2
<1>6. ASSUME NEW k \in DOMAIN calls, Launch(k) PROVE OrderInv'
  BY <1>6 DEF Launch, Busy
<1>7. ASSUME NEW k \in DOMAIN calls, Refuse(k) PROVE OrderInv'
  BY <1>7 DEF Refuse
<1>8. ASSUME NEW k \in DOMAIN calls, NEW ok \in BOOLEAN, Execute(k, ok)
      PROVE  OrderInv'
  BY <1>8 DEF Execute
<1>9. ASSUME Maintain PROVE OrderInv'
  BY <1>9 DEF Maintain
<1>10. ASSUME Fold PROVE OrderInv'
  BY <1>10 DEF Fold
<1>11. ASSUME FoldFails PROVE OrderInv'
  BY <1>11 DEF FoldFails, NextRound
<1>12. ASSUME EndTurn PROVE OrderInv'
  BY <1>12 DEF EndTurn
<1>13. ASSUME PassStarts PROVE OrderInv'
  BY <1>13 DEF PassStarts, Spend
<1>14. ASSUME PassReplaces PROVE OrderInv'
  BY <1>14 DEF PassReplaces
<1>15. ASSUME PassFails PROVE OrderInv'
  BY <1>15 DEF PassFails
<1>16. ASSUME PassSaves PROVE OrderInv'
  BY <1>16 DEF PassSaves
<1>17. ASSUME Crash PROVE OrderInv'
  BY <1>17 DEF Crash, Spend
<1>18. CASE UNCHANGED vars
  BY <1>18 DEF vars
<1> QED
  BY <1>1, <1>2, <1>3, <1>4, <1>5, <1>6, <1>7, <1>8, <1>9, <1>10, <1>11,
     <1>12, <1>13, <1>14, <1>15, <1>16, <1>17, <1>18
     DEF Next

LEMMA StepLedger == IInv /\ [Next]_vars => LedgerInv'
<1> SUFFICES ASSUME IInv, [Next]_vars PROVE LedgerInv'
  OBVIOUS
<1> LedgerInv
  BY DEF IInv
<1> USE DEF LedgerInv
<1>1. ASSUME StartTurn PROVE LedgerInv'
  BY <1>1 DEF StartTurn, ResetLedger, Spend
<1>2. ASSUME StreamFails PROVE LedgerInv'
  BY <1>2 DEF StreamFails
<1>3. ASSUME Collect PROVE LedgerInv'
  BY <1>3 DEF Collect
<1>4. ASSUME AppendResult PROVE LedgerInv'
  BY <1>4 DEF AppendResult
<1>5. ASSUME NEW batch \in Batches, NEW u \in Usages, Answer(batch, u)
      PROVE  LedgerInv'
  BY <1>5 DEF Answer
<1>6. ASSUME NEW k \in DOMAIN calls, Launch(k) PROVE LedgerInv'
  BY <1>6 DEF Launch, Busy
<1>7. ASSUME NEW k \in DOMAIN calls, Refuse(k) PROVE LedgerInv'
  BY <1>7 DEF Refuse
<1>8. ASSUME NEW k \in DOMAIN calls, NEW ok \in BOOLEAN, Execute(k, ok)
      PROVE  LedgerInv'
  BY <1>8 DEF Execute
<1>9. ASSUME Maintain PROVE LedgerInv'
  BY <1>9 DEF Maintain
<1>10. ASSUME Fold PROVE LedgerInv'
  BY <1>10 DEF Fold
<1>11. ASSUME FoldFails PROVE LedgerInv'
  BY <1>11 DEF FoldFails, NextRound
<1>12. ASSUME EndTurn PROVE LedgerInv'
  BY <1>12 DEF EndTurn
<1>13. ASSUME PassStarts PROVE LedgerInv'
  BY <1>13 DEF PassStarts, Spend
<1>14. ASSUME PassReplaces PROVE LedgerInv'
  BY <1>14 DEF PassReplaces
<1>15. ASSUME PassFails PROVE LedgerInv'
  BY <1>15 DEF PassFails
<1>16. ASSUME PassSaves PROVE LedgerInv'
  BY <1>16 DEF PassSaves
<1>17. ASSUME Crash PROVE LedgerInv'
  BY <1>17 DEF Crash, Spend
<1>18. CASE UNCHANGED vars
  BY <1>18 DEF vars
<1> HIDE DEF LedgerInv
<1> QED
  BY <1>1, <1>2, <1>3, <1>4, <1>5, <1>6, <1>7, <1>8, <1>9, <1>10, <1>11,
     <1>12, <1>13, <1>14, <1>15, <1>16, <1>17, <1>18
     DEF Next

LEMMA StepStorm == IInv /\ [Next]_vars => (HistInv /\ StormInv)'
<1> SUFFICES ASSUME IInv, [Next]_vars PROVE (HistInv /\ StormInv)'
  OBVIOUS
<1> HistInv /\ StormInv
  BY DEF IInv
<1>1. ASSUME StartTurn PROVE (HistInv /\ StormInv)'
  BY <1>1, StormSame DEF StartTurn, ResetLedger, Spend
<1>2. ASSUME StreamFails PROVE (HistInv /\ StormInv)'
  BY <1>2, StormSame DEF StreamFails
<1>3. ASSUME Collect PROVE (HistInv /\ StormInv)'
  <2>1. PICK S : hist \in Seq(S)
    BY DEF HistInv
  <2> DEFINE T == S \cup {Signature}
  <2>2. hist \in Seq(T) /\ Signature \in T
    BY <2>1, SeqMonotonic
  <2>3. hist' = Append(hist, Signature)
    BY <1>3 DEF Collect
  <2>4. /\ hist' \in Seq(T) /\ hist' # <<>> /\ hist'[Len(hist')] = Signature
    BY <2>2, <2>3, AppendProperties, LenProperties, EmptySeq
  <2>5. StreakOf(hist) \in Nat /\ StreakOf(hist') = 
          IF Signature = <<>> THEN 0
          ELSE IF hist # <<>> /\ hist[Len(hist)] = Signature THEN StreakOf(hist) + 1 ELSE 1
    BY <2>2, <2>3, StreakGrows
  <2>6. /\ storm = [sig |-> LastSig, count |-> StreakOf(hist)]
        /\ storm' = Counted(Signature) /\ (nudged' <=> storm'.count >= 3)
    BY <1>3, StreakIs DEF Collect, StormInv, stormBreakThreshold
  <2>7. storm' = [sig |-> LastSig', count |-> StreakOf(hist')]
    <3> HIDE DEF T
    <3>1. LastSig' = Signature
      BY <2>4 DEF LastSig
    <3>2. LastSig = IF hist = <<>> THEN <<>> ELSE hist[Len(hist)]
      BY DEF LastSig
    <3>3. CASE Signature = <<>>
      BY <2>5, <2>6, <3>1, <3>3 DEF Counted, NoStorm
    <3>4. CASE Signature # <<>> /\ Signature # LastSig
      BY <2>5, <2>6, <3>1, <3>2, <3>4 DEF Counted
    <3>5. CASE Signature # <<>> /\ Signature = LastSig
      BY <2>5, <2>6, <3>1, <3>2, <3>5 DEF Counted
    <3> QED
      BY <3>3, <3>4, <3>5
  <2>8. Streak' = StreakOf(hist')
    BY DEF Streak, StreakOf
  <2>9. HistInv'
    BY <2>4 DEF HistInv
  <2> HIDE DEF T
  <2> QED
    BY <2>6, <2>7, <2>8, <2>9 DEF StormInv
<1>4. ASSUME AppendResult PROVE (HistInv /\ StormInv)'
  BY <1>4, StormSame DEF AppendResult
<1>5. ASSUME NEW batch \in Batches, NEW u \in Usages, Answer(batch, u)
      PROVE  (HistInv /\ StormInv)'
  BY <1>5, StormSame DEF Answer
<1>6. ASSUME NEW k \in DOMAIN calls, Launch(k) PROVE (HistInv /\ StormInv)'
  BY <1>6, StormSame DEF Launch, Busy
<1>7. ASSUME NEW k \in DOMAIN calls, Refuse(k) PROVE (HistInv /\ StormInv)'
  BY <1>7, StormSame DEF Refuse
<1>8. ASSUME NEW k \in DOMAIN calls, NEW ok \in BOOLEAN, Execute(k, ok)
      PROVE  (HistInv /\ StormInv)'
  BY <1>8, StormSame DEF Execute
<1>9. ASSUME Maintain PROVE (HistInv /\ StormInv)'
  BY <1>9, StormSame DEF Maintain
<1>10. ASSUME Fold PROVE (HistInv /\ StormInv)'
  BY <1>10, StormSame DEF Fold
<1>11. ASSUME FoldFails PROVE (HistInv /\ StormInv)'
  BY <1>11, StormSame DEF FoldFails, NextRound
<1>12. ASSUME EndTurn PROVE (HistInv /\ StormInv)'
  BY <1>12, StormSame DEF EndTurn
<1>13. ASSUME PassStarts PROVE (HistInv /\ StormInv)'
  BY <1>13, StormSame DEF PassStarts, Spend
<1>14. ASSUME PassReplaces PROVE (HistInv /\ StormInv)'
  BY <1>14, StormSame DEF PassReplaces
<1>15. ASSUME PassFails PROVE (HistInv /\ StormInv)'
  BY <1>15, StormSame DEF PassFails
<1>16. ASSUME PassSaves PROVE (HistInv /\ StormInv)'
  BY <1>16, StormSame DEF PassSaves
<1>17. ASSUME Crash PROVE (HistInv /\ StormInv)'
  <2>1. hist' = <<>> /\ storm' = NoStorm /\ nudged' = FALSE
    BY <1>17 DEF Crash
  <2>2. Streak' = 0
    BY <2>1, NoStreak DEF Streak, StreakOf
  <2>3. hist' \in Seq({})
    BY <2>1, EmptySeq
  <2>4. nudged' <=> Streak' >= 3
    BY <2>1, <2>2
  <2>5. storm' = [sig |-> LastSig', count |-> Streak']
    BY <2>1, <2>2 DEF LastSig, NoStorm
  <2> QED
    BY <2>3, <2>4, <2>5 DEF HistInv, StormInv
<1>18. CASE UNCHANGED vars
  BY <1>18, StormSame DEF vars
<1> QED
  BY <1>1, <1>2, <1>3, <1>4, <1>5, <1>6, <1>7, <1>8, <1>9, <1>10, <1>11,
     <1>12, <1>13, <1>14, <1>15, <1>16, <1>17, <1>18
     DEF Next

LEMMA StepLatch == IInv /\ [Next]_vars => LatchInv'
<1> SUFFICES ASSUME IInv, [Next]_vars PROVE LatchInv'
  OBVIOUS
<1> USE DEF LatchInv
<1> LatchInv
  BY DEF IInv
<1>1. ASSUME StartTurn PROVE LatchInv'
  BY <1>1 DEF StartTurn, ResetLedger, Spend
<1>2. ASSUME StreamFails PROVE LatchInv'
  BY <1>2 DEF StreamFails
<1>3. ASSUME Collect PROVE LatchInv'
  BY <1>3 DEF Collect
<1>4. ASSUME AppendResult PROVE LatchInv'
  BY <1>4 DEF AppendResult
<1>5. ASSUME NEW batch \in Batches, NEW u \in Usages, Answer(batch, u)
      PROVE  LatchInv'
  BY <1>5 DEF Answer
<1>6. ASSUME NEW k \in DOMAIN calls, Launch(k) PROVE LatchInv'
  BY <1>6 DEF Launch, Busy
<1>7. ASSUME NEW k \in DOMAIN calls, Refuse(k) PROVE LatchInv'
  BY <1>7 DEF Refuse
<1>8. ASSUME NEW k \in DOMAIN calls, NEW ok \in BOOLEAN, Execute(k, ok)
      PROVE  LatchInv'
  BY <1>8 DEF Execute
<1>9. ASSUME Maintain PROVE LatchInv'
  <2>1. CASE UNCHANGED <<latch, fired>>
    <3>1. pc' = "fold" => ~latch.stuck
      BY <1>9, <2>1 DEF Maintain, NextRound
    <3> QED
      BY <2>1, <3>1
  <2>2. CASE latch' = Clear /\ fired' = 0 /\ NextRound
    BY <2>2 DEF Clear, NextRound
  <2>3. CASE ~latch.stuck /\ PassDone
    BY <2>3, PassCounts
  <2> QED
    BY <1>9, <2>1, <2>2, <2>3 DEF Maintain
<1>10. ASSUME Fold PROVE LatchInv'
  <2>1. ~latch.stuck /\ PassDone
    BY <1>10 DEF Fold
  <2> QED
    BY <2>1, PassCounts
<1>11. ASSUME FoldFails PROVE LatchInv'
  BY <1>11 DEF FoldFails, NextRound
<1>12. ASSUME EndTurn PROVE LatchInv'
  BY <1>12 DEF EndTurn
<1>13. ASSUME PassStarts PROVE LatchInv'
  BY <1>13 DEF PassStarts, Spend
<1>14. ASSUME PassReplaces PROVE LatchInv'
  BY <1>14 DEF PassReplaces
<1>15. ASSUME PassFails PROVE LatchInv'
  BY <1>15 DEF PassFails
<1>16. ASSUME PassSaves PROVE LatchInv'
  BY <1>16 DEF PassSaves
<1>17. ASSUME Crash PROVE LatchInv'
  <2>1. latch' = Clear /\ fired' = 0 /\ pc' = "idle"
    BY <1>17 DEF Crash
  <2> QED
    BY <2>1 DEF Clear
<1>18. CASE UNCHANGED vars
  BY <1>18 DEF vars
<1> HIDE DEF LatchInv
<1> QED
  BY <1>1, <1>2, <1>3, <1>4, <1>5, <1>6, <1>7, <1>8, <1>9, <1>10, <1>11,
     <1>12, <1>13, <1>14, <1>15, <1>16, <1>17, <1>18
     DEF Next


LEMMA InitInv == Init => IInv
<1> SUFFICES ASSUME Init PROVE IInv
  OBVIOUS
<1>1. CallsInv /\ OrderInv
  <2>1. calls = <<>> /\ st = <<>>
    BY DEF Init
  <2>2. DOMAIN calls = 1..0 /\ 1..0 = {} /\ DOMAIN st = {}
    BY <2>1
  <2> QED
    BY <2>1, <2>2 DEF CallsInv, OrderInv
<1>2. HistInv /\ StormInv
  <2>1. hist = <<>> /\ storm = NoStorm /\ nudged = FALSE
    BY DEF Init
  <2>2. Streak = 0
    BY <2>1, NoStreak DEF Streak, StreakOf
  <2>3. hist \in Seq({})
    BY <2>1, EmptySeq
  <2>4. nudged <=> Streak >= 3
    BY <2>1, <2>2
  <2>5. storm = [sig |-> LastSig, count |-> Streak]
    BY <2>1, <2>2 DEF LastSig, NoStorm
  <2> QED
    BY <2>3, <2>4, <2>5 DEF HistInv, StormInv
<1>3. LedgerInv /\ LatchInv
  <2>1. ledger = {} /\ fired = 0 /\ latch = Clear /\ pc = "idle"
    BY DEF Init
  <2> QED
    BY <2>1 DEF LedgerInv, LatchInv, Clear
<1> QED
  BY <1>1, <1>2, <1>3 DEF IInv

(* The strengthened invariant holds throughout: how far a batch has been   *)
(* launched, the receipts of the turn, the storm counter with its history  *)
(* and the compaction latch (agent.go executeBatch, applyStormBreaker;     *)
(* compact.go maybeCompact).                                               *)
THEOREM Invariance == Spec => []IInv
<1>1. IInv /\ [Next]_vars => IInv'
  BY StepCalls, StepOrder, StepLedger, StepStorm, StepLatch DEF IInv
<1> QED
  BY InitInv, <1>1, PTL DEF Spec

(* The directive to change approach comes exactly when three rounds in a   *)
(* row failed the same way (agent.go, applyStormBreaker), and no more than *)
(* two automatic compactions follow each other without effect (compact.go, *)
(* compactStuck), however long the session.                                *)
THEOREM GuardsHold == Spec => []LoopGuards
<1>1. IInv => LoopGuards
  <2> SUFFICES ASSUME IInv PROVE LoopGuards
    OBVIOUS
  <2>1. NudgedOnThird
    BY DEF IInv, StormInv, NudgedOnThird
  <2>2. NoCompactionLoop
    BY DEF IInv, LatchInv, NoCompactionLoop
  <2> QED
    BY <2>1, <2>2 DEF LoopGuards
<1> QED
  BY Invariance, <1>1, PTL

(* A writer, an unknown tool or a reader of the ledger runs alone, for     *)
(* batches of any length (agent.go, partitionToolCalls and runParallel).   *)
LEMMA Alone == IInv => SerialCallsAlone
<1> SUFFICES ASSUME IInv, NEW k \in DOMAIN calls, Busy(k), calls[k].tool # "read"
             PROVE  /\ \A i \in 1..k-1 : Finished(i)
                    /\ \A i \in k+1..Len(calls) : st[i] = "wait"
  BY DEF SerialCallsAlone
<1>1. PICK n \in Nat : DOMAIN calls = 1..n
  BY DEF IInv, CallsInv
<1>2. OrderInv /\ st[k] = "run" /\ ~Parallelisable(k) /\ ~Finished(k)
  BY DEF IInv, Busy, Finished, Parallelisable
<1>3. ASSUME NEW i \in 1..k-1 PROVE Finished(i)
  <2>1. k \in 1..n /\ i # k /\ i <= k /\ k <= k
    BY <1>1, <1>3
  <2>2. ~SameSegment(i, k)
    BY <1>2, <2>1 DEF SameSegment
  <2> QED
    BY <1>2, <2>2 DEF OrderInv
<1>4. ASSUME NEW i \in k+1..Len(calls) PROVE st[i] = "wait"
  <2>1. k \in 1..i-1 /\ i # k /\ k <= i /\ k <= k /\ Len(calls) = n /\ i \in DOMAIN calls
    BY <1>1, <1>4
  <2>2. ~SameSegment(k, i)
    BY <1>2, <2>1 DEF SameSegment
  <2> QED
    BY <1>2, <2>1, <2>2 DEF OrderInv
<1> QED
  BY <1>3, <1>4

(* complete_step is accepted only on evidence of a tool that did succeed   *)
(* in this turn, and nothing runs beside it (completestep.go, agent.go).   *)
THEOREM LedgerHolds == Spec => LedgerIsTrue
<1> DEFINE Real == \A k \in DOMAIN st \cap DOMAIN st' :
                     st[k] = "run" /\ st'[k] = "ok" /\ calls[k].cites # "none" =>
                       calls[k].cites \in worked
<1>1. IInv /\ [Next]_vars => [Real]_vars
  <2> SUFFICES ASSUME IInv, [Next]_vars, NEW j \in DOMAIN st \cap DOMAIN st',
                      st[j] = "run", st'[j] = "ok", calls[j].cites # "none"
               PROVE  calls[j].cites \in worked
    OBVIOUS
  <2> CallsInv /\ LedgerInv
    BY DEF IInv
  <2>1. PICK k \in DOMAIN calls, ok \in BOOLEAN : Execute(k, ok) /\ k = j /\ ok
    <3>1. ASSUME NEW k \in DOMAIN calls, NEW ok \in BOOLEAN, Execute(k, ok)
          PROVE  k = j /\ ok
      BY <3>1 DEF Execute, CallsInv
    <3>2. ASSUME NEW k \in DOMAIN calls PROVE ~Launch(k) /\ ~Refuse(k)
      BY DEF Launch, Refuse, CallsInv
    <3>3. ASSUME NEW batch \in Batches, NEW u \in Usages PROVE ~Answer(batch, u)
      BY DEF Answer
    <3>4. ~AppendResult
      <4> SUFFICES ASSUME AppendResult PROVE FALSE
        OBVIOUS
      <4>1. CASE st' = <<>>
        <5>1. DOMAIN st' = {}
          BY <4>1
        <5> QED
          BY <5>1
      <4>2. CASE st' = st
        BY <4>2
      <4> QED
        BY <4>1, <4>2 DEF AppendResult
    <3>5. ~Crash
      <4> SUFFICES ASSUME Crash PROVE FALSE
        OBVIOUS
      <4>1. DOMAIN st' = {}
        BY DEF Crash
      <4> QED
        BY <4>1
    <3>6. st' # st
      OBVIOUS
    <3>7. ~(Maintain \/ Fold)
      BY <3>6 DEF Maintain, Fold
    <3> QED
      BY <3>1, <3>2, <3>3, <3>4, <3>5, <3>6, <3>7
      DEF Next, vars, StartTurn, StreamFails, Collect, FoldFails, EndTurn, PassStarts,
          PassReplaces, PassFails, PassSaves
  <2>2. <<calls[j].cites, TRUE>> \in ledger
    BY <2>1 DEF Execute, Accepts
  <2> QED
    BY <2>2 DEF LedgerInv
<1>2. IInv => SerialCallsAlone
  BY Alone
<1>3. Spec => []SerialCallsAlone
  BY Invariance, <1>2, PTL
<1>4. Spec => [][Real]_vars
  BY Invariance, <1>1, PTL DEF Spec
<1>5. EvidenceIsReal <=> [][Real]_vars
  BY DEF EvidenceIsReal
<1> QED
  BY <1>3, <1>4, <1>5 DEF LedgerIsTrue

-----------------------------------------------------------------------------
(* Induction over the naturals, for a property given as a set.             *)
LEMMA SetInduction ==
  ASSUME NEW T, 0 \in T, \A n \in T \cap Nat : n + 1 \in T
  PROVE  Nat \subseteq T
<1> SUFFICES ASSUME NEW x \in Nat, x \notin T PROVE FALSE
  OBVIOUS
<1> DEFINE Rest == {n \in Nat : n \notin T}
<1>1. PICK n \in Rest : \A m \in Rest : <<m, n>> \notin OpToRel(<, Nat)
  BY NatLessThanWellFounded, WFMin
<1>2. \A m \in Rest : ~(m < n)
  BY <1>1 DEF OpToRel
<1>3. n # 0 /\ n - 1 \in Nat
  OBVIOUS
<1>4. n - 1 \in T
  BY <1>2, <1>3
<1> QED
  BY <1>3, <1>4

(* A non-empty set of bounded numbers has a maximum, and Max is it.        *)
LEMMA MaxIs ==
  ASSUME NEW top \in Nat, NEW S, S \subseteq 0 .. top, S # {}
  PROVE  Max(S) \in S /\ \A y \in S : Max(S) >= y
<1> DEFINE Low == {t \in Nat : S \cap 0 .. t # {} => \E x \in S \cap 0 .. t : \A y \in S \cap 0 .. t : x >= y}
<1>1. 0 \in Low
  OBVIOUS
<1>2. ASSUME NEW t \in Low PROVE t + 1 \in Low
  <2>1. 0 .. t + 1 = 0 .. t \cup {t + 1}
    OBVIOUS
  <2>2. CASE t + 1 \in S
    <3>1. \A y \in S \cap 0 .. t + 1 : t + 1 >= y
      OBVIOUS
    <3> QED
      BY <2>2, <3>1
  <2>3. CASE t + 1 \notin S
    <3>1. S \cap 0 .. t + 1 = S \cap 0 .. t
      BY <2>1, <2>3
    <3> QED
      BY <3>1
  <2> QED
    BY <2>2, <2>3
<1>3. top \in Low
  BY <1>1, <1>2, SetInduction
<1>4. S \cap 0 .. top = S
  OBVIOUS
<1>5. \E x \in S : \A y \in S : x >= y
  BY <1>3, <1>4
<1> QED
  BY <1>5 DEF Max

LEMMA MaxUpto == ASSUME NEW k \in Nat \ {0} PROVE Max(1 .. k) = k /\ 1 .. k \ {k} = 1 .. k - 1
<1>1. 1 .. k \subseteq 0 .. k /\ k \in 1 .. k
  OBVIOUS
<1>2. Max(1 .. k) \in 1 .. k /\ Max(1 .. k) >= k
  BY <1>1, MaxIs
<1> QED
  BY <1>2

-----------------------------------------------------------------------------
(* FoldLeft and FlattenSeq are recursive functions.  Each exists, and so   *)
(* obeys its equation: prefix by prefix.                                   *)
Start == [ok |-> TRUE, n |-> 0]
FoldEq(g, msgs, S) ==
  g = [s \in SUBSET S |-> IF s = {} THEN Start ELSE Expect(g[s \ {Max(s)}], msgs[Max(s)])]
Iter(msgs) == CHOOSE g : FoldEq(g, msgs, DOMAIN msgs)

LEMMA FoldIs == \A msgs : FoldLeft(Expect, Start, msgs) = Iter(msgs)[DOMAIN msgs]
  BY DEF FoldLeft, MapThenFoldSet, Iter, FoldEq

LEMMA FoldExists == ASSUME NEW msgs, NEW n \in Nat PROVE \E g : FoldEq(g, msgs, 1 .. n)
<1> DEFINE T == {m \in Nat : \E g : FoldEq(g, msgs, 1 .. m)}
<1>1. 0 \in T
  <2> DEFINE g == [s \in SUBSET (1 .. 0) |-> Start]
  <2>1. 1 .. 0 = {}
    OBVIOUS
  <2>2. FoldEq(g, msgs, 1 .. 0)
    BY <2>1 DEF FoldEq
  <2> QED
    BY <2>2
<1>2. ASSUME NEW m \in T PROVE m + 1 \in T
  <2>1. PICK g : FoldEq(g, msgs, 1 .. m)
    BY <1>2
  <2> DEFINE G == [s \in SUBSET (1 .. m + 1) |->
                     IF m + 1 \in s THEN Expect(g[s \ {m + 1}], msgs[m + 1]) ELSE g[s]]
  <2>2. 1 .. m + 1 = 1 .. m \cup {m + 1} /\ m + 1 \notin 1 .. m
    OBVIOUS
  <2>3. \A s \in SUBSET (1 .. m) : G[s] = g[s]
    BY <2>2
  <2>4. \A s \in SUBSET (1 .. m) : g[s] = IF s = {} THEN Start ELSE Expect(g[s \ {Max(s)}], msgs[Max(s)])
    BY <2>1 DEF FoldEq
  <2>5. ASSUME NEW s \in SUBSET (1 .. m + 1)
        PROVE  G[s] = IF s = {} THEN Start ELSE Expect(G[s \ {Max(s)}], msgs[Max(s)])
    <3>1. CASE m + 1 \in s
      <4>1. s \subseteq 0 .. m + 1 /\ s # {} /\ m + 1 \in Nat
        BY <3>1
      <4>2. Max(s) \in s /\ Max(s) >= m + 1
        BY <3>1, <4>1, MaxIs
      <4>3. Max(s) = m + 1
        <5> DEFINE x == Max(s)
        <5>1. x \in 0 .. m + 1 /\ x >= m + 1
          BY <4>1, <4>2
        <5> HIDE DEF x
        <5>2. x = m + 1
          BY <4>1, <5>1
        <5> QED
          BY <5>2 DEF x
      <4>4. s \ {m + 1} \in SUBSET (1 .. m)
        BY <2>2
      <4>5. G[s] = Expect(g[s \ {m + 1}], msgs[m + 1])
        BY <3>1
      <4>6. G[s \ {m + 1}] = g[s \ {m + 1}]
        BY <2>3, <4>4
      <4> HIDE DEF G
      <4> QED
        BY <4>1, <4>3, <4>5, <4>6
    <3>2. CASE m + 1 \notin s
      <4>1. s \in SUBSET (1 .. m)
        BY <2>2, <3>2
      <4>2. s \ {Max(s)} \in SUBSET (1 .. m)
        BY <4>1
      <4>3. G[s] = g[s] /\ G[s \ {Max(s)}] = g[s \ {Max(s)}]
        BY <2>3, <4>1, <4>2
      <4> HIDE DEF G
      <4> QED
        BY <2>4, <4>1, <4>3
    <3> QED
      BY <3>1, <3>2
  <2>6. FoldEq(G, msgs, 1 .. m + 1)
    <3> DEFINE H == [s \in SUBSET (1 .. m + 1) |->
                       IF s = {} THEN Start ELSE Expect(G[s \ {Max(s)}], msgs[Max(s)])]
    <3>1. G = [s \in SUBSET (1 .. m + 1) |-> G[s]]
      OBVIOUS
    <3> HIDE DEF G
    <3>2. H = [s \in SUBSET (1 .. m + 1) |-> G[s]]
      BY <2>5
    <3> QED
      BY <3>1, <3>2 DEF FoldEq
  <2> QED
    BY <2>6
<1> HIDE DEF T
<1>3. n \in T
  BY <1>1, <1>2, SetInduction
<1> QED
  BY <1>3 DEF T

(* The fast path, message by message.                                      *)
LEMMA FoldSteps ==
  ASSUME NEW S, NEW msgs \in Seq(S)
  PROVE  \E A : /\ A[0] = Start
                /\ \A k \in 1 .. Len(msgs) : A[k] = Expect(A[k - 1], msgs[k])
                /\ FoldLeft(Expect, Start, msgs) = A[Len(msgs)]
<1> DEFINE n == Len(msgs)
           g == Iter(msgs)
           A == [k \in 0 .. n |-> g[1 .. k]]
<1>1. n \in Nat /\ DOMAIN msgs = 1 .. n
  OBVIOUS
<1>2. FoldEq(g, msgs, 1 .. n)
  BY <1>1, FoldExists DEF Iter
<1>3. \A s \in SUBSET (1 .. n) : g[s] = IF s = {} THEN Start ELSE Expect(g[s \ {Max(s)}], msgs[Max(s)])
  BY <1>2 DEF FoldEq
<1> HIDE DEF g
<1>4. A[0] = Start
  <2>1. 1 .. 0 = {} /\ 0 \in 0 .. n
    BY <1>1
  <2> QED
    BY <1>3, <2>1
<1>5. ASSUME NEW k \in 1 .. n PROVE A[k] = Expect(A[k - 1], msgs[k])
  <2>1. 1 .. k \in SUBSET (1 .. n) /\ 1 .. k # {} /\ k \in 0 .. n /\ k - 1 \in 0 .. n /\ k \in Nat \ {0}
    BY <1>1
  <2>2. Max(1 .. k) = k /\ 1 .. k \ {k} = 1 .. k - 1
    BY <2>1, MaxUpto
  <2>3. g[1 .. k] = Expect(g[1 .. k - 1], msgs[k])
    BY <1>3, <2>1, <2>2
  <2> QED
    BY <2>1, <2>3
<1>6. FoldLeft(Expect, Start, msgs) = A[n]
  <2>1. n \in 0 .. n
    BY <1>1
  <2> QED
    BY <1>1, <2>1, FoldIs DEF g
<1> QED
  BY <1>4, <1>5, <1>6

FlatEq(g, seqs, n) ==
  g = [i \in 1 .. n |-> IF i = 1 THEN seqs[i] ELSE g[i - 1] \o seqs[i]]
Flat(seqs) == CHOOSE g : FlatEq(g, seqs, Len(seqs))

LEMMA FlatIs ==
  \A seqs : FlattenSeq(seqs) = IF Len(seqs) = 0 THEN seqs ELSE Flat(seqs)[Len(seqs)]
  BY DEF FlattenSeq, Flat, FlatEq

LEMMA FlatExists == ASSUME NEW seqs, NEW n \in Nat PROVE \E g : FlatEq(g, seqs, n)
<1> DEFINE T == {m \in Nat : \E g : FlatEq(g, seqs, m)}
<1>1. 0 \in T
  <2> DEFINE g == [i \in 1 .. 0 |-> seqs]
  <2>1. 1 .. 0 = {}
    OBVIOUS
  <2>2. FlatEq(g, seqs, 0)
    BY <2>1 DEF FlatEq
  <2> QED
    BY <2>2
<1>2. ASSUME NEW m \in T PROVE m + 1 \in T
  <2>1. PICK g : FlatEq(g, seqs, m)
    BY <1>2
  <2> DEFINE At(f, i) == IF i = 1 THEN seqs[i] ELSE f[i - 1] \o seqs[i]
             G == [i \in 1 .. m + 1 |-> At(g, i)]
  <2>2. \A i \in 1 .. m : g[i] = At(g, i)
    BY <2>1 DEF FlatEq
  <2>3. \A i \in 1 .. m : G[i] = g[i]
    <3>1. \A i \in 1 .. m : i \in 1 .. m + 1
      OBVIOUS
    <3> HIDE DEF At
    <3> QED
      BY <2>2, <3>1
  <2>4. \A i \in 1 .. m + 1 : G[i] = At(G, i)
    <3>1. \A i \in 1 .. m + 1 : i # 1 => i - 1 \in 1 .. m
      OBVIOUS
    <3>2. \A i \in 1 .. m + 1 : G[i] = At(g, i)
      OBVIOUS
    <3> HIDE DEF G
    <3> QED
      BY <2>3, <3>1, <3>2
  <2>5. G = [i \in 1 .. m + 1 |-> G[i]]
    OBVIOUS
  <2> HIDE DEF G
  <2>6. FlatEq(G, seqs, m + 1)
    <3> DEFINE H == [i \in 1 .. m + 1 |-> At(G, i)]
    <3>1. H = [i \in 1 .. m + 1 |-> G[i]]
      BY <2>4
    <3>2. G = H
      BY <2>5, <3>1
    <3> QED
      BY <3>2 DEF FlatEq
  <2> QED
    BY <2>6
<1> HIDE DEF T
<1>3. n \in T
  BY <1>1, <1>2, SetInduction
<1> QED
  BY <1>3 DEF T

(* The repair, message by message.                                         *)
LEMMA FlattenSteps ==
  ASSUME NEW S, NEW seqs \in Seq(Seq(S))
  PROVE  \E A : /\ A[0] = <<>>
                /\ \A k \in 1 .. Len(seqs) : A[k] = A[k - 1] \o seqs[k]
                /\ FlattenSeq(seqs) = A[Len(seqs)]
<1> DEFINE n == Len(seqs)
           g == Flat(seqs)
           A == [k \in 0 .. n |-> IF k = 0 THEN <<>> ELSE g[k]]
<1>1. n \in Nat /\ \A k \in 1 .. n : seqs[k] \in Seq(S)
  OBVIOUS
<1>2. FlatEq(g, seqs, n)
  BY <1>1, FlatExists DEF Flat
<1>3. \A i \in 1 .. n : g[i] = IF i = 1 THEN seqs[i] ELSE g[i - 1] \o seqs[i]
  BY <1>2 DEF FlatEq
<1>4. FlattenSeq(seqs) = IF n = 0 THEN seqs ELSE g[n]
  BY FlatIs
<1> HIDE DEF g
<1>5. A[0] = <<>>
  BY <1>1
<1>6. ASSUME NEW k \in 1 .. n PROVE A[k] = A[k - 1] \o seqs[k]
  <2>1. CASE k = 1
    <3>1. 1 \in 0 .. n /\ 0 \in 0 .. n /\ seqs[1] \in Seq(S) /\ 1 \in 1 .. n
      BY <1>1, <2>1
    <3>2. <<>> \o seqs[1] = seqs[1]
      BY <3>1
    <3>3. A[1] = g[1] /\ g[1] = seqs[1]
      BY <1>3, <3>1
    <3>4. A[0] = <<>>
      BY <1>5
    <3>5. A[1] = A[0] \o seqs[1] /\ k - 1 = 0
      BY <2>1, <3>2, <3>3, <3>4
    <3> HIDE DEF A
    <3> QED
      BY <2>1, <3>5
  <2>2. CASE k # 1
    <3>1. k \in 0 .. n /\ k - 1 \in 0 .. n /\ k # 0 /\ k - 1 # 0
      BY <1>1, <2>2
    <3>2. A[k] = g[k] /\ A[k - 1] = g[k - 1]
      BY <3>1
    <3> HIDE DEF A
    <3> QED
      BY <1>3, <2>2, <3>2
  <2> QED
    BY <2>1, <2>2
<1>7. FlattenSeq(seqs) = A[n]
  <2>1. CASE n = 0
    <3>1. seqs = <<>>
      BY <2>1, EmptySeq
    <3> QED
      BY <1>4, <1>5, <2>1, <3>1
  <2>2. CASE n # 0
    <3>1. n \in 0 .. n
      BY <1>1
    <3> QED
      BY <1>4, <2>2, <3>1
  <2> QED
    BY <2>1, <2>2
<1> QED
  BY <1>5, <1>6, <1>7

-----------------------------------------------------------------------------
(* Messages, and logs whose results stand where their calls expect them.   *)
Calls == [id : Nat, serial : Nat, tool : Tools, cites : STRING, whole : BOOLEAN]
Message ==
  {m \in [role : {"system", "user", "asst", "tool"}, calls : Seq(Calls), id : Nat, of : Nat] :
     m.calls # <<>> => IsCaller(m)}

Covers(msgs, i, j) == IsCaller(msgs[i]) /\ j <= i + Len(msgs[i].calls)

(* Of the first k messages, each call has its place for a result right     *)
(* behind its caller and each result has such a caller; the last p places  *)
(* of the last caller lie behind message k.                                *)
Framed(msgs, k, p) ==
  /\ \A i \in 1 .. k : IsCaller(msgs[i]) =>
       /\ i + Len(msgs[i].calls) <= k + p
       /\ \A j \in i + 1 .. k : Covers(msgs, i, j) => IsTool(msgs[j])
  /\ \A j \in 1 .. k : IsTool(msgs[j]) => \E i \in 1 .. j - 1 : Covers(msgs, i, j)
  /\ p > 0 => \E i \in 1 .. k : Covers(msgs, i, k + p)

LEMMA MessageParts ==
  ASSUME NEW m \in Message
  PROVE  /\ Len(m.calls) \in Nat /\ m.calls \in Seq(Calls)
         /\ ~IsCaller(m) => m.calls = <<>> /\ Len(m.calls) = 0
         /\ IsTool(m) => ~IsCaller(m)
  BY DEF Message, IsCaller, IsTool

(* A message more: a result exactly when one is pending.                   *)
LEMMA FrameStep ==
  ASSUME NEW msgs, NEW k \in Nat, NEW p \in Nat, \A i \in 1 .. k + 1 : msgs[i] \in Message,
         Framed(msgs, k, p), (p > 0) <=> IsTool(msgs[k + 1])
  PROVE  /\ IsTool(msgs[k + 1]) => Framed(msgs, k + 1, p - 1)
         /\ ~IsTool(msgs[k + 1]) => Framed(msgs, k + 1, Len(msgs[k + 1].calls))
<1> DEFINE n(i) == Len(msgs[i].calls)
<1>1. \A i \in 1 .. k + 1 : /\ n(i) \in Nat
                            /\ ~IsCaller(msgs[i]) => n(i) = 0
                            /\ IsTool(msgs[i]) => ~IsCaller(msgs[i])
  BY MessageParts
<1>2. /\ \A i \in 1 .. k : IsCaller(msgs[i]) =>
           /\ i + n(i) <= k + p
           /\ \A j \in i + 1 .. k : j <= i + n(i) => IsTool(msgs[j])
      /\ \A j \in 1 .. k : IsTool(msgs[j]) =>
           \E i \in 1 .. j - 1 : IsCaller(msgs[i]) /\ j <= i + n(i)
      /\ p > 0 => \E i \in 1 .. k : IsCaller(msgs[i]) /\ k + p <= i + n(i)
  BY DEF Framed, Covers
<1>3. 1 .. k + 1 = 1 .. k \cup {k + 1}
  OBVIOUS
<1>4. CASE IsTool(msgs[k + 1])
  <2>1. PICK i0 \in 1 .. k : IsCaller(msgs[i0]) /\ k + p <= i0 + n(i0)
    BY <1>2, <1>4
  <2>2. n(i0) \in Nat /\ p - 1 \in Nat /\ ~IsCaller(msgs[k + 1])
    BY <1>1, <1>3, <1>4
  <2>3. \A i \in 1 .. k + 1 : IsCaller(msgs[i]) =>
          /\ i + n(i) <= (k + 1) + (p - 1)
          /\ \A j \in i + 1 .. k + 1 : j <= i + n(i) => IsTool(msgs[j])
    <3> SUFFICES ASSUME NEW i \in 1 .. k, IsCaller(msgs[i])
                 PROVE  /\ i + n(i) <= (k + 1) + (p - 1)
                        /\ \A j \in i + 1 .. k + 1 : j <= i + n(i) => IsTool(msgs[j])
      BY <1>3, <2>2
    <3>1. i + n(i) <= k + p /\ n(i) \in Nat
      BY <1>1, <1>2, <1>3
    <3>2. ASSUME NEW j \in i + 1 .. k + 1, j <= i + n(i) PROVE IsTool(msgs[j])
      <4>1. j \in i + 1 .. k \/ j = k + 1
        OBVIOUS
      <4> QED
        BY <1>2, <1>4, <3>2, <4>1
    <3> QED
      BY <3>1, <3>2
  <2>4. \A j \in 1 .. k + 1 : IsTool(msgs[j]) =>
          \E i \in 1 .. j - 1 : IsCaller(msgs[i]) /\ j <= i + n(i)
    <3>1. i0 \in 1 .. (k + 1) - 1 /\ k + 1 <= i0 + n(i0)
      BY <2>1, <2>2
    <3> QED
      BY <1>2, <1>3, <2>1, <3>1
  <2>5. p - 1 > 0 => \E i \in 1 .. k + 1 : IsCaller(msgs[i]) /\ (k + 1) + (p - 1) <= i + n(i)
    <3>1. (k + 1) + (p - 1) <= i0 + n(i0)
      BY <2>1, <2>2
    <3> QED
      BY <1>3, <2>1, <3>1
  <2>6. Framed(msgs, k + 1, p - 1)
    BY <2>3, <2>4, <2>5 DEF Framed, Covers
  <2> QED
    BY <1>4, <2>6
<1>5. CASE ~IsTool(msgs[k + 1])
  <2>1. p = 0 /\ n(k + 1) \in Nat
    BY <1>1, <1>3, <1>5
  <2>2. \A i \in 1 .. k + 1 : IsCaller(msgs[i]) =>
          /\ i + n(i) <= (k + 1) + n(k + 1)
          /\ \A j \in i + 1 .. k + 1 : j <= i + n(i) => IsTool(msgs[j])
    <3>1. ASSUME NEW i \in 1 .. k, IsCaller(msgs[i])
          PROVE  /\ i + n(i) <= (k + 1) + n(k + 1)
                 /\ \A j \in i + 1 .. k + 1 : j <= i + n(i) => IsTool(msgs[j])
      <4>1. n(i) \in Nat /\ i + n(i) <= k
        BY <1>1, <1>2, <1>3, <2>1, <3>1
      <4>2. ASSUME NEW j \in i + 1 .. k + 1, j <= i + n(i) PROVE IsTool(msgs[j])
        <5>1. j \in i + 1 .. k
          BY <4>1, <4>2
        <5> QED
          BY <1>2, <3>1, <4>2, <5>1
      <4> HIDE DEF n
      <4>3. i + n(i) <= (k + 1) + n(k + 1)
        BY <2>1, <4>1
      <4> QED
        BY <4>2, <4>3
    <3>2. /\ (k + 1) + n(k + 1) <= (k + 1) + n(k + 1)
          /\ \A j \in (k + 1) + 1 .. k + 1 : j <= (k + 1) + n(k + 1) => IsTool(msgs[j])
      <4>1. (k + 1) + 1 .. k + 1 = {}
        OBVIOUS
      <4> HIDE DEF n
      <4> QED
        BY <2>1, <4>1
    <3> HIDE DEF n
    <3> QED
      BY <1>3, <3>1, <3>2
  <2>3. \A j \in 1 .. k + 1 : IsTool(msgs[j]) =>
          \E i \in 1 .. j - 1 : IsCaller(msgs[i]) /\ j <= i + n(i)
    BY <1>2, <1>3, <1>5
  <2>4. n(k + 1) > 0 => \E i \in 1 .. k + 1 : IsCaller(msgs[i]) /\ (k + 1) + n(k + 1) <= i + n(i)
    <3>1. n(k + 1) > 0 => IsCaller(msgs[k + 1])
      BY <1>1, <1>3
    <3>2. (k + 1) + n(k + 1) <= (k + 1) + n(k + 1) /\ k + 1 \in 1 .. k + 1
      BY <2>1
    <3> HIDE DEF n
    <3> QED
      BY <3>1, <3>2
  <2>5. Framed(msgs, k + 1, n(k + 1))
    BY <2>2, <2>3, <2>4 DEF Framed, Covers
  <2> QED
    BY <1>5, <2>5
<1> QED
  BY <1>4, <1>5

(* With nothing pending there are as many results as calls, for the        *)
(* results that follow a caller end where the next one is not covered.     *)
LEMMA FramedIsAnswered ==
  ASSUME NEW msgs \in Seq(Message), Framed(msgs, Len(msgs), 0)
  PROVE  Answered(msgs)
<1> DEFINE n(i) == Len(msgs[i].calls)
           top == Len(msgs)
<1>1. top \in Nat /\ DOMAIN msgs = 1 .. top /\ \A i \in 1 .. top : msgs[i] \in Message
  OBVIOUS
<1>2. \A i \in 1 .. top : /\ n(i) \in Nat
                          /\ IsTool(msgs[i]) => ~IsCaller(msgs[i])
  BY <1>1, MessageParts
<1>3. /\ \A i \in 1 .. top : IsCaller(msgs[i]) =>
           /\ i + n(i) <= top
           /\ \A j \in i + 1 .. top : j <= i + n(i) => IsTool(msgs[j])
      /\ \A j \in 1 .. top : IsTool(msgs[j]) =>
           \E i \in 1 .. j - 1 : IsCaller(msgs[i]) /\ j <= i + n(i)
  BY <1>1 DEF Framed, Covers
<1>4. ASSUME NEW i \in 1 .. top, IsCaller(msgs[i])
      PROVE  Len(ResultsAfter(msgs, i)) = n(i)
  <2> DEFINE J == {j \in i .. top : \A k \in i + 1 .. j : IsTool(msgs[k])}
             z == i + n(i)
  <2>0. n(i) \in Nat /\ z <= top /\ z \in i .. top
    BY <1>1, <1>2, <1>3, <1>4
  <2>1. z \in J
    BY <1>1, <1>3, <1>4, <2>0
  <2>2. z + 1 \in 1 .. top => ~IsTool(msgs[z + 1])
    <3> SUFFICES ASSUME z + 1 \in 1 .. top, IsTool(msgs[z + 1]) PROVE FALSE
      OBVIOUS
    <3>1. PICK i1 \in 1 .. z : IsCaller(msgs[i1]) /\ z + 1 <= i1 + n(i1)
      <4>1. \E i1 \in 1 .. (z + 1) - 1 : IsCaller(msgs[i1]) /\ z + 1 <= i1 + n(i1)
        BY <1>3
      <4> QED
        BY <2>0, <4>1
    <3>2. i1 \in 1 .. top /\ n(i1) \in Nat /\ ~IsTool(msgs[i1]) /\ ~IsTool(msgs[i])
      BY <1>1, <1>2, <1>4, <2>0, <3>1
    <3>3. CASE i1 < i
      <4>1. i \in i1 + 1 .. top /\ i <= i1 + n(i1)
        BY <1>1, <2>0, <3>1, <3>2, <3>3
      <4> QED
        BY <1>3, <3>1, <3>2, <4>1
    <3>4. CASE i1 > i
      <4>1. i1 \in i + 1 .. top /\ i1 <= i + n(i)
        BY <1>1, <2>0, <3>1, <3>2, <3>4
      <4> QED
        BY <1>3, <1>4, <3>2, <4>1
    <3>5. CASE i1 = i
      BY <2>0, <3>1, <3>5
    <3> QED
      BY <2>0, <3>2, <3>3, <3>4, <3>5
  <2>3. \A j \in J : j <= z
    <3> SUFFICES ASSUME NEW j \in J, j > z PROVE FALSE
      BY <1>1, <2>0
    <3>1. z + 1 \in i + 1 .. j /\ z + 1 \in 1 .. top
      BY <1>1, <2>0
    <3> QED
      BY <2>2, <3>1
  <2>4. Max(J) = z
    <3>1. J \subseteq 0 .. top /\ J # {}
      BY <1>1, <2>1
    <3>2. Max(J) \in J /\ Max(J) >= z
      BY <1>1, <2>1, <3>1, MaxIs
    <3>3. z \in Nat
      BY <2>0
    <3> DEFINE x == Max(J)
    <3>4. x \in J /\ x \in 0 .. top
      BY <3>1, <3>2
    <3>5. x >= z /\ x <= z
      BY <2>3, <3>2, <3>4
    <3> HIDE DEF x, z
    <3>6. x = z
      BY <1>1, <3>3, <3>4, <3>5
    <3> QED
      BY <3>6 DEF x
  <2>5. ResultsAfter(msgs, i) = SubSeq(msgs, i + 1, z)
    BY <2>4 DEF ResultsAfter
  <2>6. Len(SubSeq(msgs, i + 1, z)) = n(i)
    BY <1>1, <2>0
  <2> QED
    BY <2>5, <2>6
<1>5. NoOrphans(msgs)
  <2> SUFFICES ASSUME NEW j \in 1 .. top, IsTool(msgs[j])
               PROVE  \E i \in 1 .. j - 1 : IsCaller(msgs[i]) /\ j - i <= Len(ResultsAfter(msgs, i))
    BY <1>1 DEF NoOrphans
  <2>1. PICK i \in 1 .. j - 1 : IsCaller(msgs[i]) /\ j <= i + n(i)
    BY <1>3
  <2>2. i \in 1 .. top /\ n(i) \in Nat
    BY <1>1, <1>2
  <2>3. Len(ResultsAfter(msgs, i)) = n(i)
    BY <1>4, <2>1, <2>2
  <2> QED
    BY <2>1, <2>2, <2>3
<1> QED
  BY <1>1, <1>4, <1>5 DEF Answered

LEMMA FrameSame ==
  ASSUME NEW a, NEW b, NEW k \in Nat, NEW p, \A i \in 1 .. k : a[i] = b[i], Framed(a, k, p)
  PROVE  Framed(b, k, p)
<1>1. \A i \in 1 .. k : \A j : Covers(a, i, j) <=> Covers(b, i, j)
  BY DEF Covers
<1>2. \A j \in 1 .. k : 1 .. j - 1 \subseteq 1 .. k
  OBVIOUS
<1> QED
  BY <1>1, <1>2 DEF Framed

LEMMA FrameEmpty == ASSUME NEW msgs PROVE Framed(msgs, 0, 0)
<1>1. 1 .. 0 = {}
  OBVIOUS
<1> QED
  BY <1>1 DEF Framed

(* Framed logs may be joined.                                              *)
LEMMA FrameConcat ==
  ASSUME NEW a \in Seq(Message), NEW b \in Seq(Message),
         Framed(a, Len(a), 0), Framed(b, Len(b), 0)
  PROVE  a \o b \in Seq(Message) /\ Framed(a \o b, Len(a \o b), 0)
<1> DEFINE c == a \o b
           la == Len(a)
           lb == Len(b)
<1>1. /\ c \in Seq(Message) /\ Len(c) = la + lb /\ la \in Nat /\ lb \in Nat
      /\ \A i \in 1 .. la : c[i] = a[i]
      /\ \A i \in 1 .. lb : c[la + i] = b[i]
  OBVIOUS
<1> HIDE DEF c, la, lb
<1>2. Framed(a, la, 0) /\ Framed(b, lb, 0)
  BY DEF la, lb
<1>3. \A i \in 1 .. la : \A j : Covers(c, i, j) <=> Covers(a, i, j)
  BY <1>1 DEF Covers
<1>4. \A i \in 1 .. lb : c[la + i] \in Message /\ Len(c[la + i].calls) \in Nat
  BY <1>1, MessageParts
<1>5. \A i \in 1 .. lb, j \in Int : Covers(c, la + i, la + j) <=> Covers(b, i, j)
  <2> SUFFICES ASSUME NEW i \in 1 .. lb, NEW j \in Int
               PROVE  Covers(c, la + i, la + j) <=> Covers(b, i, j)
    OBVIOUS
  <2> DEFINE n == Len(b[i].calls)
  <2>1. c[la + i] = b[i] /\ n \in Nat
    BY <1>1, <1>4
  <2>2. Covers(c, la + i, la + j) <=> IsCaller(b[i]) /\ la + j <= la + i + n
    BY <2>1 DEF Covers
  <2>3. Covers(b, i, j) <=> IsCaller(b[i]) /\ j <= i + n
    BY DEF Covers
  <2> HIDE DEF n
  <2>4. la + j <= la + i + n <=> j <= i + n
    BY <1>1, <2>1
  <2> QED
    BY <2>2, <2>3, <2>4
<1>6. \A x \in 1 .. la + lb : x \in 1 .. la \/ (x - la \in 1 .. lb /\ x = la + (x - la))
  BY <1>1
<1>7. ASSUME NEW i \in 1 .. la + lb, IsCaller(c[i])
      PROVE  /\ i + Len(c[i].calls) <= la + lb
             /\ \A j \in i + 1 .. la + lb : Covers(c, i, j) => IsTool(c[j])
  <2>1. CASE i \in 1 .. la
    <3>1. c[i] = a[i] /\ i + Len(a[i].calls) <= la + 0
      BY <1>1, <1>2, <1>7, <2>1 DEF Framed
    <3>2. a[i] \in Message /\ Len(a[i].calls) \in Nat
      BY <1>1, <2>1, MessageParts DEF la
    <3>3. ASSUME NEW j \in i + 1 .. la + lb, Covers(c, i, j) PROVE IsTool(c[j])
      <4>1. j \in i + 1 .. la
        BY <1>1, <3>1, <3>2, <3>3 DEF Covers
      <4>2. Covers(a, i, j)
        BY <1>3, <2>1, <3>3
      <4>3. IsTool(a[j]) /\ j \in 1 .. la
        BY <1>1, <1>2, <1>7, <2>1, <3>1, <4>1, <4>2 DEF Framed
      <4> QED
        BY <1>1, <4>3
    <3> QED
      BY <1>1, <3>1, <3>2, <3>3
  <2>2. CASE i - la \in 1 .. lb
    <3> DEFINE d == i - la
    <3>1. i = la + d /\ d \in 1 .. lb
      BY <1>1, <2>2
    <3> HIDE DEF d
    <3>2. c[i] = b[d] /\ Len(b[d].calls) \in Nat /\ IsCaller(b[d])
      BY <1>1, <1>4, <1>7, <3>1
    <3>3. /\ d + Len(b[d].calls) <= lb + 0
          /\ \A j \in d + 1 .. lb : Covers(b, d, j) => IsTool(b[j])
      BY <1>2, <3>1, <3>2 DEF Framed
    <3>4. ASSUME NEW j \in i + 1 .. la + lb, Covers(c, i, j) PROVE IsTool(c[j])
      <4> DEFINE e == j - la
      <4>1. j = la + e /\ e \in d + 1 .. lb /\ e \in 1 .. lb /\ e \in Int
        BY <1>1, <3>1
      <4> HIDE DEF e
      <4>2. Covers(b, d, e)
        BY <1>5, <3>1, <3>4, <4>1
      <4>3. IsTool(b[e])
        BY <3>3, <4>1, <4>2
      <4> QED
        BY <1>1, <4>1, <4>3
    <3>5. i + Len(c[i].calls) <= la + lb
      <4> DEFINE n == Len(b[d].calls)
      <4>1. d + n <= lb + 0 /\ n \in Nat /\ Len(c[i].calls) = n
        BY <3>2, <3>3
      <4> HIDE DEF n
      <4>2. (la + d) + n <= la + lb
        BY <1>1, <3>1, <4>1
      <4> QED
        BY <3>1, <4>1, <4>2
    <3> QED
      BY <3>4, <3>5
  <2> QED
    BY <1>6, <2>1, <2>2
<1>8. ASSUME NEW j \in 1 .. la + lb, IsTool(c[j]) PROVE \E i \in 1 .. j - 1 : Covers(c, i, j)
  <2>1. CASE j \in 1 .. la
    <3>1. PICK i \in 1 .. j - 1 : Covers(a, i, j)
      BY <1>1, <1>2, <1>8, <2>1 DEF Framed
    <3>2. i \in 1 .. la
      BY <1>1, <2>1
    <3> QED
      BY <1>3, <3>1, <3>2
  <2>2. CASE j - la \in 1 .. lb
    <3> DEFINE e == j - la
    <3>1. j = la + e /\ e \in 1 .. lb /\ e \in Int
      BY <1>1, <2>2
    <3> HIDE DEF e
    <3>2. IsTool(b[e])
      BY <1>1, <1>8, <3>1
    <3>3. PICK d \in 1 .. e - 1 : Covers(b, d, e)
      BY <1>2, <3>1, <3>2 DEF Framed
    <3>4. d \in 1 .. lb /\ la + d \in 1 .. j - 1
      BY <1>1, <3>1
    <3>5. Covers(c, la + d, j)
      BY <1>5, <3>1, <3>3, <3>4
    <3> QED
      BY <3>4, <3>5
  <2> QED
    BY <1>6, <2>1, <2>2
<1>9. Framed(c, la + lb, 0)
  <2>1. (la + lb) + 0 = la + lb
    BY <1>1
  <2> QED
    BY <1>7, <1>8, <2>1 DEF Framed
<1> QED
  BY <1>1, <1>9 DEF c

(* The fast path lets through only what needs no repair.                   *)
LEMMA CleanIsAnswered ==
  ASSUME NEW msgs \in Seq(Message), toolPairingClean(msgs)
  PROVE  Answered(msgs) /\ Decodable(msgs)
<1> DEFINE top == Len(msgs)
<1>1. top \in Nat /\ DOMAIN msgs = 1 .. top /\ \A i \in 1 .. top : msgs[i] \in Message
  OBVIOUS
<1>2. PICK A : /\ A[0] = Start
               /\ \A k \in 1 .. top : A[k] = Expect(A[k - 1], msgs[k])
               /\ FoldLeft(Expect, Start, msgs) = A[top]
  BY FoldSteps
<1>3. A[top] = Start
  BY <1>2 DEF toolPairingClean, Start
<1> DEFINE Fine(k) == A[k].ok => /\ A[k].n \in Nat /\ Framed(msgs, k, A[k].n)
                                 /\ \A i \in 1 .. k : Whole(msgs[i].calls)
           T == {k \in Nat : k <= top => Fine(k)}
<1>4. 0 \in T
  <2>1. Fine(0)
    <3>1. A[0].n = 0 /\ 1 .. 0 = {}
      BY <1>2 DEF Start
    <3> QED
      BY <3>1, FrameEmpty
  <2> QED
    BY <2>1
<1>5. ASSUME NEW k \in T PROVE k + 1 \in T
  <2> SUFFICES ASSUME k + 1 <= top, A[k + 1].ok PROVE Fine(k + 1)
    OBVIOUS
  <2>1. k \in Nat /\ k + 1 \in 1 .. top /\ (k + 1) - 1 = k
    BY <1>1
  <2> DEFINE m == msgs[k + 1]
  <2>2. A[k + 1] = Expect(A[k], m)
    BY <1>2, <2>1
  <2>3. /\ A[k].ok /\ ((A[k].n > 0) <=> IsTool(m)) /\ Whole(m.calls)
        /\ A[k + 1].n = IF IsTool(m) /\ A[k].n > 0 THEN A[k].n - 1 ELSE Len(m.calls)
    BY <2>2 DEF Expect
  <2>4. Fine(k)
    BY <1>1, <2>1
  <2>5. \A i \in 1 .. k + 1 : msgs[i] \in Message
    BY <1>1, <2>1
  <2>6. Len(m.calls) \in Nat
    BY <2>1, <2>5, MessageParts
  <2>7. A[k].n \in Nat /\ Framed(msgs, k, A[k].n) /\ \A i \in 1 .. k : Whole(msgs[i].calls)
    BY <2>3, <2>4
  <2>8. \A i \in 1 .. k + 1 : Whole(msgs[i].calls)
    <3>1. 1 .. k + 1 = 1 .. k \cup {k + 1}
      BY <2>1
    <3> QED
      BY <2>3, <2>7, <3>1
  <2>9. A[k + 1].n \in Nat /\ Framed(msgs, k + 1, A[k + 1].n)
    <3>1. /\ IsTool(m) => Framed(msgs, k + 1, A[k].n - 1)
          /\ ~IsTool(m) => Framed(msgs, k + 1, Len(m.calls))
      BY <2>1, <2>3, <2>5, <2>7, FrameStep
    <3>2. CASE IsTool(m)
      <4>1. A[k + 1].n = A[k].n - 1 /\ A[k].n - 1 \in Nat
        BY <2>3, <2>7, <3>2
      <4> QED
        BY <3>1, <3>2, <4>1
    <3>3. CASE ~IsTool(m)
      <4>1. A[k + 1].n = Len(m.calls)
        BY <2>3, <3>3
      <4> QED
        BY <2>6, <3>1, <3>3, <4>1
    <3> QED
      BY <3>2, <3>3
  <2> QED
    BY <2>8, <2>9
<1> HIDE DEF T
<1>6. top \in T
  BY <1>1, <1>4, <1>5, SetInduction
<1>7. Fine(top)
  BY <1>1, <1>6 DEF T
<1>8. Framed(msgs, top, 0) /\ \A i \in 1 .. top : Whole(msgs[i].calls)
  BY <1>3, <1>7 DEF Start
<1> QED
  BY <1>1, <1>8, FramedIsAnswered DEF Decodable

LEMMA ResultsAreMessages ==
  ASSUME NEW msgs \in Seq(Message), NEW i \in 1 .. Len(msgs)
  PROVE  ResultsAfter(msgs, i) \in Seq(Message)
<1> DEFINE top == Len(msgs)
           J == {j \in i .. top : \A k \in i + 1 .. j : IsTool(msgs[k])}
<1>1. top \in Nat /\ i + 1 \in Nat
  OBVIOUS
<1>2. i \in J
  <2>1. i + 1 .. i = {}
    OBVIOUS
  <2> QED
    BY <1>1, <2>1
<1>3. J \subseteq 0 .. top
  BY <1>1
<1>4. Max(J) \in J
  BY <1>1, <1>2, <1>3, MaxIs
<1>5. Max(J) \in i .. top
  BY <1>4
<1>6. ResultsAfter(msgs, i) = SubSeq(msgs, i + 1, Max(J))
  BY DEF ResultsAfter
<1> HIDE DEF J
<1> DEFINE z == Max(J)
<1>7. z \in i .. top
  BY <1>5
<1> HIDE DEF z
<1>8. SubSeq(msgs, i + 1, z) \in Seq(Message)
  <2>1. \A x \in i + 1 .. z : msgs[x] \in Message
    BY <1>1, <1>7
  <2> QED
    BY <1>1, <1>7, <2>1, SubSeqProperties
<1> QED
  BY <1>6, <1>8 DEF z

LEMMA FoundIsNat ==
  ASSUME NEW cs \in Seq(Calls), NEW avail \in Seq(Message), NEW k \in DOMAIN cs
  PROVE  Found(cs, avail, k) \in Nat
<1>1. \A j \in DOMAIN avail : avail[j].of \in Nat
  BY DEF Message
<1>2. Len(avail) \in Nat /\ DOMAIN avail = 1 .. Len(avail) /\ k \in Nat \ {0}
  OBVIOUS
<1> DEFINE hits == {j \in DOMAIN avail : avail[j].id = cs[k].id}
<1>3. hits # {} => Max(hits) \in DOMAIN avail
  <2>1. hits \subseteq 0 .. Len(avail)
    BY <1>2
  <2>2. hits # {} => Max(hits) \in hits
    BY <1>2, <2>1, MaxIs
  <2> QED
    BY <2>2
<1>4. k <= Len(avail) => k \in DOMAIN avail
  BY <1>2
<1>5. Found(cs, avail, k) =
        IF idDistinct(cs) THEN (IF hits = {} THEN 0 ELSE avail[Max(hits)].of)
        ELSE IF k <= Len(avail) THEN avail[k].of ELSE 0
  BY DEF Found
<1> HIDE DEF hits
<1> QED
  BY <1>1, <1>3, <1>4, <1>5

(* What the slow path makes of one message and the results behind it.      *)
LEMMA RepairedIsFramed ==
  ASSUME NEW msgs \in Seq(Message), NEW i \in 1 .. Len(msgs)
  PROVE  /\ Repaired(msgs, i) \in Seq(Message)
         /\ Framed(Repaired(msgs, i), Len(Repaired(msgs, i)), 0)
         /\ \A j \in 1 .. Len(Repaired(msgs, i)) : Whole(Repaired(msgs, i)[j].calls)
<1> DEFINE m == msgs[i]
           r == Repaired(msgs, i)
<1>1. m \in Message /\ m.calls \in Seq(Calls) /\ Len(m.calls) \in Nat
  <2>1. m \in Message
    OBVIOUS
  <2> QED
    BY <2>1, MessageParts
<1>2. CASE IsTool(m)
  <2>1. r = <<>>
    BY <1>2 DEF Repaired
  <2>2. Len(<<>>) = 0 /\ 1 .. 0 = {}
    OBVIOUS
  <2> QED
    BY <2>1, <2>2, FrameEmpty, EmptySeq
<1>3. CASE ~IsTool(m) /\ m.calls = <<>>
  <2>1. r = <<m>>
    BY <1>3 DEF Repaired
  <2>2. r \in Seq(Message) /\ Len(r) = 1 /\ r[1] = m
    BY <1>1, <2>1
  <2>3. 0 + 1 = 1 /\ \A j \in 1 .. 0 + 1 : r[j] \in Message
    BY <1>1, <2>2
  <2>4. Framed(r, 0 + 1, Len(m.calls))
    <3>1. Framed(r, 0, 0) /\ ~(0 > 0) /\ 0 \in Nat
      BY FrameEmpty
    <3>2. ~IsTool(r[0 + 1])
      BY <1>3, <2>2
    <3>3. Framed(r, 0 + 1, Len(r[0 + 1].calls))
      BY <2>3, <3>1, <3>2, FrameStep
    <3> QED
      BY <2>2, <3>3
  <2>5. Len(m.calls) = 0
    BY <1>3
  <2>6. \A j \in 1 .. 1 : Whole(r[j].calls)
    BY <1>3, <2>2 DEF Whole
  <2> HIDE DEF m, r
  <2>7. Framed(r, Len(r), 0) /\ \A j \in 1 .. Len(r) : Whole(r[j].calls)
    BY <2>2, <2>3, <2>4, <2>5, <2>6
  <2> QED
    BY <2>2, <2>7 DEF r
<1>4. CASE ~IsTool(m) /\ m.calls # <<>>
  <2> DEFINE c == repairToolCallArgs(m)
             avail == ResultsAfter(msgs, i)
             f == pairToolResults(m.calls, avail)
             n == Len(m.calls)
  <2>1. r = <<c>> \o f
    BY <1>4 DEF Repaired
  <2>2. c \in Message /\ c.role = m.role /\ Len(c.calls) = n /\ Whole(c.calls) /\ IsCaller(c)
    <3> DEFINE cs == [k \in DOMAIN m.calls |-> [m.calls[k] EXCEPT !.whole = TRUE]]
    <3>1. m = [role |-> m.role, calls |-> m.calls, id |-> m.id, of |-> m.of]
          /\ m.role \in {"system", "user", "asst", "tool"} /\ m.id \in Nat /\ m.of \in Nat
          /\ IsCaller(m)
      BY <1>1, <1>4 DEF Message
    <3>2. c = [role |-> m.role, calls |-> cs, id |-> m.id, of |-> m.of]
      <4>1. c = [m EXCEPT !.calls = cs]
        BY DEF repairToolCallArgs
      <4> HIDE DEF c, cs
      <4> QED
        BY <3>1, <4>1
    <3>3. DOMAIN m.calls = 1 .. n /\ \A k \in 1 .. n : m.calls[k] \in Calls
      BY <1>1
    <3>4. \A k \in 1 .. n : [m.calls[k] EXCEPT !.whole = TRUE] \in Calls
      BY <3>3 DEF Calls
    <3>5. cs \in [1 .. n -> Calls]
      BY <3>3, <3>4
    <3>6. cs \in Seq(Calls) /\ Len(cs) = n /\ DOMAIN cs = 1 .. n
      BY <1>1, <3>3, <3>5, LenProperties
    <3>7. \A k \in 1 .. n : cs[k].whole
      BY <3>3 DEF Calls
    <3> HIDE DEF cs, c
    <3> QED
      BY <3>1, <3>2, <3>6, <3>7 DEF Message, Whole, IsCaller
  <2>3. f \in Seq(Message) /\ Len(f) = n /\ \A k \in 1 .. n : IsTool(f[k]) /\ f[k].calls = <<>>
    <3>1. DOMAIN m.calls = 1 .. n /\ \A k \in 1 .. n : m.calls[k].id \in Nat
      <4>1. DOMAIN m.calls = 1 .. n /\ \A k \in 1 .. n : m.calls[k] \in Calls
        BY <1>1
      <4> QED
        BY <4>1 DEF Calls
    <3>2. \A k \in 1 .. n : Found(m.calls, avail, k) \in Nat
      BY <1>1, <3>1, ResultsAreMessages, FoundIsNat
    <3>3. f = [k \in 1 .. n |-> Result(m.calls[k].id, Found(m.calls, avail, k))]
      BY <3>1 DEF pairToolResults
    <3>4. \A k \in 1 .. n : Result(m.calls[k].id, Found(m.calls, avail, k)) \in Message
      <4>1. <<>> \in Seq(Calls)
        BY EmptySeq
      <4> HIDE DEF avail, m
      <4> QED
        BY <3>1, <3>2, <4>1 DEF Message, Result
    <3>5. f \in [1 .. n -> Message]
      BY <3>3, <3>4
    <3>6. \A k \in 1 .. n : IsTool(f[k]) /\ f[k].calls = <<>>
      BY <3>3 DEF Result, IsTool
    <3> HIDE DEF f
    <3> QED
      BY <1>1, <3>5, <3>6, LenProperties
  <2> HIDE DEF c, f, m
  <2>4. n \in Nat
    BY <1>1
  <2> HIDE DEF n
  <2>5. /\ r \in Seq(Message) /\ Len(r) = n + 1 /\ r[1] = c
        /\ \A k \in 1 .. n : r[k + 1] = f[k]
    <3>1. <<c>> \in Seq(Message) /\ Len(<<c>>) = 1 /\ <<c>>[1] = c
      BY <2>2
    <3>2. /\ <<c>> \o f \in Seq(Message) /\ Len(<<c>> \o f) = 1 + n
          /\ (<<c>> \o f)[1] = c
          /\ \A k \in 1 .. n : (<<c>> \o f)[1 + k] = f[k]
      BY <2>3, <2>4, <3>1
    <3> HIDE DEF r
    <3> QED
      BY <2>1, <2>4, <3>2
  <2> HIDE DEF r
  <2>6. \A j \in 1 .. n + 1 : j = 1 \/ (j - 1 \in 1 .. n /\ j = (j - 1) + 1)
    BY <2>4
  <2>7. ~IsTool(c) /\ \A j \in 1 .. n + 1 : j # 1 => IsTool(r[j]) /\ ~IsCaller(r[j]) /\ r[j].calls = <<>>
    <3>1. ~IsTool(c)
      BY <2>2 DEF IsTool, IsCaller
    <3>2. \A k \in 1 .. n : IsTool(r[k + 1]) /\ r[k + 1].calls = <<>>
      BY <2>3, <2>5
    <3>3. \A j : IsTool(r[j]) => ~IsCaller(r[j])
      BY DEF IsTool, IsCaller
    <3> QED
      BY <2>6, <3>1, <3>2, <3>3
  <2>8. \A j \in 1 .. n + 1 : Whole(r[j].calls)
    <3>1. Whole(<<>>)
      BY DEF Whole
    <3> QED
      BY <2>2, <2>5, <2>7, <3>1
  <2>9. Framed(r, n + 1, 0)
    <3>1. \A k \in 1 .. n + 1 : IsCaller(r[k]) =>
            /\ k + Len(r[k].calls) <= (n + 1) + 0
            /\ \A j \in k + 1 .. n + 1 : Covers(r, k, j) => IsTool(r[j])
      <4>1. 1 + Len(r[1].calls) <= (n + 1) + 0
        BY <2>2, <2>4, <2>5
      <4>2. \A j \in 1 + 1 .. n + 1 : IsTool(r[j])
        BY <2>4, <2>7
      <4> QED
        BY <2>7, <4>1, <4>2
    <3>2. \A j \in 1 .. n + 1 : IsTool(r[j]) => \E k \in 1 .. j - 1 : Covers(r, k, j)
      <4> SUFFICES ASSUME NEW j \in 1 .. n + 1, IsTool(r[j]) PROVE 1 \in 1 .. j - 1 /\ Covers(r, 1, j)
        OBVIOUS
      <4>1. j # 1
        BY <2>5, <2>7
      <4>2. Covers(r, 1, j)
        BY <2>2, <2>4, <2>5 DEF Covers
      <4> QED
        BY <2>4, <4>1, <4>2
    <3> QED
      BY <3>1, <3>2 DEF Framed
  <2> QED
    BY <2>5, <2>8, <2>9 DEF r
<1> QED
  BY <1>2, <1>3, <1>4

(* What SanitizeToolPairing returns meets the contract, whatever the log.  *)
LEMMA RequestIsAnswered ==
  ASSUME NEW msgs \in Seq(Message)
  PROVE  Answered(SanitizeToolPairing(msgs)) /\ Decodable(SanitizeToolPairing(msgs))
<1> DEFINE top == Len(msgs)
           parts == [i \in DOMAIN msgs |-> Repaired(msgs, i)]
<1>1. CASE toolPairingClean(msgs)
  BY <1>1, CleanIsAnswered DEF SanitizeToolPairing
<1>2. CASE ~toolPairingClean(msgs)
  <2>1. top \in Nat /\ DOMAIN msgs = 1 .. top
    OBVIOUS
  <2>2. parts \in Seq(Seq(Message)) /\ Len(parts) = top /\ \A i \in 1 .. top : parts[i] = Repaired(msgs, i)
    <3>1. parts \in [1 .. top -> Seq(Message)]
      BY <2>1, RepairedIsFramed
    <3> QED
      BY <2>1, <3>1, LenProperties
  <2> HIDE DEF parts
  <2>3. PICK A : /\ A[0] = <<>>
                 /\ \A k \in 1 .. Len(parts) : A[k] = A[k - 1] \o parts[k]
                 /\ FlattenSeq(parts) = A[Len(parts)]
    BY <2>2, FlattenSteps
  <2> DEFINE Fine(s) == /\ s \in Seq(Message) /\ Framed(s, Len(s), 0)
                        /\ \A j \in 1 .. Len(s) : Whole(s[j].calls)
             T == {k \in Nat : k <= top => Fine(A[k])}
  <2>4. \A i \in 1 .. top : Fine(parts[i])
    <3> SUFFICES ASSUME NEW i \in 1 .. top PROVE Fine(Repaired(msgs, i))
      BY <2>2
    <3> QED
      BY RepairedIsFramed
  <2>5. \A a, b : Fine(a) /\ Fine(b) => Fine(a \o b)
    <3> SUFFICES ASSUME NEW a, NEW b, Fine(a), Fine(b) PROVE Fine(a \o b)
      OBVIOUS
    <3>1. a \o b \in Seq(Message) /\ Framed(a \o b, Len(a \o b), 0)
      BY FrameConcat
    <3>2. \A j \in 1 .. Len(a \o b) : Whole((a \o b)[j].calls)
      <4>1. /\ Len(a) \in Nat /\ Len(b) \in Nat /\ Len(a \o b) = Len(a) + Len(b)
            /\ \A j \in 1 .. Len(a) + Len(b) :
                 (a \o b)[j] = IF j <= Len(a) THEN a[j] ELSE b[j - Len(a)]
        OBVIOUS
      <4>2. \A j \in 1 .. Len(a) + Len(b) :
              IF j <= Len(a) THEN j \in 1 .. Len(a) ELSE j - Len(a) \in 1 .. Len(b)
        BY <4>1
      <4> QED
        BY <4>1, <4>2
    <3> QED
      BY <3>1, <3>2
  <2>6. Fine(<<>>)
    <3>1. Len(<<>>) = 0 /\ 1 .. 0 = {}
      OBVIOUS
    <3> QED
      BY <3>1, FrameEmpty, EmptySeq
  <2> HIDE DEF Fine
  <2>7. 0 \in T
    BY <2>3, <2>6
  <2>8. ASSUME NEW k \in T PROVE k + 1 \in T
    <3> SUFFICES ASSUME k + 1 <= top PROVE Fine(A[k + 1])
      OBVIOUS
    <3>1. k + 1 \in 1 .. top /\ (k + 1) - 1 = k /\ k <= top
      BY <2>1
    <3>2. A[k + 1] = A[k] \o parts[k + 1] /\ Fine(A[k])
      BY <2>2, <2>3, <3>1
    <3> QED
      BY <2>4, <2>5, <3>1, <3>2
  <2> HIDE DEF T
  <2>9. top \in T
    BY <2>1, <2>7, <2>8, SetInduction
  <2>10. Fine(A[top])
    BY <2>1, <2>9 DEF T
  <2>11. SanitizeToolPairing(msgs) = A[top]
    BY <1>2, <2>2, <2>3 DEF SanitizeToolPairing, parts
  <2> DEFINE s == SanitizeToolPairing(msgs)
  <2>12. s \in Seq(Message) /\ Framed(s, Len(s), 0) /\ \A j \in 1 .. Len(s) : Whole(s[j].calls)
    BY <2>10, <2>11 DEF Fine
  <2> HIDE DEF s
  <2>13. DOMAIN s = 1 .. Len(s)
    BY <2>12
  <2>14. Answered(s) /\ Decodable(s)
    BY <2>12, <2>13, FramedIsAnswered DEF Decodable
  <2> QED
    BY <2>14 DEF s
<1> QED
  BY <1>1, <1>2

(* Each result that stands there names its call and is its own.            *)
Answers(m, c) == m.id = c.id /\ m.of \in {0, c.serial}
Matched(msgs, k) ==
  \A i \in 1 .. k : \A n \in 1 .. Len(msgs[i].calls) :
    i + n <= k => Answers(msgs[i + n], msgs[i].calls[n])

(* A log that needs no repair.                                             *)
Good(msgs) == Framed(msgs, Len(msgs), 0) /\ Matched(msgs, Len(msgs))

(* Then each result names its call, and is that of its call.               *)
LEMMA GoodIsPaired ==
  ASSUME NEW msgs \in Seq(Message), Good(msgs)
  PROVE  Paired(msgs) /\ Own(msgs)
<1> DEFINE top == Len(msgs)
<1>1. top \in Nat /\ DOMAIN msgs = 1 .. top /\ \A i \in 1 .. top : msgs[i] \in Message
  OBVIOUS
<1>2. Framed(msgs, top, 0) /\ Matched(msgs, top)
  BY DEF Good
<1>3. ASSUME NEW i \in DOMAIN msgs, NEW n \in DOMAIN msgs[i].calls
      PROVE  Answers(msgs[i + n], msgs[i].calls[n])
  <2> DEFINE l == Len(msgs[i].calls)
  <2>1. i \in 1 .. top /\ msgs[i] \in Message /\ l \in Nat /\ DOMAIN msgs[i].calls = 1 .. l
    <3>1. i \in 1 .. top /\ msgs[i] \in Message
      BY <1>1
    <3>2. l \in Nat /\ msgs[i].calls \in Seq(Calls)
      BY <3>1, MessageParts
    <3> QED
      BY <3>1, <3>2
  <2>2. n \in 1 .. l
    BY <2>1
  <2>3. IsCaller(msgs[i])
    <3>1. l # 0
      BY <2>1, <2>2
    <3> QED
      BY <2>1, <3>1, MessageParts
  <2>4. i + l <= top + 0
    BY <1>2, <2>1, <2>3 DEF Framed
  <2> HIDE DEF l
  <2>5. i + n <= top
    BY <1>1, <2>1, <2>2, <2>4
  <2> QED
    BY <1>2, <2>1, <2>2, <2>5 DEF Matched, l
<1>4. Answered(msgs)
  BY <1>2, FramedIsAnswered
<1> QED
  BY <1>3, <1>4 DEF Paired, Own, Answers

(* Such logs may be joined.                                                *)
LEMMA GoodConcat ==
  ASSUME NEW a \in Seq(Message), NEW b \in Seq(Message), Good(a), Good(b)
  PROVE  a \o b \in Seq(Message) /\ Good(a \o b)
<1> DEFINE c == a \o b
           la == Len(a)
           lb == Len(b)
<1>1. c \in Seq(Message) /\ Framed(c, Len(c), 0)
  BY FrameConcat DEF Good
<1>2. /\ Len(c) = la + lb /\ la \in Nat /\ lb \in Nat
      /\ \A i \in 1 .. la : c[i] = a[i]
      /\ \A i \in 1 .. lb : c[la + i] = b[i]
  OBVIOUS
<1> HIDE DEF c, la, lb
<1>3. /\ Framed(a, la, 0) /\ Matched(a, la) /\ Matched(b, lb)
      /\ \A i \in 1 .. la : a[i] \in Message
      /\ \A i \in 1 .. lb : b[i] \in Message
  BY DEF Good, la, lb
<1>4. ASSUME NEW i \in 1 .. la + lb, NEW n \in 1 .. Len(c[i].calls), i + n <= la + lb
      PROVE  Answers(c[i + n], c[i].calls[n])
  <2>1. CASE i \in 1 .. la
    <3> DEFINE l == Len(a[i].calls)
    <3>1. c[i] = a[i] /\ l \in Nat /\ (~IsCaller(a[i]) => l = 0)
      BY <1>2, <1>3, <2>1, MessageParts
    <3>2. n \in 1 .. l
      BY <3>1
    <3>3. IsCaller(a[i])
      BY <3>1, <3>2
    <3>4. i + l <= la + 0
      BY <1>3, <2>1, <3>3 DEF Framed
    <3>5. n \in 1 .. Len(a[i].calls)
      BY <3>2
    <3> HIDE DEF l
    <3>6. i + n <= la /\ i + n \in 1 .. la
      BY <1>2, <2>1, <3>1, <3>2, <3>4
    <3>7. Answers(a[i + n], a[i].calls[n])
      BY <1>3, <2>1, <3>5, <3>6 DEF Matched
    <3> QED
      BY <1>2, <3>1, <3>6, <3>7
  <2>2. CASE i - la \in 1 .. lb
    <3> DEFINE d == i - la
    <3>1. i = la + d /\ d \in 1 .. lb
      BY <1>2, <2>2
    <3> HIDE DEF d
    <3>2. c[i] = b[d] /\ Len(b[d].calls) \in Nat
      BY <1>2, <1>3, <3>1, MessageParts
    <3>3. n \in 1 .. Len(b[d].calls)
      BY <3>2
    <3>4. d + n <= lb /\ d + n \in 1 .. lb /\ i + n = la + (d + n)
      BY <1>2, <1>4, <3>1, <3>2, <3>3
    <3>5. Answers(b[d + n], b[d].calls[n])
      BY <1>3, <3>1, <3>3, <3>4 DEF Matched
    <3> QED
      BY <1>2, <3>2, <3>4, <3>5
  <2>3. i \in 1 .. la \/ i - la \in 1 .. lb
    BY <1>2
  <2> QED
    BY <2>1, <2>2, <2>3
<1>5. Matched(c, la + lb)
  BY <1>4 DEF Matched
<1> QED
  BY <1>1, <1>2, <1>5 DEF Good, c

(* A message that neither calls nor answers.                               *)
LEMMA GoodPlain ==
  ASSUME NEW m \in Message, ~IsTool(m), m.calls = <<>>
  PROVE  <<m>> \in Seq(Message) /\ Good(<<m>>)
<1> DEFINE s == <<m>>
<1>1. s \in Seq(Message) /\ Len(s) = 1 /\ s[1] = m
  OBVIOUS
<1> HIDE DEF s
<1>2. Len(m.calls) = 0
  OBVIOUS
<1>3. Framed(s, 0 + 1, Len(s[0 + 1].calls))
  <2>1. \A i \in 1 .. 0 + 1 : s[i] \in Message
    BY <1>1
  <2>2. Framed(s, 0, 0) /\ ~(0 > 0) /\ 0 \in Nat
    BY FrameEmpty
  <2>3. ~IsTool(s[0 + 1])
    BY <1>1
  <2> QED
    BY <2>1, <2>2, <2>3, FrameStep
<1>4. Framed(s, 1, 0)
  BY <1>1, <1>2, <1>3
<1>5. Matched(s, 1)
  BY <1>1, <1>2 DEF Matched
<1> QED
  BY <1>1, <1>4, <1>5 DEF Good, s

(* What is left of a log from a message on that is no result.              *)
LEMMA GoodTail ==
  ASSUME NEW msgs \in Seq(Message), Good(msgs),
         NEW s \in Nat, s < Len(msgs), ~IsTool(msgs[s + 1])
  PROVE  /\ SubSeq(msgs, s + 1, Len(msgs)) \in Seq(Message)
         /\ Good(SubSeq(msgs, s + 1, Len(msgs)))
<1> DEFINE t == SubSeq(msgs, s + 1, Len(msgs))
           top == Len(msgs)
           l == top - s
<1>1. top \in Nat /\ \A i \in 1 .. top : msgs[i] \in Message
  OBVIOUS
<1>2. /\ t \in Seq(Message) /\ Len(t) = l
      /\ \A i \in 1 .. l : t[i] = msgs[s + i]
  <2>1. \A i \in s + 1 .. top : msgs[i] \in Message
    BY <1>1
  <2>2. /\ t \in Seq(Message) /\ Len(t) = IF s + 1 <= top THEN top - (s + 1) + 1 ELSE 0
        /\ \A i \in 1 .. top - (s + 1) + 1 : t[i] = msgs[s + 1 + i - 1]
    BY <1>1, <2>1, SubSeqProperties
  <2>3. top - (s + 1) + 1 = l /\ s + 1 <= top /\ \A i \in 1 .. l : s + 1 + i - 1 = s + i
    BY <1>1
  <2> HIDE DEF t, l
  <2> QED
    BY <2>2, <2>3
<1> HIDE DEF t
<1>3. l \in Nat /\ top = s + l
  BY <1>1
<1>4. Framed(msgs, top, 0) /\ Matched(msgs, top) /\ s + 1 \in 1 .. top
  BY <1>1 DEF Good
<1> HIDE DEF l, top
<1>5. \A i \in 1 .. l : s + i \in 1 .. top /\ Len(msgs[s + i].calls) \in Nat
  BY <1>1, <1>3, MessageParts
<1>6. \A i \in 1 .. l, j \in Int : Covers(t, i, j) <=> Covers(msgs, s + i, s + j)
  <2> SUFFICES ASSUME NEW i \in 1 .. l, NEW j \in Int
               PROVE  Covers(t, i, j) <=> Covers(msgs, s + i, s + j)
    OBVIOUS
  <2> DEFINE n == Len(msgs[s + i].calls)
  <2>1. t[i] = msgs[s + i] /\ n \in Nat
    BY <1>2, <1>5
  <2>2. Covers(t, i, j) <=> IsCaller(msgs[s + i]) /\ j <= i + n
    BY <2>1 DEF Covers
  <2>3. Covers(msgs, s + i, s + j) <=> IsCaller(msgs[s + i]) /\ s + j <= s + i + n
    BY DEF Covers
  <2> HIDE DEF n
  <2>4. s + j <= s + i + n <=> j <= i + n
    BY <2>1
  <2> QED
    BY <2>2, <2>3, <2>4
<1>7. ASSUME NEW i \in 1 .. l, IsCaller(t[i])
      PROVE  /\ i + Len(t[i].calls) <= l
             /\ \A j \in i + 1 .. l : Covers(t, i, j) => IsTool(t[j])
  <2> DEFINE n == Len(msgs[s + i].calls)
  <2>1. t[i] = msgs[s + i] /\ s + i \in 1 .. top /\ n \in Nat
    BY <1>2, <1>5
  <2>2. /\ s + i + n <= top + 0
        /\ \A j \in s + i + 1 .. top : Covers(msgs, s + i, j) => IsTool(msgs[j])
    BY <1>4, <1>7, <2>1 DEF Framed
  <2>3. i + Len(t[i].calls) <= l
    <3>1. Len(t[i].calls) = n
      BY <2>1
    <3> HIDE DEF n
    <3>2. i + n <= l
      BY <1>3, <2>1, <2>2
    <3> QED
      BY <3>1, <3>2
  <2>4. ASSUME NEW j \in i + 1 .. l, Covers(t, i, j) PROVE IsTool(t[j])
    <3>1. s + j \in s + i + 1 .. top /\ j \in 1 .. l /\ j \in Int
      BY <1>3
    <3>2. IsTool(msgs[s + j])
      BY <1>6, <2>2, <2>4, <3>1
    <3> QED
      BY <1>2, <3>1, <3>2
  <2> QED
    BY <2>3, <2>4
<1>8. ASSUME NEW j \in 1 .. l, IsTool(t[j]) PROVE \E i \in 1 .. j - 1 : Covers(t, i, j)
  <2>1. IsTool(msgs[s + j]) /\ s + j \in 1 .. top
    BY <1>2, <1>5, <1>8
  <2>2. PICK i \in 1 .. s + j - 1 : Covers(msgs, i, s + j)
    BY <1>4, <2>1 DEF Framed
  <2>3. i \in 1 .. top /\ IsCaller(msgs[i])
    BY <1>1, <2>1, <2>2 DEF Covers
  <2>4. Len(msgs[i].calls) \in Nat /\ s + j <= i + Len(msgs[i].calls)
    <3>1. msgs[i] \in Message
      BY <1>1, <2>3
    <3> QED
      BY <2>2, <3>1, MessageParts DEF Covers
  <2>5. i > s
    <3> SUFFICES ASSUME i <= s PROVE FALSE
      BY <2>2
    <3>1. s + 1 <= i + Len(msgs[i].calls)
      BY <2>4
    <3>2. s + 1 \in i + 1 .. top /\ Covers(msgs, i, s + 1)
      BY <1>1, <1>4, <2>3, <3>1 DEF Covers
    <3>3. IsTool(msgs[s + 1])
      BY <1>4, <2>3, <3>2 DEF Framed
    <3> QED
      BY <3>3
  <2> DEFINE d == i - s
  <2>6. i = s + d /\ d \in 1 .. j - 1 /\ d \in 1 .. l /\ j \in Int
    BY <1>3, <2>2, <2>5
  <2> HIDE DEF d
  <2>7. Covers(t, d, j)
    BY <1>6, <2>2, <2>6
  <2> QED
    BY <2>6, <2>7
<1>9. Framed(t, l, 0)
  <2>1. l + 0 = l
    BY <1>3
  <2> QED
    BY <1>7, <1>8, <2>1 DEF Framed
<1>10. Matched(t, l)
  <2> SUFFICES ASSUME NEW i \in 1 .. l, NEW n \in 1 .. Len(t[i].calls), i + n <= l
               PROVE  Answers(t[i + n], t[i].calls[n])
    BY DEF Matched
  <2>1. t[i] = msgs[s + i] /\ s + i \in 1 .. top /\ Len(msgs[s + i].calls) \in Nat
    BY <1>2, <1>5
  <2>2. n \in 1 .. Len(msgs[s + i].calls) /\ i + n \in 1 .. l
    BY <1>3, <2>1
  <2>3. t[i + n] = msgs[s + (i + n)] /\ s + (i + n) = (s + i) + n /\ (s + i) + n <= top
    BY <1>2, <1>3, <2>1, <2>2
  <2>4. Answers(msgs[(s + i) + n], msgs[s + i].calls[n])
    BY <1>4, <2>1, <2>2, <2>3 DEF Matched
  <2> QED
    BY <2>1, <2>3, <2>4
<1>11. t \in Seq(Message) /\ Good(t)
  BY <1>2, <1>9, <1>10 DEF Good
<1> QED
  BY <1>11 DEF t, top

-----------------------------------------------------------------------------
(* The invariant of the log: what stands in the variables that hold a log, *)
(* and, without an overlapping /compact, that each of them needs no repair *)
(* but for the results still to be appended.                               *)
WellLog(l) == l \in Seq(Message) /\ l # <<>> /\ l[1] = System

LogsInv ==
  /\ WellLog(log)
  /\ saved = <<>> \/ WellLog(saved)
  /\ IF pc = "fold" THEN WellLog(read) ELSE read = <<>>
  /\ pass.at \in {"off", "on", "save"}
  /\ pass.at = "off" => pass = NoPass
  /\ pass.at = "on" => WellLog(pass.read)
  /\ calls \in Seq(Calls)
  /\ used \in [{"turns", "rounds", "calls", "passes", "crashes"} -> Nat]

Running == {"stream", "exec", "append", "maintain", "fold"}
PlaceInv ==
  /\ pc \in {"idle", "end"} \cup Running
  /\ round \in Nat /\ round <= MaxSteps /\ (pc \in Running => round < MaxSteps)
  /\ started \in Nat
  /\ usage \in {"none", "low", "high"}
  /\ nth \in Nat /\ (nth = 0 \/ (pc = "append" /\ nth < Len(calls)))
  /\ calls # <<>> <=> pc \in {"exec", "append"}
  /\ pc = "append" => \A k \in DOMAIN calls : Finished(k)

CountInv ==
  /\ ledger \subseteq {"read", "write", "step"} \X BOOLEAN
  /\ storm.count \in Nat /\ (storm.count = 0 <=> storm.sig = <<>>)

Pending == Len(calls) - nth
FrameInv ==
  ~overlapped =>
    /\ Framed(log, Len(log), Pending) /\ Matched(log, Len(log))
    /\ pc \in {"exec", "append"} =>
         Len(log) > nth /\ log[Len(log) - nth] = Calling(calls)
    /\ saved # <<>> => Good(saved)
    /\ pc = "fold" => Good(read)
    /\ pass.at = "on" => Good(pass.read)
    /\ pass # NoPass => pc = "idle"

PairInv == LogsInv /\ PlaceInv /\ CountInv /\ FrameInv

LEMMA PlainMessages ==
  /\ System \in Message /\ ~IsTool(System) /\ System.calls = <<>>
  /\ User \in Message /\ ~IsTool(User) /\ User.calls = <<>>
<1>1. <<>> \in Seq(Calls)
  BY EmptySeq
<1> QED
  BY <1>1 DEF System, User, Text, Message, IsTool

LEMMA CallingIsMessage ==
  ASSUME NEW cs \in Seq(Calls)
  PROVE  Calling(cs) \in Message /\ IsCaller(Calling(cs)) /\ ~IsTool(Calling(cs)) /\ Calling(cs).calls = cs
BY DEF Calling, Message, IsCaller, IsTool

LEMMA ResultIsMessage ==
  ASSUME NEW c \in Calls
  PROVE  /\ Result(c.id, c.serial) \in Message /\ IsTool(Result(c.id, c.serial))
         /\ Answers(Result(c.id, c.serial), c)
<1>1. <<>> \in Seq(Calls) /\ c.id \in Nat /\ c.serial \in Nat
  BY EmptySeq DEF Calls
<1> QED
  BY <1>1 DEF Result, Message, IsTool, Answers

LEMMA Appended ==
  ASSUME NEW msgs \in Seq(Message), NEW m \in Message
  PROVE  /\ Append(msgs, m) \in Seq(Message) /\ Len(Append(msgs, m)) = Len(msgs) + 1
         /\ Len(msgs) \in Nat
         /\ \A i \in 1 .. Len(msgs) : Append(msgs, m)[i] = msgs[i] /\ msgs[i] \in Message
         /\ Append(msgs, m)[Len(msgs) + 1] = m
  BY AppendProperties, LenProperties

(* A message is appended that answers nothing, and nothing is pending.     *)
LEMMA AppendAsks ==
  ASSUME NEW msgs \in Seq(Message), NEW m \in Message, ~IsTool(m), Good(msgs)
  PROVE  /\ Framed(Append(msgs, m), Len(msgs) + 1, Len(m.calls))
         /\ Matched(Append(msgs, m), Len(msgs) + 1)
<1> DEFINE top == Len(msgs)
           new == Append(msgs, m)
<1>1. /\ top \in Nat /\ new[top + 1] = m
      /\ \A i \in 1 .. top : new[i] = msgs[i] /\ msgs[i] \in Message
  BY Appended
<1>2. Framed(msgs, top, 0) /\ Matched(msgs, top)
  BY DEF Good
<1> HIDE DEF new, top
<1>3. \A i \in 1 .. top + 1 : i \in 1 .. top \/ i = top + 1
  BY <1>1
<1>4. Framed(new, top, 0)
  BY <1>1, <1>2, FrameSame
<1>5. \A i \in 1 .. top + 1 : new[i] \in Message
  BY <1>1, <1>3
<1>6. Framed(new, top + 1, Len(m.calls))
  <2>1. ~(0 > 0) /\ 0 \in Nat /\ ~IsTool(new[top + 1])
    BY <1>1
  <2>2. Framed(new, top + 1, Len(new[top + 1].calls))
    BY <1>1, <1>4, <1>5, <2>1, FrameStep
  <2> QED
    BY <1>1, <2>2
<1>7. Matched(new, top + 1)
  <2> SUFFICES ASSUME NEW i \in 1 .. top + 1, NEW n \in 1 .. Len(new[i].calls), i + n <= top + 1
               PROVE  Answers(new[i + n], new[i].calls[n])
    BY DEF Matched
  <2> DEFINE l == Len(new[i].calls)
  <2>1. l \in Nat /\ (~IsCaller(new[i]) => l = 0)
    BY <1>5, MessageParts
  <2>2. n \in 1 .. l
    OBVIOUS
  <2>3. i \in 1 .. top
    <3> HIDE DEF l
    <3> QED
      BY <1>1, <1>3, <2>1, <2>2
  <2>4. IsCaller(msgs[i]) /\ new[i] = msgs[i]
    BY <1>1, <2>1, <2>2, <2>3
  <2>5. i + l <= top + 0
    BY <1>2, <2>3, <2>4 DEF Framed
  <2>6. i + n \in 1 .. top /\ i + n <= top
    <3> HIDE DEF l
    <3> QED
      BY <1>1, <2>1, <2>2, <2>3, <2>5
  <2>7. Answers(msgs[i + n], msgs[i].calls[n])
    BY <1>2, <2>3, <2>4, <2>6 DEF Matched
  <2> QED
    BY <1>1, <2>4, <2>6, <2>7
<1> QED
  BY <1>6, <1>7 DEF new, top

(* The next result of the pending calls is appended.                       *)
LEMMA AppendAnswers ==
  ASSUME NEW msgs \in Seq(Message), NEW cs \in Seq(Calls), NEW done \in Nat, done < Len(cs),
         Len(msgs) > done, msgs[Len(msgs) - done] = Calling(cs),
         Framed(msgs, Len(msgs), Len(cs) - done), Matched(msgs, Len(msgs)),
         NEW m \in Message, IsTool(m), Answers(m, cs[done + 1])
  PROVE  /\ Framed(Append(msgs, m), Len(msgs) + 1, Len(cs) - (done + 1))
         /\ Matched(Append(msgs, m), Len(msgs) + 1)
<1> DEFINE top == Len(msgs)
           new == Append(msgs, m)
           all == Len(cs)
           i0 == top - done
<1>1. /\ top \in Nat /\ new[top + 1] = m
      /\ \A i \in 1 .. top : new[i] = msgs[i] /\ msgs[i] \in Message
  BY Appended
<1>2. all \in Nat /\ msgs[i0] = Calling(cs) /\ i0 \in 1 .. top
  <2>1. all \in Nat
    OBVIOUS
  <2> HIDE DEF top
  <2> QED
    BY <1>1, <2>1 DEF top
<1>3. Framed(msgs, top, all - done) /\ Matched(msgs, top) /\ done < all
  OBVIOUS
<1>4. IsCaller(msgs[i0]) /\ Len(msgs[i0].calls) = all /\ msgs[i0].calls = cs
  BY <1>2, CallingIsMessage
<1> HIDE DEF new, top, all
<1>5. \A i \in 1 .. top + 1 : i \in 1 .. top \/ i = top + 1
  BY <1>1
<1>6. \A i \in 1 .. top + 1 : new[i] \in Message
  BY <1>1, <1>5
<1>7. Framed(new, top + 1, all - (done + 1))
  <2> DEFINE p == all - done
  <2>1. p \in Nat /\ p > 0 /\ p - 1 = all - (done + 1)
    BY <1>2, <1>3
  <2>2. Framed(msgs, top, p)
    BY <1>3
  <2> HIDE DEF p
  <2>3. Framed(new, top, p)
    BY <1>1, <2>2, FrameSame
  <2>4. IsTool(new[top + 1])
    BY <1>1
  <2>5. Framed(new, top + 1, p - 1)
    BY <1>1, <1>6, <2>1, <2>3, <2>4, FrameStep
  <2> QED
    BY <2>1, <2>5
<1>8. Matched(new, top + 1)
  <2> SUFFICES ASSUME NEW i \in 1 .. top + 1, NEW n \in 1 .. Len(new[i].calls), i + n <= top + 1
               PROVE  Answers(new[i + n], new[i].calls[n])
    BY DEF Matched
  <2> DEFINE l == Len(new[i].calls)
  <2>1. l \in Nat /\ (~IsCaller(new[i]) => l = 0)
    BY <1>6, MessageParts
  <2>2. n \in 1 .. l
    OBVIOUS
  <2>3. i \in 1 .. top
    <3> HIDE DEF l
    <3> QED
      BY <1>1, <1>5, <2>1, <2>2
  <2>4. IsCaller(msgs[i]) /\ new[i] = msgs[i] /\ ~IsTool(msgs[i]) /\ msgs[i] \in Message
    <3>1. IsCaller(msgs[i]) /\ new[i] = msgs[i] /\ msgs[i] \in Message
      BY <1>1, <2>1, <2>2, <2>3
    <3> QED
      BY <3>1, MessageParts
  <2>5. CASE i + n <= top
    <3>1. i + n \in 1 .. top
      BY <1>1, <2>1, <2>2, <2>3, <2>5
    <3>2. Answers(msgs[i + n], msgs[i].calls[n])
      BY <1>3, <2>3, <2>4, <2>5 DEF Matched
    <3> QED
      BY <1>1, <2>4, <3>1, <3>2
  <2>6. CASE i + n = top + 1
    <3>1. ~IsTool(msgs[i0])
      BY <1>1, <1>2, <1>4, MessageParts
    <3>2. i = i0
      <4>1. CASE i < i0
        <5>1. i0 \in i + 1 .. top /\ i0 <= i + l
          <6> HIDE DEF l
          <6> QED
            BY <1>1, <1>2, <2>1, <2>2, <2>3, <2>6, <4>1
        <5>2. Covers(msgs, i, i0)
          BY <2>4, <5>1 DEF Covers
        <5> QED
          BY <1>3, <2>3, <2>4, <3>1, <5>1, <5>2 DEF Framed
      <4>2. CASE i > i0
        <5>1. i \in i0 + 1 .. top /\ i <= i0 + all
          BY <1>1, <1>2, <1>3, <2>3, <4>2
        <5>2. Covers(msgs, i0, i)
          BY <1>4, <5>1 DEF Covers
        <5> QED
          BY <1>2, <1>3, <1>4, <2>4, <5>1, <5>2 DEF Framed
      <4> QED
        BY <1>1, <1>2, <2>3, <4>1, <4>2
    <3>3. n = done + 1
      BY <1>1, <1>2, <2>6, <3>2
    <3> QED
      BY <1>1, <1>4, <2>4, <2>6, <3>2, <3>3
  <2>7. i + n <= top \/ i + n = top + 1
    <3>1. n \in Nat
      BY <2>1, <2>2
    <3>2. \A a, b, c \in Nat : a + b <= c + 1 => a + b <= c \/ a + b = c + 1
      OBVIOUS
    <3>3. i \in Nat
      BY <2>3
    <3> QED
      BY <1>1, <3>1, <3>2, <3>3
  <2> QED
    BY <2>5, <2>6, <2>7
<1> QED
  BY <1>7, <1>8 DEF new, top, all

(* A pass replaces the middle of the log by its summary.                   *)
LEMMA CompactedIsWell ==
  ASSUME NEW msgs, WellLog(msgs), NEW start \in Starts(msgs), Worthwhile(start)
  PROVE  WellLog(Compacted(msgs, start)) /\ (Good(msgs) => Good(Compacted(msgs, start)))
<1> DEFINE top == Len(msgs)
           head == SubSeq(msgs, 1, Kept)
           tail == SubSeq(msgs, start + 1, Len(msgs))
<1>1. msgs \in Seq(Message) /\ top \in Nat /\ msgs[1] = System
  BY DEF WellLog
<1>2. start \in 1 .. top - TailFloor /\ (start = 1 \/ ~IsTool(msgs[start + 1]))
  <2>1. PICK s \in Kept + 1 .. top - TailFloor : start = Align(msgs, s)
    BY DEF Starts
  <2> DEFINE J == {t \in Kept .. s : t = Kept \/ ~IsTool(msgs[t + 1])}
  <2>2. TailFloor \in Nat
    BY LimitsAssumption
  <2>3. s \in Nat /\ Kept \in J /\ J \subseteq 0 .. s
    BY <1>1, <2>2 DEF Kept
  <2>4. Max(J) \in J
    BY <2>3, MaxIs
  <2>5. start = Max(J)
    BY <2>1 DEF Align
  <2> HIDE DEF J
  <2>6. start \in J
    BY <2>4, <2>5
  <2>7. start \in 1 .. s /\ (start = 1 \/ ~IsTool(msgs[start + 1]))
    BY <2>6 DEF J, Kept
  <2> QED
    BY <1>1, <2>1, <2>2, <2>7 DEF Kept
<1>3. start >= 3 /\ start \in Nat /\ start < top /\ ~IsTool(msgs[start + 1])
  <2>1. TailFloor \in Nat /\ TailFloor > 1
    BY LimitsAssumption
  <2>2. start - 1 >= 2
    BY DEF Worthwhile, minCompactMessages, Kept
  <2> HIDE DEF top
  <2> QED
    BY <1>1, <1>2, <2>1, <2>2
<1>4. head = <<System>>
  <2>1. /\ SubSeq(msgs, 1, 1) \in Seq(Message) /\ Len(SubSeq(msgs, 1, 1)) = 1
        /\ SubSeq(msgs, 1, 1)[1] = msgs[1]
    <3>1. \A x \in 1 .. 1 : msgs[x] \in Message
      BY <1>1, <1>3
    <3> QED
      BY <1>1, <1>3, <3>1, SubSeqProperties
  <2>2. \A q \in Seq(Message) : Len(q) = 1 => q = <<q[1]>>
    OBVIOUS
  <2> QED
    BY <1>1, <2>1, <2>2 DEF Kept
<1>5. Compacted(msgs, start) = (<<System>> \o <<User>>) \o tail
  BY <1>4 DEF Compacted
<1>6. <<System>> \in Seq(Message) /\ Good(<<System>>) /\ <<User>> \in Seq(Message) /\ Good(<<User>>)
  BY PlainMessages, GoodPlain
<1>7. <<System>> \o <<User>> \in Seq(Message) /\ Good(<<System>> \o <<User>>)
  BY <1>6, GoodConcat
<1>8. tail \in Seq(Message)
  <2>1. \A x \in start + 1 .. top : msgs[x] \in Message
    BY <1>1, <1>3
  <2> QED
    BY <1>1, <1>3, <2>1, SubSeqProperties
<1>9. Good(msgs) => Good(tail)
  BY <1>1, <1>3, GoodTail
<1> HIDE DEF tail
<1>10. WellLog((<<System>> \o <<User>>) \o tail)
  <2> DEFINE h == <<System>> \o <<User>>
             l == h \o tail
  <2>1. Len(<<System>>) = 1 /\ Len(<<User>>) = 1 /\ <<System>>[1] = System
    OBVIOUS
  <2>2. h \in Seq(Message) /\ Len(h) = 2 /\ h[1] = System
    BY <1>6, <2>1, ConcatProperties
  <2> HIDE DEF h
  <2>3. l \in Seq(Message) /\ Len(l) = 2 + Len(tail) /\ Len(tail) \in Nat /\ l[1] = System
    <3>1. Len(tail) \in Nat
      BY <1>8, LenProperties
    <3>2. 1 \in 1 .. Len(h) + Len(tail) /\ 1 <= Len(h)
      BY <2>2, <3>1
    <3> QED
      BY <1>8, <2>2, <3>1, <3>2, ConcatProperties
  <2> HIDE DEF l
  <2>4. l # <<>>
    BY <2>3, EmptySeq
  <2> QED
    BY <2>3, <2>4 DEF WellLog, l, h
<1>11. Good(msgs) => Good((<<System>> \o <<User>>) \o tail)
  BY <1>7, <1>8, <1>9, GoodConcat
<1> QED
  BY <1>5, <1>10, <1>11

LEMMA LogsSame ==
  LogsInv /\ UNCHANGED <<log, saved, pc, read, pass, calls, used>> => LogsInv'
  BY DEF LogsInv, WellLog

Events == {"turns", "rounds", "calls", "passes", "crashes"}
LEMMA Spending ==
  ASSUME used \in [Events -> Nat], NEW event \in Events, NEW n \in Nat, Spend(event, n)
  PROVE  used' \in [Events -> Nat]
BY DEF Spend

LEMMA CallsOfIs ==
  ASSUME NEW batch \in Batches, used.calls \in Nat
  PROVE  CallsOf(batch) \in Seq(Calls) /\ Len(CallsOf(batch)) = Len(batch) /\ Len(batch) \in Nat
<1> DEFINE n == Len(batch)
<1>1. n \in Nat /\ DOMAIN batch = 1 .. n
  BY BatchesAssumption
<1>2. \A k \in 1 .. n : batch[k] \in [tool : Tools, cites : STRING, whole : BOOLEAN]
  <2> DEFINE X == [tool : Tools, cites : STRING, whole : BOOLEAN]
  <2>1. batch \in Seq(X)
    BY BatchesAssumption
  <2> HIDE DEF X
  <2>2. \A k \in 1 .. n : batch[k] \in X
    BY <1>1, <2>1
  <2> QED
    BY <2>2 DEF X
<1>3. \A k \in 1 .. n : used.calls + k \in Nat
  BY <1>1
<1> HIDE DEF n
<1>4. CallsOf(batch) = [k \in 1 .. n |->
         [id |-> IF idless THEN 0 ELSE used.calls + k, serial |-> used.calls + k,
          tool |-> batch[k].tool, cites |-> batch[k].cites, whole |-> batch[k].whole]]
  BY <1>1 DEF CallsOf
<1>5. CallsOf(batch) \in [1 .. n -> Calls]
  BY <1>2, <1>3, <1>4 DEF Calls
<1>6. CallsOf(batch) \in Seq(Calls) /\ Len(CallsOf(batch)) = n
  BY <1>1, <1>5, LenProperties
<1> QED
  BY <1>1, <1>6 DEF n

LEMMA AppendIsWell ==
  ASSUME NEW l, WellLog(l), NEW m \in Message
  PROVE  WellLog(Append(l, m))
<1>1. l \in Seq(Message) /\ l # <<>> /\ l[1] = System
  BY DEF WellLog
<1>2. Len(l) \in Nat /\ Len(l) # 0
  BY <1>1, LenProperties, EmptySeq
<1>3. 1 \in 1 .. Len(l)
  BY <1>2
<1>4. Append(l, m) \in Seq(Message) /\ Append(l, m)[1] = System /\ Len(Append(l, m)) = Len(l) + 1
  BY <1>1, <1>3, Appended
<1>5. Append(l, m) # <<>>
  <2>1. Len(<<>>) = 0 /\ Len(l) + 1 # 0
    BY <1>2
  <2> QED
    BY <1>4, <2>1
<1> QED
  BY <1>4, <1>5 DEF WellLog

LEMMA StepLogs == IInv /\ PairInv /\ [Next]_vars => LogsInv'
<1> SUFFICES ASSUME IInv, PairInv, [Next]_vars PROVE LogsInv'
  OBVIOUS
<1> LogsInv /\ PlaceInv
  BY DEF PairInv
<1>1. ASSUME StartTurn PROVE LogsInv'
  <2>1. used' \in [Events -> Nat]
    BY <1>1, Spending DEF StartTurn, Events, LogsInv
  <2>2. WellLog(log')
    BY <1>1, AppendIsWell, PlainMessages DEF StartTurn, LogsInv
  <2>3. /\ UNCHANGED <<saved, read, calls, pass>> /\ pc' = "stream" /\ read = <<>>
    BY <1>1 DEF StartTurn, LogsInv
  <2> QED
    BY <2>1, <2>2, <2>3 DEF LogsInv, WellLog, Events
<1>2. ASSUME StreamFails PROVE LogsInv'
  BY <1>2 DEF StreamFails, LogsInv, WellLog
<1>3. ASSUME Collect PROVE LogsInv'
  BY <1>3 DEF Collect, LogsInv, WellLog
<1>4. ASSUME AppendResult PROVE LogsInv'
  <2>1. nth + 1 \in 1 .. Len(calls) /\ calls \in Seq(Calls)
    <3>1. calls # <<>> /\ calls \in Seq(Calls) /\ nth \in Nat /\ (nth = 0 \/ nth < Len(calls))
      BY <1>4 DEF AppendResult, PlaceInv, LogsInv
    <3>2. Len(calls) \in Nat /\ Len(calls) # 0
      BY <3>1, LenProperties, EmptySeq
    <3> QED
      BY <3>1, <3>2
  <2>2. calls[nth + 1] \in Calls
    BY <2>1
  <2>3. WellLog(log')
    <3>1. Result(calls[nth + 1].id, calls[nth + 1].serial) \in Message
      BY <2>2, ResultIsMessage
    <3> QED
      BY <1>4, <3>1, AppendIsWell DEF AppendResult, LogsInv
  <2>4. calls' \in Seq(Calls)
    <3>1. calls' = <<>> \/ calls' = calls
      BY <1>4 DEF AppendResult
    <3> QED
      BY <2>1, <3>1, EmptySeq
  <2>5. /\ UNCHANGED <<saved, read, pass, used>> /\ pc' # "fold" /\ pc # "fold"
    BY <1>4 DEF AppendResult
  <2> QED
    BY <2>3, <2>4, <2>5 DEF LogsInv, WellLog
<1>5. ASSUME NEW batch \in Batches, NEW u \in Usages, Answer(batch, u)
      PROVE  LogsInv'
  <2>1. used \in [Events -> Nat]
    BY DEF LogsInv, Events
  <2>2. used.calls \in Nat
    BY <2>1 DEF Events
  <2>3. CallsOf(batch) \in Seq(Calls) /\ Len(batch) \in Nat
    BY <2>2, CallsOfIs
  <2>4. used' \in [Events -> Nat]
    <3>1. used' = [used EXCEPT !.rounds = @ + 1, !.calls = @ + Len(batch)]
      BY <1>5 DEF Answer
    <3>2. "rounds" \in Events /\ "calls" \in Events
      BY DEF Events
    <3>3. used["rounds"] + 1 \in Nat /\ used["calls"] + Len(batch) \in Nat
      BY <2>1, <2>3, <3>2
    <3> QED
      BY <2>1, <3>1, <3>2, <3>3
  <2>5. WellLog(log')
    BY <1>5, <2>3, AppendIsWell, CallingIsMessage DEF Answer, LogsInv
  <2>6. calls' \in Seq(Calls)
    BY <1>5, <2>3 DEF Answer
  <2>7. /\ UNCHANGED <<saved, read, pass>> /\ pc' # "fold" /\ pc # "fold"
    BY <1>5 DEF Answer
  <2> QED
    BY <2>4, <2>5, <2>6, <2>7 DEF LogsInv, WellLog, Events
<1>6. ASSUME NEW k \in DOMAIN calls, Launch(k) PROVE LogsInv'
  BY <1>6, LogsSame DEF Launch
<1>7. ASSUME NEW k \in DOMAIN calls, Refuse(k) PROVE LogsInv'
  BY <1>7, LogsSame DEF Refuse
<1>8. ASSUME NEW k \in DOMAIN calls, NEW ok \in BOOLEAN, Execute(k, ok)
      PROVE  LogsInv'
  BY <1>8, LogsSame DEF Execute
<1>9. ASSUME Maintain PROVE LogsInv'
  <2>1. CASE pc' # "fold" /\ UNCHANGED read
    <3>1. UNCHANGED <<log, saved, calls, pass, used>> /\ pc # "fold"
      BY <1>9 DEF Maintain
    <3> QED
      BY <2>1, <3>1 DEF LogsInv, WellLog
  <2>2. CASE pc' = "fold" /\ read' = log
    <3>1. UNCHANGED <<log, saved, calls, pass, used>>
      BY <1>9 DEF Maintain
    <3> QED
      BY <2>2, <3>1 DEF LogsInv, WellLog
  <2> QED
    BY <1>9, <2>1, <2>2 DEF Maintain, NextRound, PassDone
<1>10. ASSUME Fold PROVE LogsInv'
  <2>1. WellLog(log')
    BY <1>10, CompactedIsWell DEF Fold, LogsInv
  <2>2. pc' # "fold" /\ read' = <<>> /\ UNCHANGED <<saved, calls, pass, used>>
    BY <1>10 DEF Fold, NextRound, PassDone
  <2> QED
    BY <2>1, <2>2 DEF LogsInv, WellLog
<1>11. ASSUME FoldFails PROVE LogsInv'
  BY <1>11 DEF FoldFails, NextRound, LogsInv, WellLog
<1>12. ASSUME EndTurn PROVE LogsInv'
  BY <1>12 DEF EndTurn, LogsInv, WellLog
<1>13. ASSUME PassStarts PROVE LogsInv'
  <2>1. used' \in [Events -> Nat]
    BY <1>13, Spending DEF PassStarts, Events, LogsInv
  <2>2. WellLog(log) /\ UNCHANGED <<log, saved, pc, read, calls>> /\ pass' = [at |-> "on", read |-> log]
    BY <1>13 DEF PassStarts, LogsInv
  <2> QED
    BY <2>1, <2>2 DEF LogsInv, WellLog, Events
<1>14. ASSUME PassReplaces PROVE LogsInv'
  <2>1. WellLog(log')
    BY <1>14, CompactedIsWell DEF PassReplaces, LogsInv
  <2>2. UNCHANGED <<saved, pc, read, calls, used>> /\ pass' = [at |-> "save", read |-> <<>>]
    BY <1>14 DEF PassReplaces
  <2> QED
    BY <2>1, <2>2 DEF LogsInv, WellLog
<1>15. ASSUME PassFails PROVE LogsInv'
  BY <1>15 DEF PassFails, NoPass, LogsInv, WellLog
<1>16. ASSUME PassSaves PROVE LogsInv'
  BY <1>16 DEF PassSaves, NoPass, LogsInv, WellLog
<1>17. ASSUME Crash PROVE LogsInv'
  <2>1. used' \in [Events -> Nat]
    BY <1>17, Spending DEF Crash, Events, LogsInv
  <2>2. WellLog(<<System>>)
    BY PlainMessages DEF WellLog
  <2>3. WellLog(log')
    BY <1>17, <2>2 DEF Crash, LogsInv
  <2>4. UNCHANGED saved /\ pc' = "idle" /\ read' = <<>> /\ pass' = NoPass /\ calls' = <<>>
    BY <1>17 DEF Crash
  <2>5. <<>> \in Seq(Calls)
    BY EmptySeq
  <2> QED
    BY <2>1, <2>3, <2>4, <2>5 DEF LogsInv, WellLog, Events, NoPass
<1>18. CASE UNCHANGED vars
  BY <1>18, LogsSame DEF vars
<1> QED
  BY <1>1, <1>2, <1>3, <1>4, <1>5, <1>6, <1>7, <1>8, <1>9, <1>10, <1>11,
     <1>12, <1>13, <1>14, <1>15, <1>16, <1>17, <1>18
     DEF Next

LEMMA PlaceSame ==
  PlaceInv /\ UNCHANGED <<pc, round, started, usage, nth, calls, st>> => PlaceInv'
  BY DEF PlaceInv, Running, Finished

LEMMA RoundEnds ==
  ASSUME PlaceInv, pc \in {"maintain", "fold"}, NextRound, UNCHANGED <<started, nth, calls, st>>
  PROVE  PlaceInv'
<1>1. round \in Nat /\ round < MaxSteps /\ MaxSteps \in Nat
  BY LimitsAssumption DEF PlaceInv, Running
<1>2. round' = round + 1 /\ usage' = "none" /\ pc' = IF round + 1 = MaxSteps THEN "end" ELSE "stream"
  BY DEF NextRound
<1>3. round' \in Nat /\ round' <= MaxSteps /\ (pc' = "stream" => round' < MaxSteps)
      /\ pc' \in {"end", "stream"}
  BY <1>1, <1>2
<1>4. nth = 0 /\ calls = <<>> /\ started \in Nat
  BY DEF PlaceInv
<1> QED
  BY <1>2, <1>3, <1>4 DEF PlaceInv, Running

LEMMA StepPlace == IInv /\ PairInv /\ [Next]_vars => PlaceInv'
<1> SUFFICES ASSUME IInv, PairInv, [Next]_vars PROVE PlaceInv'
  OBVIOUS
<1> PlaceInv
  BY DEF PairInv
<1>1. ASSUME StartTurn PROVE PlaceInv'
  <2>1. Len(log) \in Nat
    BY DEF PairInv, LogsInv, WellLog
  <2>2. /\ pc = "idle" /\ pc' = "stream" /\ started' = Len(log) /\ round' = 0
        /\ UNCHANGED <<calls, usage, st, nth>>
    BY <1>1 DEF StartTurn
  <2>3. 0 < MaxSteps /\ 0 <= MaxSteps
    BY LimitsAssumption
  <2>4. nth = 0 /\ calls = <<>> /\ usage \in {"none", "low", "high"}
    BY <2>2 DEF PlaceInv
  <2> QED
    BY <2>1, <2>2, <2>3, <2>4 DEF PlaceInv, Running
<1>2. ASSUME StreamFails PROVE PlaceInv'
  BY <1>2 DEF StreamFails, PlaceInv, Running
<1>3. ASSUME Collect PROVE PlaceInv'
  <2>1. /\ pc = "exec" /\ pc' = "append" /\ nth' = 0 /\ (\A k \in DOMAIN calls : Finished(k))
        /\ UNCHANGED <<round, started, usage, calls, st>>
    BY <1>3 DEF Collect
  <2>2. calls # <<>> /\ \A k \in DOMAIN calls' : Finished(k)'
    BY <2>1 DEF PlaceInv, Finished
  <2> QED
    BY <2>1, <2>2 DEF PlaceInv, Running
<1>4. ASSUME AppendResult PROVE PlaceInv'
  <2>1. /\ pc = "append" /\ UNCHANGED <<round, started, usage>>
        /\ \/ nth + 1 = Len(calls) /\ pc' = "maintain" /\ nth' = 0 /\ calls' = <<>>
           \/ nth + 1 # Len(calls) /\ pc' = pc /\ nth' = nth + 1 /\ UNCHANGED <<calls, st>>
    BY <1>4 DEF AppendResult
  <2>2. nth \in Nat /\ (nth = 0 \/ nth < Len(calls)) /\ calls # <<>> /\ \A k \in DOMAIN calls : Finished(k)
    BY <2>1 DEF PlaceInv
  <2>3. Len(calls) \in Nat /\ Len(calls) # 0
    BY <2>2, LenProperties, EmptySeq DEF PairInv, LogsInv
  <2>4. nth + 1 # Len(calls) => nth + 1 \in Nat /\ nth + 1 < Len(calls)
    BY <2>2, <2>3
  <2>5. CASE calls' = <<>> /\ pc' = "maintain" /\ nth' = 0
    BY <2>1, <2>5 DEF PlaceInv, Running
  <2>6. CASE nth + 1 # Len(calls) /\ pc' = pc /\ nth' = nth + 1 /\ UNCHANGED <<calls, st>>
    <3>1. \A k \in DOMAIN calls' : Finished(k)'
      BY <2>2, <2>6 DEF Finished
    <3>2. nth' \in Nat /\ nth' < Len(calls') /\ calls' # <<>> /\ pc' = "append"
      BY <2>1, <2>2, <2>4, <2>6
    <3> QED
      BY <2>1, <3>1, <3>2 DEF PlaceInv, Running
  <2> QED
    BY <2>1, <2>5, <2>6
<1>5. ASSUME NEW batch \in Batches, NEW u \in Usages, Answer(batch, u)
      PROVE  PlaceInv'
  <2>1. /\ pc = "stream" /\ calls' = CallsOf(batch) /\ usage' = u
        /\ pc' = (IF batch = <<>> THEN "end" ELSE "exec") /\ UNCHANGED <<started, round, nth>>
    BY <1>5 DEF Answer
  <2>2. calls' # <<>> <=> batch # <<>>
    <3>1. used.calls \in Nat
      BY DEF PairInv, LogsInv
    <3>2. CallsOf(batch) \in Seq(Calls) /\ Len(CallsOf(batch)) = Len(batch)
      BY <3>1, CallsOfIs
    <3>3. batch = <<>> <=> Len(batch) = 0
      BY BatchesAssumption, EmptySeq
    <3>4. CallsOf(batch) = <<>> <=> Len(CallsOf(batch)) = 0
      BY <3>2, EmptySeq
    <3> QED
      BY <2>1, <3>2, <3>3, <3>4
  <2>3. u \in {"none", "low", "high"}
    BY UsagesAssumption
  <2>4. nth = 0 /\ round < MaxSteps /\ round \in Nat /\ started \in Nat /\ round <= MaxSteps
    BY <2>1 DEF PlaceInv, Running
  <2> QED
    BY <2>1, <2>2, <2>3, <2>4 DEF PlaceInv, Running
<1>6. ASSUME NEW k \in DOMAIN calls, Launch(k) PROVE PlaceInv'
  <2>1. pc = "exec" /\ UNCHANGED <<pc, round, started, usage, nth, calls>>
    BY <1>6 DEF Launch
  <2> QED
    BY <2>1 DEF PlaceInv, Running
<1>7. ASSUME NEW k \in DOMAIN calls, Refuse(k) PROVE PlaceInv'
  <2>1. pc = "exec" /\ UNCHANGED <<pc, round, started, usage, nth, calls>>
    BY <1>7 DEF Refuse
  <2> QED
    BY <2>1 DEF PlaceInv, Running
<1>8. ASSUME NEW k \in DOMAIN calls, NEW ok \in BOOLEAN, Execute(k, ok)
      PROVE  PlaceInv'
  <2>1. pc = "exec" /\ UNCHANGED <<pc, round, started, usage, nth, calls>>
    BY <1>8 DEF Execute
  <2> QED
    BY <2>1 DEF PlaceInv, Running
<1>9. ASSUME Maintain PROVE PlaceInv'
  <2>1. pc = "maintain" /\ UNCHANGED <<started, nth, calls, st>>
    BY <1>9 DEF Maintain
  <2>2. CASE NextRound
    BY <2>1, <2>2, RoundEnds
  <2>3. CASE pc' = "fold" /\ UNCHANGED <<round, usage>>
    BY <2>1, <2>3 DEF PlaceInv, Running
  <2> QED
    BY <1>9, <2>2, <2>3 DEF Maintain, PassDone
<1>10. ASSUME Fold PROVE PlaceInv'
  BY <1>10, RoundEnds DEF Fold, PassDone
<1>11. ASSUME FoldFails PROVE PlaceInv'
  BY <1>11, RoundEnds DEF FoldFails
<1>12. ASSUME EndTurn PROVE PlaceInv'
  BY <1>12 DEF EndTurn, PlaceInv, Running
<1>13. ASSUME PassStarts PROVE PlaceInv'
  BY <1>13, PlaceSame DEF PassStarts
<1>14. ASSUME PassReplaces PROVE PlaceInv'
  BY <1>14, PlaceSame DEF PassReplaces
<1>15. ASSUME PassFails PROVE PlaceInv'
  BY <1>15, PlaceSame DEF PassFails
<1>16. ASSUME PassSaves PROVE PlaceInv'
  BY <1>16, PlaceSame DEF PassSaves
<1>17. ASSUME Crash PROVE PlaceInv'
  <2>1. /\ pc' = "idle" /\ started' = 0 /\ round' = 0 /\ usage' = "none"
        /\ calls' = <<>> /\ nth' = 0
    BY <1>17 DEF Crash
  <2>2. 0 \in Nat /\ 0 <= MaxSteps
    BY LimitsAssumption
  <2> QED
    BY <2>1, <2>2 DEF PlaceInv, Running
<1>18. CASE UNCHANGED vars
  BY <1>18, PlaceSame DEF vars
<1> QED
  BY <1>1, <1>2, <1>3, <1>4, <1>5, <1>6, <1>7, <1>8, <1>9, <1>10, <1>11,
     <1>12, <1>13, <1>14, <1>15, <1>16, <1>17, <1>18
     DEF Next

LEMMA CountSame == CountInv /\ UNCHANGED <<ledger, storm>> => CountInv'
  BY DEF CountInv

LEMMA StepCount == IInv /\ PairInv /\ [Next]_vars => CountInv'
<1> SUFFICES ASSUME IInv, PairInv, [Next]_vars PROVE CountInv'
  OBVIOUS
<1> CountInv
  BY DEF PairInv
<1>1. ASSUME StartTurn PROVE CountInv'
  BY <1>1 DEF StartTurn, ResetLedger, CountInv
<1>2. ASSUME StreamFails PROVE CountInv'
  BY <1>2, CountSame DEF StreamFails
<1>3. ASSUME Collect PROVE CountInv'
  <2>1. storm' = Counted(Signature) /\ UNCHANGED ledger
    BY <1>3 DEF Collect
  <2>2. storm = [sig |-> storm.sig, count |-> storm.count]
    BY DEF IInv, StormInv
  <2>3. storm.count \in Nat /\ (storm.count = 0 <=> storm.sig = <<>>)
    BY DEF CountInv
  <2> DEFINE sig == Signature
  <2> HIDE DEF sig
  <2>4. Counted(sig).count \in Nat /\ (Counted(sig).count = 0 <=> Counted(sig).sig = <<>>)
    <3>1. CASE sig = <<>>
      BY <3>1 DEF Counted, NoStorm
    <3>2. CASE sig # <<>> /\ sig # storm.sig
      BY <3>2 DEF Counted
    <3>3. CASE sig # <<>> /\ sig = storm.sig
      <4>1. Counted(sig) = [storm EXCEPT !.count = storm.count + 1]
        BY <3>3 DEF Counted
      <4>2. Counted(sig) = [sig |-> storm.sig, count |-> storm.count + 1]
        BY <2>2, <4>1
      <4>3. storm.count + 1 \in Nat /\ storm.count + 1 # 0
        BY <2>3
      <4> QED
        BY <3>3, <4>2, <4>3
    <3> QED
      BY <3>1, <3>2, <3>3
  <2> QED
    BY <2>1, <2>4 DEF CountInv, sig
<1>4. ASSUME AppendResult PROVE CountInv'
  BY <1>4, CountSame DEF AppendResult
<1>5. ASSUME NEW batch \in Batches, NEW u \in Usages, Answer(batch, u)
      PROVE  CountInv'
  BY <1>5, CountSame DEF Answer
<1>6. ASSUME NEW k \in DOMAIN calls, Launch(k) PROVE CountInv'
  BY <1>6, CountSame DEF Launch
<1>7. ASSUME NEW k \in DOMAIN calls, Refuse(k) PROVE CountInv'
  BY <1>7, CountSame DEF Refuse
<1>8. ASSUME NEW k \in DOMAIN calls, NEW ok \in BOOLEAN, Execute(k, ok)
      PROVE  CountInv'
  <2>1. calls[k].tool \in {"read", "write", "step"}
    <3>1. calls \in Seq(Calls) /\ k \in DOMAIN calls
      BY DEF PairInv, LogsInv
    <3>2. calls[k] \in Calls
      BY <3>1
    <3>3. calls[k].tool \in Tools
      BY <3>2 DEF Calls
    <3> QED
      BY <1>8, <3>3 DEF Execute, Tools
  <2>2. UNCHANGED storm
    BY <1>8 DEF Execute
  <2>3. ledger' \subseteq ledger \cup {<<calls[k].tool, ok>>}
    BY <1>8 DEF Execute
  <2>4. <<calls[k].tool, ok>> \in {"read", "write", "step"} \X BOOLEAN
    BY <2>1
  <2> QED
    BY <2>2, <2>3, <2>4 DEF CountInv
<1>9. ASSUME Maintain PROVE CountInv'
  BY <1>9, CountSame DEF Maintain
<1>10. ASSUME Fold PROVE CountInv'
  BY <1>10, CountSame DEF Fold
<1>11. ASSUME FoldFails PROVE CountInv'
  BY <1>11, CountSame DEF FoldFails
<1>12. ASSUME EndTurn PROVE CountInv'
  BY <1>12, CountSame DEF EndTurn
<1>13. ASSUME PassStarts PROVE CountInv'
  BY <1>13, CountSame DEF PassStarts
<1>14. ASSUME PassReplaces PROVE CountInv'
  BY <1>14, CountSame DEF PassReplaces
<1>15. ASSUME PassFails PROVE CountInv'
  BY <1>15, CountSame DEF PassFails
<1>16. ASSUME PassSaves PROVE CountInv'
  BY <1>16, CountSame DEF PassSaves
<1>17. ASSUME Crash PROVE CountInv'
  BY <1>17 DEF Crash, NoStorm, CountInv
<1>18. CASE UNCHANGED vars
  BY <1>18, CountSame DEF vars
<1> QED
  BY <1>1, <1>2, <1>3, <1>4, <1>5, <1>6, <1>7, <1>8, <1>9, <1>10, <1>11,
     <1>12, <1>13, <1>14, <1>15, <1>16, <1>17, <1>18
     DEF Next

LEMMA NothingPending == PlaceInv /\ pc \notin {"exec", "append"} => Pending = 0
<1> SUFFICES ASSUME PlaceInv, pc \notin {"exec", "append"} PROVE Pending = 0
  OBVIOUS
<1>1. calls = <<>> /\ nth = 0
  BY DEF PlaceInv
<1>2. Len(<<>>) = 0
  OBVIOUS
<1> QED
  BY <1>1, <1>2 DEF Pending

(* Between batches it is enough that each log needs no repair.             *)
AllGood ==
  /\ Good(log)
  /\ saved # <<>> => Good(saved)
  /\ pc = "fold" => Good(read)
  /\ pass.at = "on" => Good(pass.read)
  /\ pass # NoPass => pc = "idle"

LEMMA FrameSettles ==
  PlaceInv /\ pc \notin {"exec", "append"} => (FrameInv <=> (~overlapped => AllGood))
  BY NothingPending DEF FrameInv, AllGood, Good

LEMMA FrameSettlesNext ==
  (PlaceInv /\ pc \notin {"exec", "append"} => (FrameInv <=> (~overlapped => AllGood)))'
  BY FrameSettles, PTL

LEMMA FrameKept ==
  FrameInv /\ UNCHANGED <<log, calls, nth, pc, saved, read, pass, overlapped>> => FrameInv'
  BY DEF FrameInv, Pending

LEMMA FramesGrow ==
  ASSUME WellLog(log), Good(log), NEW m \in Message, ~IsTool(m), m.calls = <<>>
  PROVE  Good(Append(log, m))
<1>1. log \in Seq(Message) /\ Len(m.calls) = 0
  BY DEF WellLog
<1> QED
  BY <1>1, AppendAsks, Appended DEF Good

LEMMA StepFrame == IInv /\ PairInv /\ [Next]_vars => FrameInv'
<1> SUFFICES ASSUME IInv, PairInv, [Next]_vars PROVE FrameInv'
  OBVIOUS
<1> LogsInv /\ PlaceInv /\ FrameInv
  BY DEF PairInv
<1> PlaceInv'
  BY StepPlace
<1>1. ASSUME StartTurn PROVE FrameInv'
  <2>1. pc \notin {"exec", "append"} /\ pc' \notin {"exec", "append"}
    BY <1>1 DEF StartTurn
  <2>2. ASSUME ~overlapped' PROVE AllGood'
    <3>1. ~overlapped /\ pass = NoPass /\ UNCHANGED <<saved, pass>> /\ log' = Append(log, User)
          /\ pc' # "fold"
      BY <1>1, <2>2 DEF StartTurn
    <3>2. AllGood
      BY <2>1, <3>1, FrameSettles
    <3>3. Good(log')
      BY <3>1, <3>2, FramesGrow, PlainMessages DEF AllGood, LogsInv
    <3> QED
      BY <3>1, <3>2, <3>3 DEF AllGood
  <2> QED
    BY <2>1, <2>2, FrameSettlesNext
<1>2. ASSUME StreamFails PROVE FrameInv'
  <2>1. pc \notin {"exec", "append"} /\ pc' \notin {"exec", "append"}
    BY <1>2 DEF StreamFails
  <2>2. ASSUME ~overlapped' PROVE AllGood'
    <3>1. ~overlapped /\ UNCHANGED <<saved, pass, log>> /\ pc = "stream" /\ pc' # "fold"
      BY <1>2, <2>2 DEF StreamFails
    <3>2. AllGood
      BY <2>1, <3>1, FrameSettles
    <3> QED
      BY <3>1, <3>2 DEF AllGood
  <2> QED
    BY <2>1, <2>2, FrameSettlesNext
<1>3. ASSUME Collect PROVE FrameInv'
  <2>1. /\ pc = "exec" /\ pc' = "append" /\ nth' = 0
        /\ UNCHANGED <<log, calls, saved, read, pass, overlapped>>
    BY <1>3 DEF Collect
  <2>2. nth = 0
    BY <2>1 DEF PlaceInv
  <2> QED
    BY <2>1, <2>2 DEF FrameInv, Pending
<1>4. ASSUME AppendResult PROVE FrameInv'
  <2> SUFFICES ASSUME ~overlapped' PROVE FrameInv'
    BY DEF FrameInv
  <2> DEFINE m == Result(calls[nth + 1].id, calls[nth + 1].serial)
  <2>1. /\ pc = "append" /\ ~overlapped /\ log' = Append(log, m)
        /\ \/ nth + 1 = Len(calls) /\ pc' = "maintain" /\ nth' = 0 /\ calls' = <<>>
           \/ nth + 1 # Len(calls) /\ pc' = pc /\ nth' = nth + 1 /\ calls' = calls
        /\ UNCHANGED <<saved, read, pass>>
    BY <1>4 DEF AppendResult
  <2>2. /\ nth \in Nat /\ nth < Len(calls) /\ Len(calls) \in Nat
        /\ calls \in Seq(Calls) /\ calls[nth + 1] \in Calls /\ log \in Seq(Message)
    <3>1. calls # <<>> /\ calls \in Seq(Calls) /\ nth \in Nat /\ (nth = 0 \/ nth < Len(calls))
          /\ log \in Seq(Message)
      BY <2>1 DEF PlaceInv, LogsInv, WellLog
    <3>2. Len(calls) \in Nat /\ Len(calls) # 0
      BY <3>1, LenProperties, EmptySeq
    <3>3. nth + 1 \in 1 .. Len(calls)
      BY <3>1, <3>2
    <3> QED
      BY <3>1, <3>2, <3>3
  <2>3. m \in Message /\ IsTool(m) /\ Answers(m, calls[nth + 1])
    BY <2>2, ResultIsMessage
  <2>4. /\ Framed(log, Len(log), Len(calls) - nth) /\ Matched(log, Len(log))
        /\ Len(log) > nth /\ log[Len(log) - nth] = Calling(calls)
    BY <2>1 DEF FrameInv, Pending
  <2> HIDE DEF m
  <2>5. /\ Framed(log', Len(log) + 1, Len(calls) - (nth + 1))
        /\ Matched(log', Len(log) + 1)
    BY <2>1, <2>2, <2>3, <2>4, AppendAnswers
  <2>6. /\ Len(log') = Len(log) + 1 /\ Len(log) \in Nat
        /\ \A i \in 1 .. Len(log) : log'[i] = log[i]
    BY <2>1, <2>2, <2>3, Appended
  <2>7. /\ saved' # <<>> => Good(saved')
        /\ pass = NoPass /\ pass.at # "on"
    BY <2>1 DEF FrameInv, NoPass
  <2>8. CASE pc' = "maintain" /\ nth' = 0 /\ calls' = <<>> /\ nth + 1 = Len(calls)
    <3>1. Len(calls) - (nth + 1) = 0 /\ Len(<<>>) - 0 = 0
      BY <2>2, <2>8
    <3>2. Pending' = 0
      BY <2>8, <3>1 DEF Pending
    <3> QED
      BY <2>1, <2>5, <2>6, <2>7, <2>8, <3>1, <3>2 DEF FrameInv
  <2>9. CASE pc' = pc /\ nth' = nth + 1 /\ calls' = calls
    <3>1. Pending' = Len(calls) - (nth + 1)
      BY <2>9 DEF Pending
    <3>2. Len(log) + 1 > nth + 1 /\ (Len(log) + 1) - (nth + 1) = Len(log) - nth
          /\ Len(log) - nth \in 1 .. Len(log)
      BY <2>2, <2>4, <2>6
    <3>3. Len(log') > nth' /\ log'[Len(log') - nth'] = Calling(calls')
      BY <2>4, <2>6, <2>9, <3>2
    <3> QED
      BY <2>1, <2>5, <2>6, <2>7, <2>9, <3>1, <3>3 DEF FrameInv
  <2> QED
    BY <2>1, <2>8, <2>9
<1>5. ASSUME NEW batch \in Batches, NEW u \in Usages, Answer(batch, u)
      PROVE  FrameInv'
  <2> SUFFICES ASSUME ~overlapped' PROVE FrameInv'
    BY DEF FrameInv
  <2> DEFINE cs == CallsOf(batch)
             m == Calling(cs)
  <2>1. /\ pc = "stream" /\ ~overlapped /\ calls' = cs /\ log' = Append(log, m)
        /\ pc' # "fold" /\ UNCHANGED <<nth, saved, read, pass>>
    BY <1>5 DEF Answer
  <2>2. cs \in Seq(Calls)
    <3>1. used.calls \in Nat
      BY DEF LogsInv
    <3> QED
      BY <3>1, CallsOfIs
  <2>3. m \in Message /\ ~IsTool(m) /\ m.calls = cs
    BY <2>2, CallingIsMessage
  <2>4. nth = 0 /\ Len(cs) \in Nat /\ Len(cs) - 0 = Len(cs)
    BY <2>1, <2>2 DEF PlaceInv
  <2>5. AllGood
    BY <2>1, FrameSettles
  <2>6. log \in Seq(Message)
    BY DEF LogsInv, WellLog
  <2> HIDE DEF m, cs
  <2>7. /\ Framed(log', Len(log) + 1, Len(cs)) /\ Matched(log', Len(log) + 1)
    BY <2>1, <2>3, <2>5, <2>6, AppendAsks DEF AllGood
  <2>8. /\ Len(log') = Len(log) + 1 /\ Len(log) \in Nat /\ log'[Len(log) + 1] = m
    BY <2>1, <2>3, <2>6, Appended
  <2>9. Pending' = Len(cs)
    BY <2>1, <2>4 DEF Pending
  <2>10. Len(log') > nth' /\ Len(log') - nth' = Len(log) + 1
    BY <2>1, <2>4, <2>8
  <2>11. log'[Len(log') - nth'] = Calling(calls')
    BY <2>1, <2>8, <2>10 DEF m
  <2>12. /\ saved' # <<>> => Good(saved')
         /\ pass = NoPass /\ pass.at # "on"
    BY <2>1, <2>5 DEF AllGood, NoPass
  <2> QED
    BY <2>1, <2>7, <2>8, <2>9, <2>10, <2>11, <2>12 DEF FrameInv
<1>6. ASSUME NEW k \in DOMAIN calls, Launch(k) PROVE FrameInv'
  BY <1>6, FrameKept DEF Launch
<1>7. ASSUME NEW k \in DOMAIN calls, Refuse(k) PROVE FrameInv'
  BY <1>7, FrameKept DEF Refuse
<1>8. ASSUME NEW k \in DOMAIN calls, NEW ok \in BOOLEAN, Execute(k, ok)
      PROVE  FrameInv'
  BY <1>8, FrameKept DEF Execute
<1>9. ASSUME Maintain PROVE FrameInv'
  <2>1. pc \notin {"exec", "append"} /\ pc' \notin {"exec", "append"}
    BY <1>9 DEF Maintain, NextRound, PassDone
  <2>2. ASSUME ~overlapped' PROVE AllGood'
    <3>1. ~overlapped /\ UNCHANGED <<saved, pass, log>> /\ pc = "maintain"
          /\ (pc' = "fold" => read' = log)
      BY <1>9, <2>2 DEF Maintain, NextRound, PassDone
    <3>2. AllGood
      BY <2>1, <3>1, FrameSettles
    <3> QED
      BY <3>1, <3>2 DEF AllGood
  <2> QED
    BY <2>1, <2>2, FrameSettlesNext
<1>10. ASSUME Fold PROVE FrameInv'
  <2>1. pc \notin {"exec", "append"} /\ pc' \notin {"exec", "append"}
    BY <1>10 DEF Fold, NextRound, PassDone
  <2>2. ASSUME ~overlapped' PROVE AllGood'
    <3>1. ~overlapped /\ UNCHANGED <<saved, pass>> /\ pc = "fold" /\ pc' # "fold"
      BY <1>10, <2>2 DEF Fold, NextRound, PassDone
    <3>2. AllGood /\ WellLog(read)
      BY <2>1, <3>1, FrameSettles DEF LogsInv
    <3>3. Good(log')
      BY <1>10, <3>1, <3>2, CompactedIsWell DEF Fold, AllGood
    <3> QED
      BY <3>1, <3>2, <3>3 DEF AllGood
  <2> QED
    BY <2>1, <2>2, FrameSettlesNext
<1>11. ASSUME FoldFails PROVE FrameInv'
  <2>1. pc \notin {"exec", "append"} /\ pc' \notin {"exec", "append"}
    BY <1>11 DEF FoldFails, NextRound
  <2>2. ASSUME ~overlapped' PROVE AllGood'
    <3>1. ~overlapped /\ UNCHANGED <<saved, pass, log>> /\ pc = "fold" /\ pc' # "fold"
      BY <1>11, <2>2 DEF FoldFails, NextRound
    <3>2. AllGood
      BY <2>1, <3>1, FrameSettles
    <3> QED
      BY <3>1, <3>2 DEF AllGood
  <2> QED
    BY <2>1, <2>2, FrameSettlesNext
<1>12. ASSUME EndTurn PROVE FrameInv'
  <2>1. pc \notin {"exec", "append"} /\ pc' \notin {"exec", "append"}
    BY <1>12 DEF EndTurn
  <2>2. ASSUME ~overlapped' PROVE AllGood'
    <3>1. ~overlapped /\ UNCHANGED <<pass, log>> /\ saved' \in {log, saved} /\ pc' = "idle"
      BY <1>12, <2>2 DEF EndTurn
    <3>2. AllGood
      BY <2>1, <3>1, FrameSettles
    <3> QED
      BY <3>1, <3>2 DEF AllGood
  <2> QED
    BY <2>1, <2>2, FrameSettlesNext
<1>13. ASSUME PassStarts PROVE FrameInv'
  <2> SUFFICES ASSUME ~overlapped' PROVE FrameInv'
    BY DEF FrameInv
  <2>1. /\ ~overlapped /\ pc = "idle" /\ pc' = "idle" /\ UNCHANGED <<saved, log>>
        /\ pass' = [at |-> "on", read |-> log]
    BY <1>13 DEF PassStarts
  <2>2. AllGood
    BY <2>1, FrameSettles
  <2>3. AllGood'
    BY <2>1, <2>2 DEF AllGood
  <2> QED
    BY <2>1, <2>3, FrameSettlesNext
<1>14. ASSUME PassReplaces PROVE FrameInv'
  <2> SUFFICES ASSUME ~overlapped' PROVE FrameInv'
    BY DEF FrameInv
  <2>1. /\ ~overlapped /\ pass.at = "on" /\ UNCHANGED <<saved, pc>>
        /\ pass' = [at |-> "save", read |-> <<>>]
    BY <1>14 DEF PassReplaces
  <2>2. pc = "idle"
    BY <2>1 DEF FrameInv, NoPass
  <2>3. AllGood /\ WellLog(pass.read)
    BY <2>1, <2>2, FrameSettles DEF LogsInv
  <2>4. Good(log')
    BY <1>14, <2>1, <2>3, CompactedIsWell DEF PassReplaces, AllGood
  <2>5. AllGood'
    BY <2>1, <2>2, <2>3, <2>4 DEF AllGood
  <2> QED
    BY <2>1, <2>2, <2>5, FrameSettlesNext
<1>15. ASSUME PassFails PROVE FrameInv'
  BY <1>15 DEF PassFails, NoPass, FrameInv, Pending
<1>16. ASSUME PassSaves PROVE FrameInv'
  <2> SUFFICES ASSUME ~overlapped' PROVE FrameInv'
    BY DEF FrameInv
  <2>1. /\ ~overlapped /\ pass.at = "save" /\ UNCHANGED <<log, pc>> /\ saved' = log
        /\ pass' = NoPass
    BY <1>16 DEF PassSaves
  <2>2. pc = "idle"
    BY <2>1 DEF FrameInv, NoPass
  <2>3. AllGood
    BY <2>1, <2>2, FrameSettles
  <2>4. AllGood'
    BY <2>1, <2>2, <2>3 DEF AllGood, NoPass
  <2> QED
    BY <2>1, <2>2, <2>4, FrameSettlesNext
<1>17. ASSUME Crash PROVE FrameInv'
  <2> SUFFICES ASSUME ~overlapped' PROVE FrameInv'
    BY DEF FrameInv
  <2>1. /\ ~overlapped /\ pc' = "idle" /\ pass' = NoPass /\ UNCHANGED saved
        /\ log' = IF saved = <<>> THEN <<System>> ELSE saved
    BY <1>17 DEF Crash
  <2>2. saved # <<>> => Good(saved)
    BY <2>1 DEF FrameInv
  <2>3. Good(<<System>>)
    BY PlainMessages, GoodPlain
  <2>4. AllGood'
    BY <2>1, <2>2, <2>3 DEF AllGood, NoPass
  <2> QED
    BY <2>1, <2>4, FrameSettlesNext
<1>18. CASE UNCHANGED vars
  BY <1>18, FrameKept DEF vars
<1> QED
  BY <1>1, <1>2, <1>3, <1>4, <1>5, <1>6, <1>7, <1>8, <1>9, <1>10, <1>11,
     <1>12, <1>13, <1>14, <1>15, <1>16, <1>17, <1>18
     DEF Next

LEMMA InitPair == Init => PairInv
<1> SUFFICES ASSUME Init PROVE PairInv
  OBVIOUS
<1>1. LogsInv
  <2>1. /\ log = <<System>> /\ saved = <<>> /\ read = <<>> /\ pc = "idle" /\ pass = NoPass
        /\ calls = <<>> /\ used = [e \in {"turns", "rounds", "calls", "passes", "crashes"} |-> 0]
    BY DEF Init
  <2>2. WellLog(<<System>>)
    BY PlainMessages DEF WellLog
  <2>3. calls \in Seq(Calls)
    BY <2>1, EmptySeq
  <2> QED
    BY <2>1, <2>2, <2>3 DEF LogsInv, NoPass
<1>2. PlaceInv
  <2>1. pc = "idle" /\ round = 0 /\ started = 0 /\ usage = "none" /\ nth = 0 /\ calls = <<>>
    BY DEF Init
  <2>2. 0 <= MaxSteps
    BY LimitsAssumption
  <2> QED
    BY <2>1, <2>2 DEF PlaceInv, Running
<1>3. CountInv
  BY DEF Init, CountInv, NoStorm
<1>4. FrameInv
  <2>1. pc = "idle" /\ log = <<System>> /\ saved = <<>> /\ pass = NoPass
    BY DEF Init
  <2>2. Good(<<System>>)
    BY PlainMessages, GoodPlain
  <2>3. AllGood
    BY <2>1, <2>2 DEF AllGood, NoPass
  <2> QED
    BY <1>2, <2>1, <2>3, FrameSettles
<1> QED
  BY <1>1, <1>2, <1>3, <1>4 DEF PairInv

LEMMA PairIsTyped == IInv /\ PairInv => TypeOK
<1> SUFFICES ASSUME IInv, PairInv PROVE TypeOK
  OBVIOUS
<1>1. log # <<>> /\ log[1] = System /\ (read # <<>> <=> pc = "fold") /\ pass.at \in {"off", "on", "save"}
  BY DEF PairInv, LogsInv, WellLog
<1>2. /\ pc \in {"idle", "stream", "exec", "append", "maintain", "fold", "end"}
      /\ started \in Nat /\ usage \in {"none", "low", "high"}
      /\ nth = 0 \/ nth < Len(calls)
      /\ calls # <<>> <=> pc \in {"exec", "append"}
      /\ pc = "append" => \A k \in DOMAIN calls : Finished(k)
  BY DEF PairInv, PlaceInv, Running
<1>3. round \in 0 .. MaxSteps
  BY LimitsAssumption DEF PairInv, PlaceInv
<1>4. DOMAIN st = DOMAIN calls
  BY DEF IInv, CallsInv
<1>5. /\ ledger \subseteq {"read", "write", "step"} \X BOOLEAN
      /\ storm.count \in Nat /\ (storm.count = 0 <=> storm.sig = <<>>)
  BY DEF PairInv, CountInv
<1>6. latch.stuck => latch.count >= 2
  BY DEF IInv, LatchInv
<1> QED
  BY <1>1, <1>2, <1>3, <1>4, <1>5, <1>6 DEF TypeOK

(* The state is well-typed; the log needs no repair of its own unless a    *)
(* /compact overlapped a turn: each call has its own result, in order; and *)
(* a request built from whatever log there is has as many results behind a *)
(* message as calls, none astray, with arguments that decode.  This holds  *)
(* for any answers, limits, turns, compactions and crashes (agent.go       *)
(* RunMessage, compact.go tailStart, provider.go SanitizeToolPairing).     *)
THEOREM RequestsArePaired == Spec => []PairingHolds
<1>1. IInv /\ PairInv /\ [Next]_vars => PairInv'
  BY StepLogs, StepPlace, StepCount, StepFrame DEF PairInv
<1>2. IInv /\ PairInv => PairingHolds
  <2> SUFFICES ASSUME IInv, PairInv PROVE PairingHolds
    OBVIOUS
  <2>1. TypeOK
    BY PairIsTyped
  <2>2. log \in Seq(Message)
    BY DEF PairInv, LogsInv, WellLog
  <2>3. LogPaired
    <3> SUFFICES ASSUME pc = "stream", ~overlapped PROVE Paired(log) /\ Own(log)
      BY DEF LogPaired
    <3>1. Good(log)
      BY FrameSettles DEF PairInv, AllGood
    <3> QED
      BY <2>2, <3>1, GoodIsPaired
  <2>4. RequestAnswered
    BY <2>2, RequestIsAnswered DEF RequestAnswered, Request
  <2> QED
    BY <2>1, <2>3, <2>4 DEF PairingHolds
<1>3. Spec => []PairInv
  <2>1. Init /\ []IInv /\ [][Next]_vars => []PairInv
    BY InitPair, <1>1, PTL
  <2> QED
    BY <2>1, Invariance, PTL DEF Spec
<1> QED
  BY <1>2, <1>3, Invariance, PTL
=============================================================================
