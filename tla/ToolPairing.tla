----------------------------- MODULE ToolPairing -----------------------------
(***************************************************************************)
(* SanitizeToolPairing of provider/provider.go: what a provider client     *)
(* does to a message log before it sends it, so that every call of a tool  *)
(* is followed by its result and no result stands alone.                   *)
(*                                                                         *)
(* A call has an id (0: the gateway sent none), a serial number that tells *)
(* apart calls with the same id, a tool, and whole, FALSE if its argument  *)
(* JSON was cut off.  A tool message has the id it answers and the serial  *)
(* number of the call whose result it holds (0: the placeholder).          *)
(***************************************************************************)
EXTENDS Naturals, Sequences, SequencesExt

Text(role) == [role |-> role, calls |-> <<>>, id |-> 0, of |-> 0]
Calling(calls) == [role |-> "asst", calls |-> calls, id |-> 0, of |-> 0]
Result(id, of) == [role |-> "tool", calls |-> <<>>, id |-> id, of |-> of]

IsTool(m) == m.role = "tool"
IsCaller(m) == m.role = "asst"
Whole(calls) == \A k \in DOMAIN calls : calls[k].whole

\* The tool messages that directly follow message i.
ResultsAfter(msgs, i) ==
  SubSeq(msgs, i + 1,
         Max({j \in i..Len(msgs) : \A k \in i+1..j : IsTool(msgs[k])}))

-----------------------------------------------------------------------------
(* What the providers' APIs demand of a request.                           *)

\* Tool messages stand only behind an assistant message with calls.
NoOrphans(msgs) ==
  \A j \in DOMAIN msgs :
    IsTool(msgs[j]) =>
      \E i \in 1..j-1 : /\ IsCaller(msgs[i])
                        /\ j - i <= Len(ResultsAfter(msgs, i))

\* There are as many results as calls.
Answered(msgs) ==
  /\ NoOrphans(msgs)
  /\ \A i \in DOMAIN msgs :
       IsCaller(msgs[i]) => Len(ResultsAfter(msgs, i)) = Len(msgs[i].calls)

\* The arguments can be decoded.
Decodable(msgs) == \A i \in DOMAIN msgs : Whole(msgs[i].calls)

\* Moreover each result names the id of its call.
Paired(msgs) ==
  /\ Answered(msgs)
  /\ \A i \in DOMAIN msgs : \A k \in DOMAIN msgs[i].calls :
       msgs[i + k].id = msgs[i].calls[k].id

\* Each result is that of the call it answers, or the placeholder.
Own(msgs) ==
  \A i \in DOMAIN msgs : \A k \in DOMAIN msgs[i].calls :
    msgs[i + k].of \in {0, msgs[i].calls[k].serial}

-----------------------------------------------------------------------------
(* The fast path counts the results an assistant message still expects.    *)
Expect(acc, m) ==
  [ok |-> /\ acc.ok
          /\ (acc.n > 0) <=> IsTool(m)
          /\ Whole(m.calls),
   n  |-> IF IsTool(m) /\ acc.n > 0 THEN acc.n - 1 ELSE Len(m.calls)]

toolPairingClean(msgs) ==
  FoldLeft(Expect, [ok |-> TRUE, n |-> 0], msgs) = [ok |-> TRUE, n |-> 0]

idDistinct(calls) ==
  /\ \A k \in DOMAIN calls : calls[k].id # 0
  /\ \A k, l \in DOMAIN calls : calls[k].id = calls[l].id => k = l

\* The result of the k-th call: the last one with its id if the ids tell the
\* calls apart, else the k-th there is.
Found(calls, avail, k) ==
  IF idDistinct(calls)
  THEN LET hits == {j \in DOMAIN avail : avail[j].id = calls[k].id}
       IN IF hits = {} THEN 0 ELSE avail[Max(hits)].of
  ELSE IF k <= Len(avail) THEN avail[k].of ELSE 0

pairToolResults(calls, avail) ==
  [k \in DOMAIN calls |-> Result(calls[k].id, Found(calls, avail, k))]

repairToolCallArgs(m) ==
  [m EXCEPT !.calls = [k \in DOMAIN @ |-> [@[k] EXCEPT !.whole = TRUE]]]

Repaired(msgs, i) ==
  IF IsTool(msgs[i]) THEN <<>>
  ELSE IF msgs[i].calls # <<>>
  THEN <<repairToolCallArgs(msgs[i])>>
         \o pairToolResults(msgs[i].calls, ResultsAfter(msgs, i))
  ELSE <<msgs[i]>>

SanitizeToolPairing(msgs) ==
  IF toolPairingClean(msgs) THEN msgs
  ELSE FlattenSeq([i \in DOMAIN msgs |-> Repaired(msgs, i)])
=============================================================================
