------------------------------ MODULE LineDiff ------------------------------
(***************************************************************************)
(* diff/diff.go: the change of a file, line by line, that is shown before  *)
(* a tool call is approved.  myers extends the furthest path of every      *)
(* diagonal by one edit after the other and keeps a copy of them per       *)
(* round; backtrack reads the copies from the end to the beginning.  A     *)
(* step is one diagonal of the search, or one edit of the way back.        *)
(***************************************************************************)
EXTENDS Integers, Sequences, FiniteSets, SequencesExt

CONSTANTS
  Lines,       \* lists of lines a file may have
  MaxEdits,    \* maxDiffEdits
  Context      \* defaultContext

VARIABLES
  a, b,        \* the lines before and after
  d, k, v,     \* round, diagonal, and how far each diagonal has come
  trace,       \* v before each round
  x, y, ops,   \* the way back
  at           \* "search", "back", "hunks", "done", "omitted"

diffVars == <<a, b, d, k, v, trace, x, y, ops, at>>

MinOf(m, n) == IF m < n THEN m ELSE n
MaxOf(m, n) == IF m > n THEN m ELSE n
MaxD == MinOf(Len(a) + Len(b), MaxEdits)

Init ==
  /\ a \in Lines /\ b \in Lines /\ a # b
  /\ d = 0 /\ k = 0 /\ v = [i \in -MaxD..MaxD |-> 0]
  /\ trace = << >> /\ x = 0 /\ y = 0 /\ ops = << >>
  /\ at = "search"

-----------------------------------------------------------------------------
\* Whether the path on diagonal i of round e came from an insertion.
FromInsert(w, i, e) == i = -e \/ (i # e /\ w[i - 1] < w[i + 1])

Slide(px, py) ==
  LET Same(n) == n = 0 \/ /\ px + n <= Len(a) /\ py + n <= Len(b)
                          /\ \A j \in 1..n : a[px + j] = b[py + j]
  IN CHOOSE n \in 0..Len(a) : Same(n) /\ \A m \in 0..Len(a) : Same(m) => m <= n

Reached(from) == from + Slide(from, from - k)

SaveRound == IF k = -d THEN Append(trace, v) ELSE trace

Extend ==
  /\ at = "search" /\ d <= MaxD
  /\ trace' = SaveRound
  /\ LET to == Reached(IF FromInsert(v, k, d) THEN v[k + 1] ELSE v[k - 1] + 1)
     IN /\ v' = [v EXCEPT ![k] = to]
        /\ IF to >= Len(a) /\ to - k >= Len(b)
           THEN at' = "back" /\ x' = Len(a) /\ y' = Len(b) /\ UNCHANGED <<d, k>>
           ELSE /\ UNCHANGED <<at, x, y>>
                /\ IF k + 2 <= d THEN k' = k + 2 /\ UNCHANGED d
                                 ELSE d' = d + 1 /\ k' = -(d + 1)
  /\ UNCHANGED <<a, b, ops>>

\* The edit distance exceeds the limit: tallies only.
GiveUp ==
  /\ at = "search" /\ d > MaxD
  /\ at' = "omitted"
  /\ UNCHANGED <<a, b, d, k, v, trace, x, y, ops>>

Equal(n) == [typ |-> "equal", line |-> a[n]]

\* n equal lines up to line px of a, last one first.
EqualRun(px, n) == [j \in 1..n |-> Equal(px - j + 1)]

OfRound(t) == t[d + 1]

StepBack ==
  /\ at = "back" /\ d > 0
  /\ LET w == OfRound(trace)
         down == FromInsert(w, x - y, d)
         prevK == IF down THEN (x - y) + 1 ELSE (x - y) - 1
         prevX == w[prevK]
         prevY == prevX - prevK
         run == MaxOf(0, MinOf(x - prevX, y - prevY))
     IN /\ ops' = ops \o EqualRun(x, run)
                     \o << IF x - run = prevX THEN [typ |-> "insert", line |-> b[y - run]]
                                             ELSE [typ |-> "delete", line |-> a[x - run]] >>
        /\ x' = prevX /\ y' = prevY /\ d' = d - 1
  /\ UNCHANGED <<a, b, k, v, trace, at>>

FirstLeg ==
  /\ at = "back" /\ d = 0
  /\ ops' = Reverse(ops \o EqualRun(x, MinOf(x, y)))
  /\ at' = "hunks"
  /\ UNCHANGED <<a, b, d, k, v, trace, x, y>>

-----------------------------------------------------------------------------
(* unified: the operations with their line numbers, in groups.             *)

CountOf(s, types) == Len(SelectSeq(s, LAMBDA o : o.typ \in types))
Added == CountOf(ops, {"insert"})
Removed == CountOf(ops, {"delete"})

OldNo(i) == CountOf(SubSeq(ops, 1, i), {"equal", "delete"})
NewNo(i) == CountOf(SubSeq(ops, 1, i), {"equal", "insert"})

Changes == SelectSeq([i \in 1..Len(ops) |-> i], LAMBDA i : ops[i].typ # "equal")

Joins(c, hunk) == c - Context <= hunk.end + 1

Hunk(c) == [start |-> MaxOf(1, c - Context), end |-> MinOf(Len(ops), c + Context)]

Hunks ==
  LET Add(hs, c) ==
        IF hs # << >> /\ Joins(c, Last(hs))
        THEN ReplaceAt(hs, Len(hs), [Last(hs) EXCEPT !.end = Hunk(c).end])
        ELSE Append(hs, Hunk(c))
  IN FoldLeft(Add, << >>, Changes)

\* The header of a hunk: first line and number of lines on either side.
Side(h, No(_), types) ==
  LET mine == {i \in h.start..h.end : ops[i].typ \in types}
  IN [start |-> IF mine = {} THEN 0 ELSE No(CHOOSE i \in mine : \A j \in mine : i <= j),
      count |-> Cardinality(mine)]
OldSide(h) == Side(h, OldNo, {"equal", "delete"})
NewSide(h) == Side(h, NewNo, {"equal", "insert"})

Render ==
  /\ at = "hunks" /\ at' = "done"
  /\ UNCHANGED <<a, b, d, k, v, trace, x, y, ops>>

\* approxTally: the lines as bags.
Times(s, l) == Cardinality({i \in DOMAIN s : s[i] = l})
Surplus(s, t) ==
  LET Over(acc, l) == acc + MaxOf(0, Times(s, l) - Times(t, l))
  IN FoldLeft(Over, 0, SetToSeq(ToSet(s)))
ApproxTally == <<Surplus(b, a), Surplus(a, b)>>

Next == Extend \/ GiveUp \/ StepBack \/ FirstLeg \/ Render

Diffing == at \in {"search", "back", "hunks"} /\ Next

Spec == Init /\ [][Next]_diffVars /\ WF_diffVars(Next)

-----------------------------------------------------------------------------
\* The longest common subsequence, for the reference.
Common[i \in 0..4, j \in 0..4] ==
  CASE i = 0 \/ j = 0 -> 0
    [] i > 0 /\ j > 0 /\ a[i] = b[j] -> Common[i - 1, j - 1] + 1
    [] OTHER -> MaxOf(Common[i - 1, j], Common[i, j - 1])

LinesOf(types) ==
  LET mine == SelectSeq(ops, LAMBDA o : o.typ \in types)
  IN [i \in 1..Len(mine) |-> mine[i].line]

(* The script leads from the one file to the other, with as few edits as   *)
(* there can be; it is given up exactly when that is above the limit, and  *)
(* the tallies shown then never exceed the true ones.                      *)
ScriptIsRight ==
  LET distance == Len(a) + Len(b) - 2 * Common[Len(a), Len(b)] IN
  /\ at \in {"hunks", "done"} =>
       /\ LinesOf({"equal", "delete"}) = a /\ LinesOf({"equal", "insert"}) = b
       /\ Added + Removed = distance
  /\ at = "omitted" =>
       /\ distance > MaxEdits
       /\ ApproxTally[1] + ApproxTally[2] <= distance
       /\ ApproxTally[1] - ApproxTally[2] = Len(b) - Len(a)

(* The hunks hold every change once, do not touch, and their headers name  *)
(* the lines of the files that stand in them.                              *)
HunksAreRight ==
  at = "done" =>
    /\ \A c \in DOMAIN ops : ops[c].typ # "equal" =>
         Cardinality({i \in DOMAIN Hunks : c \in Hunks[i].start..Hunks[i].end}) = 1
    /\ \A i \in 1..(Len(Hunks) - 1) : Hunks[i].end < Hunks[i + 1].start - 1
    /\ \A i \in DOMAIN Hunks :
         LET h == Hunks[i]  old == OldSide(h)  new == NewSide(h)
             mine == SubSeq(ops, h.start, h.end)
             text(types) == LET s == SelectSeq(mine, LAMBDA o : o.typ \in types)
                            IN [j \in 1..Len(s) |-> s[j].line]
         IN /\ text({"equal", "delete"}) = SubSeq(a, old.start, (old.start + old.count) - 1)
            /\ text({"equal", "insert"}) = SubSeq(b, new.start, (new.start + new.count) - 1)
            /\ (old.start = 0 => a = << >>) /\ (new.start = 0 => b = << >>)

DiffEnds == <>(at \in {"done", "omitted"})
=============================================================================
