-------------------------------- MODULE Glob --------------------------------
(***************************************************************************)
(* matchGlob of permission/permission.go, the loop that matches a subject  *)
(* glob of a permission rule against the subject of a tool call: "*"       *)
(* stands for any run of characters, "?" for exactly one.  One step is one *)
(* iteration.  The counters px, nx, starPx and starNx are the code's; a    *)
(* character is one element of a sequence.                                 *)
(***************************************************************************)
EXTENDS Integers, Sequences, NaturalsInduction, WellFoundedInduction, TLAPS

CONSTANTS
  Patterns,   \* globs of the rules
  Names       \* subjects of the calls

ASSUME StringsAssumption == Patterns \subseteq Seq(STRING) /\ Names \subseteq Seq(STRING)

VARIABLES
  pattern, name,   \* the arguments
  px, nx,          \* characters read of each
  starPx, starNx,  \* where the last star was taken, and its end so far
  verdict          \* "none" until the function returns

args == <<pattern, name>>
stars == <<starPx, starNx>>
vars == <<args, px, nx, stars, verdict>>

NoStar == -1

Init ==
  /\ pattern \in Patterns /\ name \in Names
  /\ px = 0 /\ nx = 0 /\ starPx = NoStar /\ starNx = 0
  /\ verdict = "none"

-----------------------------------------------------------------------------
AnyCharacter == TRUE                \* mutant: characters are not compared
SameCharacter == pattern[px + 1] = "?" \/ pattern[px + 1] = name[nx + 1]

Literal == px < Len(pattern) /\ SameCharacter
Star == px < Len(pattern) /\ pattern[px + 1] = "*"

ReadCharacter ==
  /\ verdict = "none" /\ nx < Len(name)
  /\ Literal
  /\ px' = px + 1 /\ nx' = nx + 1
  /\ UNCHANGED <<args, stars, verdict>>

BehindStar == px + 1

TakeStar ==
  /\ verdict = "none" /\ nx < Len(name)
  /\ ~Literal /\ Star
  /\ starPx' = px /\ starNx' = nx
  /\ px' = BehindStar
  /\ UNCHANGED <<args, nx, verdict>>

SamePlace == starNx                 \* mutant: the star never grows
OneMore == starNx + 1

\* The last star takes one character more.
Backtrack ==
  /\ verdict = "none" /\ nx < Len(name)
  /\ ~Literal /\ ~Star /\ starPx # NoStar
  /\ px' = starPx + 1
  /\ starNx' = OneMore /\ nx' = OneMore
  /\ UNCHANGED <<args, starPx, verdict>>

Refuse ==
  /\ verdict = "none" /\ nx < Len(name)
  /\ ~Literal /\ ~Star /\ starPx = NoStar
  /\ verdict' = "no match"
  /\ UNCHANGED <<args, px, nx, stars>>

OnlyStarsLeft == \A i \in px + 1..Len(pattern) : pattern[i] = "*"

Finish ==
  /\ verdict = "none" /\ nx >= Len(name)
  /\ verdict' = IF OnlyStarsLeft THEN "match" ELSE "no match"
  /\ UNCHANGED <<args, px, nx, stars>>

Next == ReadCharacter \/ TakeStar \/ Backtrack \/ Refuse \/ Finish

Spec == Init /\ [][Next]_vars
FairSpec == Spec /\ WF_vars(Next)

-----------------------------------------------------------------------------
(* What a glob means, without an algorithm: the first i characters of the  *)
(* glob p cover the first j of the string s, where end[k] is how far the   *)
(* first k reach.                                                          *)
Covers(p, s, i, j) ==
  \E end \in [0..i -> 0..j] :
    /\ end[0] = 0 /\ end[i] = j
    /\ \A k \in 1..i :
         IF p[k] = "*" THEN end[k - 1] <= end[k]
         ELSE /\ end[k] = end[k - 1] + 1
              /\ p[k] \in {"?", s[end[k]]}

Matches == Covers(pattern, name, Len(pattern), Len(name))

\* No character of the name is itself an asterisk.
Plain == \A i \in DOMAIN name : name[i] # "*"

(* The counters stay within the strings and the last star lies behind px.  *)
TypeOK ==
  /\ pattern \in Patterns /\ name \in Names
  /\ px \in 0..Len(pattern) /\ nx \in 0..Len(name)
  /\ starPx \in {NoStar} \cup 0..px - 1
  /\ starNx \in 0..nx
  /\ verdict \in {"none", "match", "no match"}

(* No false positive: what is called a match is one, whatever the backing  *)
(* up did on the way (permission.go, matchGlob).                           *)
MatchIsRight == verdict = "match" => Matches

(* No false negative on a subject without asterisks: going back only to    *)
(* the last star loses no match.                                           *)
NoMatchIsRight == Plain /\ verdict = "no match" => ~Matches

(* Both: the verdict is what the glob means.                               *)
VerdictIsRight == MatchIsRight /\ NoMatchIsRight

(* The loop ends, also on a pattern of many stars.                         *)
Returns == <>(verdict # "none")

(* Claimed of every subject: "*" matches any run of characters.            *)
StarMatchesAnything == verdict = "no match" => ~Matches

-----------------------------------------------------------------------------
(* The loop never calls a match what is none, for patterns and names of    *)
(* any length.  The inductive invariant says what it has read so far: the  *)
(* pattern up to px covers the name up to nx, and up to and with the last  *)
(* star it covers the name up to starNx.                                   *)

ReadInv == Covers(pattern, name, px, nx)
StarInv ==
  starPx # NoStar =>
    /\ starPx < Len(pattern) /\ pattern[starPx + 1] = "*"
    /\ Covers(pattern, name, starPx + 1, starNx)

Inv == TypeOK /\ ReadInv /\ StarInv

-----------------------------------------------------------------------------
(* The arguments are sequences.                                            *)
LEMMA Strings ==
  ASSUME TypeOK
  PROVE /\ pattern \in Seq(STRING) /\ name \in Seq(STRING)
        /\ Len(pattern) \in Nat /\ Len(name) \in Nat
  <1>1. pattern \in Seq(STRING) /\ name \in Seq(STRING)
    BY StringsAssumption DEF TypeOK
  <1> QED
    BY <1>1

(* Nothing covers nothing.                                                 *)
LEMMA CoversNothing == ASSUME NEW p, NEW s PROVE Covers(p, s, 0, 0)
  <1> DEFINE end == [k \in 0..0 |-> 0]
  <1>1. end \in [0..0 -> 0..0] /\ end[0] = 0
    OBVIOUS
  <1>2. \A k \in 1..0 : FALSE
    OBVIOUS
  <1> HIDE DEF end
  <1> QED
    BY <1>1, <1>2 DEF Covers

(* A pattern character that covers the name from j to m extends what its   *)
(* predecessors cover.                                                     *)
LEMMA CoversMore ==
  ASSUME NEW p, NEW s, NEW i \in Nat, NEW j \in Nat, NEW m \in Nat, j <= m, Covers(p, s, i, j),
         IF p[i + 1] = "*" THEN TRUE
         ELSE m = j + 1 /\ p[i + 1] \in {"?", s[m]}
  PROVE  Covers(p, s, i + 1, m)
  <1>1. PICK end \in [0..i -> 0..j] :
          /\ end[0] = 0 /\ end[i] = j
          /\ \A k \in 1..i :
               IF p[k] = "*" THEN end[k - 1] <= end[k]
               ELSE /\ end[k] = end[k - 1] + 1
                    /\ p[k] \in {"?", s[end[k]]}
    BY DEF Covers
  <1> DEFINE far == [k \in 0..i + 1 |-> IF k = i + 1 THEN m ELSE end[k]]
  <1>2. far \in [0..i + 1 -> 0..m]
    <2>1. \A k \in 0..i : end[k] \in 0..j
      BY <1>1
    <2> QED
      BY <2>1
  <1>3. far[0] = 0 /\ far[i + 1] = m /\ far[i] = j
    BY <1>1
  <1>4. ASSUME NEW k \in 1..i + 1
        PROVE  IF p[k] = "*" THEN far[k - 1] <= far[k]
               ELSE /\ far[k] = far[k - 1] + 1
                    /\ p[k] \in {"?", s[far[k]]}
    <2>1. CASE k = i + 1
      <3>1. far[k] = m /\ far[k - 1] = j
        BY <1>3, <2>1
      <3> QED
        BY <2>1, <3>1
    <2>2. CASE k # i + 1
      <3>1. k \in 1..i /\ far[k] = end[k] /\ far[k - 1] = end[k - 1]
        BY <2>2
      <3> QED
        BY <1>1, <3>1
    <2> QED
      BY <2>1, <2>2
  <1> HIDE DEF far
  <1> QED
    BY <1>2, <1>3, <1>4 DEF Covers

(* A run of stars at the end covers nothing more.                          *)
LEMMA CoversTrailing ==
  ASSUME NEW p, NEW s, NEW i \in Nat, NEW n \in Nat, NEW j \in Nat, i <= n, Covers(p, s, i, j),
         \A k \in i + 1..n : p[k] = "*"
  PROVE  Covers(p, s, n, j)
  <1>1. PICK end \in [0..i -> 0..j] :
          /\ end[0] = 0 /\ end[i] = j
          /\ \A k \in 1..i :
               IF p[k] = "*" THEN end[k - 1] <= end[k]
               ELSE /\ end[k] = end[k - 1] + 1
                    /\ p[k] \in {"?", s[end[k]]}
    BY DEF Covers
  <1> DEFINE far == [k \in 0..n |-> IF k > i THEN j ELSE end[k]]
  <1>2. far \in [0..n -> 0..j]
    <2>1. \A k \in 0..i : end[k] \in 0..j
      BY <1>1
    <2> QED
      BY <2>1
  <1>3. far[0] = 0 /\ far[n] = j
    BY <1>1
  <1>4. ASSUME NEW k \in 1..n
        PROVE  IF p[k] = "*" THEN far[k - 1] <= far[k]
               ELSE /\ far[k] = far[k - 1] + 1
                    /\ p[k] \in {"?", s[far[k]]}
    <2>1. CASE k > i
      <3>1. far[k] = j
        BY <2>1
      <3>2. k - 1 \in 0..n /\ k - 1 >= i
        BY <2>1
      <3>3. far[k - 1] = IF k - 1 > i THEN j ELSE end[k - 1]
        BY <3>2
      <3>4. k - 1 > i \/ k - 1 = i
        BY <3>2
      <3>5. far[k - 1] = j
        BY <1>1, <3>3, <3>4
      <3>6. p[k] = "*"
        BY <2>1
      <3> QED
        BY <3>1, <3>5, <3>6
    <2>2. CASE k <= i
      <3>1. k \in 1..i /\ far[k] = end[k] /\ far[k - 1] = end[k - 1]
        BY <2>2
      <3> QED
        BY <1>1, <3>1
    <2> QED
      BY <2>1, <2>2
  <1> HIDE DEF far
  <1> QED
    BY <1>2, <1>3, <1>4 DEF Covers

-----------------------------------------------------------------------------
LEMMA InitInv == Init => Inv
  <1> SUFFICES ASSUME Init PROVE Inv
    OBVIOUS
  <1>1. pattern \in Seq(STRING) /\ name \in Seq(STRING)
    BY StringsAssumption DEF Init
  <1>2. TypeOK
    BY <1>1 DEF Init, TypeOK, NoStar
  <1> QED
    BY <1>2, CoversNothing DEF Init, Inv, ReadInv, StarInv, NoStar

LEMMA StepTypeOK == Inv /\ [Next]_vars => TypeOK'
  <1> SUFFICES ASSUME Inv, [Next]_vars PROVE TypeOK'
    OBVIOUS
  <1> USE DEF NoStar
  <1>0. TypeOK /\ StarInv /\ Len(pattern) \in Nat /\ Len(name) \in Nat
    BY Strings DEF Inv
  <1>1. CASE ReadCharacter
    BY <1>0, <1>1 DEF ReadCharacter, TypeOK, Literal, args, stars
  <1>2. CASE TakeStar
    BY <1>0, <1>2 DEF TakeStar, TypeOK, Star, BehindStar, args
  <1>3. CASE Backtrack
    BY <1>0, <1>3 DEF Backtrack, TypeOK, StarInv, OneMore, args
  <1>4. CASE Refuse
    BY <1>0, <1>4 DEF Refuse, TypeOK, args, stars
  <1>5. CASE Finish
    BY <1>0, <1>5 DEF Finish, TypeOK, args, stars
  <1>6. CASE UNCHANGED vars
    BY <1>0, <1>6 DEF vars, TypeOK, args, stars
  <1> QED
    BY <1>1, <1>2, <1>3, <1>4, <1>5, <1>6 DEF Next

(* What has been read stays covered.                                       *)
LEMMA StepCovers == Inv /\ [Next]_vars => ReadInv' /\ StarInv'
  <1> SUFFICES ASSUME Inv, [Next]_vars PROVE ReadInv' /\ StarInv'
    OBVIOUS
  <1> USE DEF NoStar
  <1>0. TypeOK /\ ReadInv /\ StarInv
    BY DEF Inv
  <1>c. Len(pattern) \in Nat /\ Len(name) \in Nat
    BY <1>0, Strings
  <1>a. px \in Nat /\ nx \in Nat /\ starNx \in Nat
    <2>1. px \in 0..Len(pattern) /\ nx \in 0..Len(name) /\ starNx \in 0..nx
      BY <1>0 DEF TypeOK
    <2> QED
      BY <2>1, <1>c
  <1>b. starPx # NoStar => starPx \in Nat
    <2>1. starPx \in {NoStar} \cup 0..px - 1
      BY <1>0 DEF TypeOK
    <2> QED
      BY <2>1, <1>a
  <1>1. CASE ReadCharacter
    <2>0. pattern[px + 1] \in {"?", name[nx + 1]}
      BY <1>1 DEF ReadCharacter, Literal, SameCharacter
    <2>a. Covers(pattern, name, px, nx) /\ nx <= nx + 1 /\ nx + 1 \in Nat
      BY <1>0, <1>a DEF ReadInv
    <2>1. Covers(pattern, name, px + 1, nx + 1)
      BY <2>0, <2>a, <1>a, CoversMore
    <2> QED
      BY <1>0, <1>1, <2>1 DEF ReadCharacter, ReadInv, StarInv, args, stars
  <1>2. CASE TakeStar
    <2>1. Covers(pattern, name, px + 1, nx)
      <3>1. pattern[px + 1] = "*"
        BY <1>2 DEF TakeStar, Star
      <3>2. Covers(pattern, name, px, nx) /\ nx <= nx
        BY <1>0, <1>a DEF ReadInv
      <3> QED
        BY <3>1, <3>2, <1>a, CoversMore
    <2> QED
      BY <1>0, <1>2, <2>1, <1>a
         DEF TakeStar, Star, BehindStar, ReadInv, StarInv, args
  <1>3. CASE Backtrack
    <2>1. starPx # NoStar /\ pattern[starPx + 1] = "*" /\ Covers(pattern, name, starPx + 1, starNx)
      BY <1>0, <1>3 DEF Backtrack, StarInv
    <2>2. Covers(pattern, name, starPx + 1, starNx + 1)
      <3>1. PICK end \in [0..starPx + 1 -> 0..starNx] :
              /\ end[0] = 0 /\ end[starPx + 1] = starNx
              /\ \A k \in 1..starPx + 1 :
                   IF pattern[k] = "*" THEN end[k - 1] <= end[k]
                   ELSE /\ end[k] = end[k - 1] + 1
                        /\ pattern[k] \in {"?", name[end[k]]}
        BY <2>1 DEF Covers
      <3> DEFINE far ==
            [k \in 0..starPx + 1 |-> IF k = starPx + 1 THEN starNx + 1 ELSE end[k]]
      <3>2. \A k \in 0..starPx + 1 : end[k] \in 0..starNx
        BY <3>1
      <3>3. far \in [0..starPx + 1 -> 0..starNx + 1]
        BY <3>2, <1>a, <1>b, <2>1
      <3>4. far[0] = 0 /\ far[starPx + 1] = starNx + 1
        BY <3>1, <1>b, <2>1
      <3>5. ASSUME NEW k \in 1..starPx + 1
            PROVE  IF pattern[k] = "*" THEN far[k - 1] <= far[k]
                   ELSE /\ far[k] = far[k - 1] + 1
                        /\ pattern[k] \in {"?", name[far[k]]}
        <4>1. far[k - 1] = end[k - 1]
          BY <1>b, <2>1
        <4>2. CASE k = starPx + 1
          <5>1. end[k - 1] \in 0..starNx
            BY <3>2, <1>b, <2>1
          <5> QED
            BY <4>1, <4>2, <5>1, <2>1, <1>a
        <4>3. CASE k # starPx + 1
          <5>1. far[k] = end[k]
            BY <4>3
          <5> QED
            BY <3>1, <4>1, <5>1
        <4> QED
          BY <4>2, <4>3
      <3> HIDE DEF far
      <3> QED
        BY <3>3, <3>4, <3>5 DEF Covers
    <2> QED
      BY <1>0, <1>3, <2>1, <2>2
         DEF Backtrack, OneMore, ReadInv, StarInv, args
  <1>4. CASE Refuse
    BY <1>0, <1>4 DEF Refuse, ReadInv, StarInv, args, stars
  <1>5. CASE Finish
    BY <1>0, <1>5 DEF Finish, ReadInv, StarInv, args, stars
  <1>6. CASE UNCHANGED vars
    BY <1>0, <1>6 DEF vars, ReadInv, StarInv, args, stars
  <1> QED
    BY <1>1, <1>2, <1>3, <1>4, <1>5, <1>6 DEF Next

(* The loop invariant holds.                                               *)
THEOREM Invariance == Spec => []Inv
  <1>1. Inv /\ [Next]_vars => Inv'
    BY StepTypeOK, StepCovers DEF Inv
  <1> QED
    BY InitInv, <1>1, PTL DEF Spec

(* The counters stay within the strings, for strings of any length.        *)
THEOREM TypeCorrect == Spec => []TypeOK
  <1>1. Inv => TypeOK
    BY DEF Inv
  <1> QED
    BY Invariance, <1>1, PTL

-----------------------------------------------------------------------------
(* A match is only declared when the rest of the pattern is stars.         *)
Declared == verdict = "match" => nx = Len(name) /\ OnlyStarsLeft

LEMMA StepDeclared == Inv /\ Declared /\ [Next]_vars => Declared'
  <1> SUFFICES ASSUME Inv, Declared, [Next]_vars PROVE Declared'
    OBVIOUS
  <1>1. TypeOK /\ Len(name) \in Nat
    BY Strings DEF Inv
  <1>2. CASE Finish
    BY <1>1, <1>2 DEF Finish, Declared, TypeOK, OnlyStarsLeft, args, stars
  <1>3. CASE ReadCharacter \/ TakeStar \/ Backtrack \/ Refuse
    BY <1>3 DEF ReadCharacter, TakeStar, Backtrack, Refuse, Declared
  <1>4. CASE UNCHANGED vars
    BY <1>4 DEF vars, Declared, OnlyStarsLeft, args, stars
  <1> QED
    BY <1>2, <1>3, <1>4 DEF Next

(* What matchGlob calls a match is one, for all patterns and names.        *)
THEOREM MatchesAreRight == Spec => []MatchIsRight
  <1>1. Init => Declared
    BY DEF Init, Declared
  <1>2. Inv /\ Declared => MatchIsRight
    <2> SUFFICES ASSUME Inv, Declared, verdict = "match" PROVE Matches
      BY DEF MatchIsRight
    <2>1. TypeOK /\ Covers(pattern, name, px, Len(name)) /\ Len(pattern) \in Nat /\ Len(name) \in Nat
      BY Strings DEF Inv, ReadInv, Declared
    <2>2. px \in Nat /\ px <= Len(pattern)
      BY <2>1 DEF TypeOK
    <2>3. \A k \in px + 1..Len(pattern) : pattern[k] = "*"
      BY DEF Declared, OnlyStarsLeft
    <2> QED
      BY <2>1, <2>2, <2>3, CoversTrailing DEF Matches
  <1> QED
    BY Invariance, StepDeclared, <1>1, <1>2, PTL DEF Spec

-----------------------------------------------------------------------------
(* What is no match is none.  Ends are the ways in which the whole pattern *)
(* covers the whole name.  The loop reads as little as it can: in each of  *)
(* them the last star ends no earlier than starNx, and what stands between *)
(* it and px ends no earlier than nx.  This is why going back to the last  *)
(* star is enough: an earlier star that took more would only leave less of *)
(* the name to the last one, which takes whatever is left.                 *)
Ends ==
  {end \in [0..Len(pattern) -> 0..Len(name)] :
     /\ end[0] = 0 /\ end[Len(pattern)] = Len(name)
     /\ \A k \in 1..Len(pattern) :
          IF pattern[k] = "*" THEN end[k - 1] <= end[k]
          ELSE /\ end[k] = end[k - 1] + 1
               /\ pattern[k] \in {"?", name[end[k]]}}

LeastInv ==
  Plain => \A end \in Ends :
    /\ starPx = NoStar => end[px] = nx
    /\ starPx # NoStar =>
         /\ end[starPx + 1] >= starNx /\ end[px] >= nx
         /\ end[starPx + 1] = starNx => end[px] = nx

(* What holds of zero and of each successor holds of every number.         *)
LEMMA SetInduction ==
  ASSUME NEW T, 0 \in T, \A n \in T \cap Nat : n + 1 \in T
  PROVE  Nat \subseteq T
  <1> SUFFICES ASSUME NEW x \in Nat, x \notin T PROVE FALSE
    OBVIOUS
  <1> DEFINE Rest == {n \in Nat : n \notin T}
  <1>1. PICK n \in Rest : \A m \in Rest : <<m, n>> \notin OpToRel(<, Nat)
    BY NatLessThanWellFounded, WFMin
  <1>2. \A m \in Rest : ~(m < n)
    BY <1>1 DEF OpToRel
  <1>3. n # 0 /\ n - 1 \in Nat
    OBVIOUS
  <1>4. n - 1 \in T
    BY <1>2, <1>3
  <1> QED
    BY <1>3, <1>4

LEMMA MatchesHaveEnds == Matches <=> Ends # {}
  BY DEF Matches, Covers, Ends

(* One character of the pattern.                                           *)
LEMMA EndsStep ==
  ASSUME TypeOK, NEW end \in Ends, NEW k \in 1..Len(pattern)
  PROVE  /\ end[k] \in 0..Len(name) /\ end[k - 1] \in 0..Len(name)
         /\ end[k - 1] <= end[k]
         /\ pattern[k] # "*" =>
              end[k] = end[k - 1] + 1 /\ pattern[k] \in {"?", name[end[k]]}
  <1>1. Len(pattern) \in Nat /\ Len(name) \in Nat
    BY Strings
  <1>2. end \in [0..Len(pattern) -> 0..Len(name)]
    BY DEF Ends
  <1>3. end[k] \in 0..Len(name) /\ end[k - 1] \in 0..Len(name)
    <2>1. k \in 0..Len(pattern) /\ k - 1 \in 0..Len(pattern)
      BY <1>1
    <2> QED
      BY <1>2, <2>1
  <1>4. IF pattern[k] = "*" THEN end[k - 1] <= end[k]
        ELSE end[k] = end[k - 1] + 1 /\ pattern[k] \in {"?", name[end[k]]}
    BY DEF Ends
  <1> QED
    BY <1>1, <1>3, <1>4

(* More of the pattern reaches no less far.                                *)
LEMMA EndsGrow ==
  ASSUME TypeOK, NEW end \in Ends,
         NEW i \in 0..Len(pattern), NEW k \in 0..Len(pattern), i <= k
  PROVE  end[i] <= end[k] /\ end[k] \in 0..Len(name)
  <1>1. Len(pattern) \in Nat /\ Len(name) \in Nat
    BY Strings
  <1>2. \A j \in 0..Len(pattern) : end[j] \in 0..Len(name)
    BY DEF Ends
  <1> DEFINE Far == {n \in Nat : i + n <= Len(pattern) => end[i] <= end[i + n]}
  <1>3. 0 \in Far
    <2>1. end[i] \in Nat /\ i + 0 = i
      BY <1>1, <1>2
    <2> QED
      BY <2>1
  <1>4. ASSUME NEW n \in Far \cap Nat PROVE n + 1 \in Far
    <2> SUFFICES ASSUME i + (n + 1) <= Len(pattern) PROVE end[i] <= end[i + (n + 1)]
      OBVIOUS
    <2>1. i + (n + 1) \in 1..Len(pattern) /\ i + (n + 1) - 1 = i + n /\ i + n \in 0..Len(pattern)
      BY <1>1
    <2>2. end[i + n] <= end[i + (n + 1)]
      BY <2>1, EndsStep
    <2>3. end[i] <= end[i + n]
      BY <2>1, <1>1
    <2>4. end[i] \in Nat /\ end[i + n] \in Nat /\ end[i + (n + 1)] \in Nat
      BY <1>1, <1>2, <2>1
    <2> QED
      BY <2>2, <2>3, <2>4
  <1>5. Nat \subseteq Far
    <2> HIDE DEF Far
    <2> QED
      BY <1>3, <1>4, SetInduction
  <1>6. k - i \in Far /\ i + (k - i) = k
    BY <1>1, <1>5
  <1> QED
    BY <1>1, <1>2, <1>6

(* The values of the counters.                                             *)
LEMMA Counters ==
  ASSUME TypeOK
  PROVE /\ Len(pattern) \in Nat /\ Len(name) \in Nat
        /\ px \in 0..Len(pattern) /\ nx \in 0..Len(name) /\ starNx \in Nat /\ starNx <= nx
        /\ starPx # NoStar => starPx \in Nat /\ starPx < px
  <1>1. Len(pattern) \in Nat /\ Len(name) \in Nat
    BY Strings
  <1>2. px \in 0..Len(pattern) /\ nx \in 0..Len(name)
    BY DEF TypeOK
  <1>3. starNx \in 0..nx /\ starPx \in {NoStar} \cup 0..px - 1
    BY DEF TypeOK
  <1> QED
    BY <1>1, <1>2, <1>3

(* The pattern at px is no character of the name: whatever stands there    *)
(* behind exactly what has been read, the name does not go on like this.   *)
LEMMA NotAtOnce ==
  ASSUME TypeOK, NEW end \in Ends, nx < Len(name), ~Literal, ~Star
  PROVE  end[px] # nx
  <1> SUFFICES ASSUME end[px] = nx PROVE FALSE
    OBVIOUS
  <1>1. /\ Len(pattern) \in Nat /\ Len(name) \in Nat
        /\ px \in 0..Len(pattern) /\ nx \in 0..Len(name)
    BY Counters
  <1>2. CASE px = Len(pattern)
    <2>1. end[Len(pattern)] = Len(name)
      BY DEF Ends
    <2> QED
      BY <1>1, <1>2, <2>1
  <1>3. CASE px < Len(pattern)
    <2>1. px + 1 \in 1..Len(pattern) /\ (px + 1) - 1 = px
      BY <1>1, <1>3
    <2>2. pattern[px + 1] # "*"
      BY <1>3 DEF Star
    <2>3. end[px + 1] = nx + 1 /\ pattern[px + 1] \in {"?", name[end[px + 1]]}
      BY <2>1, <2>2, EndsStep
    <2> QED
      BY <1>3, <2>3 DEF Literal, SameCharacter
  <1> QED
    BY <1>1, <1>2, <1>3

LEMMA EndsStay == UNCHANGED args => Ends' = Ends /\ Plain' = Plain /\ Matches' = Matches
  BY DEF args, Ends, Plain, Matches, Covers

(* No way of covering the name is passed over.                             *)
LEMMA StepLeast == Inv /\ LeastInv /\ [Next]_vars => LeastInv'
  <1> SUFFICES ASSUME Inv, LeastInv, [Next]_vars, Plain, NEW end \in Ends
               PROVE  /\ starPx' = NoStar => end[px'] = nx'
                      /\ starPx' # NoStar =>
                           /\ end[starPx' + 1] >= starNx' /\ end[px'] >= nx'
                           /\ end[starPx' + 1] = starNx' => end[px'] = nx'
    <2>1. Inv /\ [Next]_vars => UNCHANGED args
      BY DEF Next, ReadCharacter, TakeStar, Backtrack, Refuse, Finish, vars
    <2> QED
      BY <2>1, EndsStay DEF LeastInv
  <1>0. TypeOK
    BY DEF Inv
  <1>a. /\ Len(pattern) \in Nat /\ Len(name) \in Nat
        /\ px \in 0..Len(pattern) /\ nx \in 0..Len(name) /\ starNx \in Nat /\ starNx <= nx
        /\ starPx # NoStar => starPx \in Nat /\ starPx < px
    BY <1>0, Counters
  <1>b. /\ starPx = NoStar => end[px] = nx
        /\ starPx # NoStar =>
             /\ end[starPx + 1] >= starNx /\ end[px] >= nx
             /\ end[starPx + 1] = starNx => end[px] = nx
    BY DEF LeastInv
  <1>c. \A k \in 0..Len(pattern) : end[k] \in Nat
    <2>1. \A k \in 0..Len(pattern) : end[k] \in 0..Len(name)
      BY DEF Ends
    <2> QED
      BY <2>1, <1>a
  <1>1. CASE ReadCharacter
    <2>1. px < Len(pattern) /\ nx < Len(name) /\ px + 1 \in 1..Len(pattern)
          /\ (px + 1) - 1 = px /\ nx + 1 \in 1..Len(name)
      BY <1>1, <1>a DEF ReadCharacter, Literal
    <2>2. pattern[px + 1] # "*"
      <3>1. nx + 1 \in DOMAIN name
        BY <1>0, <2>1, Strings
      <3>2. name[nx + 1] # "*"
        BY <3>1 DEF Plain
      <3> QED
        BY <1>1, <3>2 DEF ReadCharacter, Literal, SameCharacter
    <2>3. end[px + 1] = end[px] + 1
      BY <1>0, <2>1, <2>2, EndsStep
    <2>4. px' = px + 1 /\ nx' = nx + 1 /\ starPx' = starPx /\ starNx' = starNx
      BY <1>1 DEF ReadCharacter, stars
    <2>5. end[px] \in Nat /\ nx \in Nat
      BY <1>a, <1>c
    <2> QED
      BY <1>b, <2>3, <2>4, <2>5
  <1>2. CASE TakeStar
    <2>1. px + 1 \in 1..Len(pattern) /\ (px + 1) - 1 = px
      BY <1>2, <1>a DEF TakeStar, Star
    <2>2. end[px] <= end[px + 1]
      BY <1>0, <2>1, EndsStep
    <2>3. end[px] >= nx /\ end[px] \in Nat /\ end[px + 1] \in Nat /\ nx \in Nat
      <3>1. px \in 0..Len(pattern) /\ px + 1 \in 0..Len(pattern) /\ nx \in Nat
        BY <1>a, <2>1
      <3>2. end[px] \in Nat /\ end[px + 1] \in Nat
        BY <1>c, <3>1
      <3> QED
        BY <1>b, <3>1, <3>2
    <2>4. px' = px + 1 /\ nx' = nx /\ starPx' = px /\ starNx' = nx /\ px # NoStar
      BY <1>2, <1>a DEF TakeStar, BehindStar, NoStar
    <2> QED
      BY <2>2, <2>3, <2>4
  <1>3. CASE Backtrack
    <2>1. starPx # NoStar
      BY <1>3 DEF Backtrack
    <2>2. end[px] # nx
      BY <1>0, <1>3, NotAtOnce DEF Backtrack
    <2>3. end[starPx + 1] \in Nat
      <3>1. starPx + 1 \in 0..Len(pattern)
        BY <1>a, <2>1
      <3> QED
        BY <1>c, <3>1
    <2>4. end[starPx + 1] >= starNx + 1
      BY <1>a, <1>b, <2>1, <2>2, <2>3
    <2>5. px' = starPx + 1 /\ nx' = starNx + 1 /\ starPx' = starPx /\ starNx' = starNx + 1
      BY <1>3 DEF Backtrack, OneMore
    <2> QED
      BY <2>1, <2>4, <2>5
  <1>4. CASE Refuse \/ Finish \/ UNCHANGED vars
    BY <1>4, <1>b DEF Refuse, Finish, vars, stars
  <1> QED
    BY <1>1, <1>2, <1>3, <1>4 DEF Next

(* Whoever says no has nothing left to try.                                *)
LEMMA StepNoMatch == Inv /\ LeastInv /\ NoMatchIsRight /\ [Next]_vars => NoMatchIsRight'
  <1> SUFFICES ASSUME Inv, LeastInv, NoMatchIsRight, [Next]_vars
               PROVE  NoMatchIsRight'
    OBVIOUS
  <1>0. TypeOK
    BY DEF Inv
  <1>a. UNCHANGED args
    BY DEF Next, ReadCharacter, TakeStar, Backtrack, Refuse, Finish, vars
  <1>1. CASE ReadCharacter \/ TakeStar \/ Backtrack
    BY <1>1 DEF ReadCharacter, TakeStar, Backtrack, NoMatchIsRight
  <1>2. CASE Refuse
    <2> SUFFICES ASSUME Plain, NEW end \in Ends PROVE FALSE
      BY <1>a, EndsStay, MatchesHaveEnds DEF NoMatchIsRight
    <2>1. end[px] = nx
      BY <1>2 DEF Refuse, LeastInv
    <2> QED
      BY <1>0, <1>2, <2>1, NotAtOnce DEF Refuse
  <1>3. CASE Finish
    <2> SUFFICES ASSUME Plain, ~OnlyStarsLeft, NEW end \in Ends PROVE FALSE
      BY <1>3, <1>a, EndsStay, MatchesHaveEnds DEF Finish, NoMatchIsRight
    <2>1. PICK i \in px + 1..Len(pattern) : pattern[i] # "*"
      BY DEF OnlyStarsLeft
    <2>2. /\ Len(pattern) \in Nat /\ Len(name) \in Nat
          /\ px \in 0..Len(pattern) /\ nx = Len(name)
      <3>1. /\ Len(pattern) \in Nat /\ Len(name) \in Nat
            /\ px \in 0..Len(pattern) /\ nx \in 0..Len(name)
        BY <1>0, Counters
      <3>2. nx >= Len(name)
        BY <1>3 DEF Finish
      <3> QED
        BY <3>1, <3>2
    <2>3. i \in 1..Len(pattern) /\ i - 1 \in 0..Len(pattern) /\ px <= i - 1
      BY <2>2
    <2>4. end[px] <= end[i - 1] /\ end[i - 1] \in 0..Len(name)
      BY <1>0, <2>2, <2>3, EndsGrow
    <2>5. end[i] = end[i - 1] + 1 /\ end[i] \in 0..Len(name)
      BY <1>0, <2>1, <2>3, EndsStep
    <2>6. end[px] >= nx /\ end[px] \in 0..Len(name)
      <3>1. end[px] \in 0..Len(name)
        BY <2>2 DEF Ends
      <3>2. end[px] = nx \/ end[px] >= nx
        BY DEF LeastInv
      <3> QED
        BY <2>2, <3>1, <3>2
    <2> QED
      BY <2>2, <2>4, <2>5, <2>6
  <1>4. CASE UNCHANGED vars
    BY <1>4, <1>a, EndsStay DEF vars, NoMatchIsRight
  <1> QED
    BY <1>1, <1>2, <1>3, <1>4 DEF Next

(* For all patterns and names, what matchGlob calls a match is one, and    *)
(* what it refuses is none if the name holds no asterisk.                  *)
THEOREM VerdictsAreRight == Spec => []VerdictIsRight
  <1>1. Init => LeastInv
    <2> SUFFICES ASSUME Init, NEW end \in Ends PROVE starPx = NoStar /\ end[px] = nx
      BY DEF LeastInv
    <2> QED
      BY DEF Init, Ends
  <1>2. Init => NoMatchIsRight
    BY DEF Init, NoMatchIsRight
  <1>3. Spec => []LeastInv
    BY Invariance, StepLeast, <1>1, PTL DEF Spec
  <1>4. Spec => []NoMatchIsRight
    BY Invariance, StepNoMatch, <1>2, <1>3, PTL DEF Spec
  <1>5. MatchIsRight /\ NoMatchIsRight => VerdictIsRight
    BY DEF VerdictIsRight
  <1> QED
    BY MatchesAreRight, <1>4, <1>5, PTL
=============================================================================
