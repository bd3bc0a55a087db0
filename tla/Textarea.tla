------------------------------ MODULE Textarea ------------------------------
(***************************************************************************)
(* The input box, textarea/textarea.go: lines of runes with a cursor, soft *)
(* wrapped into visual rows of which a window is shown.  One key press is  *)
(* one action, but for the word to the left, which is looked for in a loop *)
(* of its own.  A rune is narrow, wide or a space; the box grows with its  *)
(* content (DynamicHeight) up to MaxHeight rows, as the chat sets it up.   *)
(***************************************************************************)
EXTENDS Integers, Sequences, SequencesExt

CONSTANTS
  Runes,       \* subset of {"a", "W", " "}
  Pastes,      \* what can be pasted, with "n" for the end of a line
  Widths,      \* columns the box may have
  CharLimit, MaxLines, MaxHeight

VARIABLES
  value,       \* the lines
  row, col,    \* cursor: line, and runes before it in the line
  lastOff,     \* lastCharOffset, the column vertical moves come back to
  width, height,
  top,         \* first visual row shown
  busy         \* the loop of wordLeft is running

cursor == <<row, col, lastOff>>
vars == <<value, cursor, width, height, top, busy>>

MinOf(m, n) == IF m < n THEN m ELSE n
MaxOf(m, n) == IF m > n THEN m ELSE n
Clamp(n, low, high) == MinOf(high, MaxOf(low, n))

Space(r) == r = " "
RuneWidth(r) == IF r = "W" THEN 2 ELSE 1
StringWidth(s) == FoldLeft(LAMBDA n, r : n + RuneWidth(r), 0, s)
Sum(s) == FoldLeft(LAMBDA n, m : n + m, 0, s)
Before(s, i) == SubSeq(s, 1, i)
After(s, i) == SubSeq(s, i + 1, Len(s))

-----------------------------------------------------------------------------
(* wrap.                                                                   *)

Extended(rows, s) == ReplaceAt(rows, Len(rows), Last(rows) \o s)

CharWrap(rows, word) ==
  LET Put(rs, r) == IF StringWidth(Last(rs)) + RuneWidth(r) > width
                    THEN Append(rs, <<r>>) ELSE Extended(rs, <<r>>)
  IN FoldLeft(Put, rows, word)

WrapRune(acc, r) ==
  LET word == Append(acc.word, r)
      fits == StringWidth(Last(acc.rows)) + StringWidth(acc.word) + 1 <= width
      fresh == IF Last(acc.rows) = << >> THEN acc.rows ELSE Append(acc.rows, << >>)
  IN CASE Space(r) -> [rows |-> IF fits THEN Extended(acc.rows, word) ELSE Append(acc.rows, word),
                       word |-> << >>]
       [] ~Space(r) /\ StringWidth(word) + RuneWidth(r) > width ->
            [rows |-> CharWrap(fresh, word), word |-> << >>]
       [] OTHER -> [acc EXCEPT !.word = word]

\* The last row ends with a place for the cursor.
LastWord(w) ==
  LET rest == Append(w.word, " ")
  IN IF StringWidth(Last(w.rows)) + StringWidth(w.word) >= width
     THEN Append(w.rows, rest) ELSE Extended(w.rows, rest)

Wrap(line) == LastWord(FoldLeft(WrapRune, [rows |-> << << >> >>, word |-> << >>], line))

-----------------------------------------------------------------------------
(* Where the cursor is on the screen.                                      *)

Starts(grid) == [i \in 1..Len(grid) |-> Sum([j \in 1..(i - 1) |-> Len(grid[j])])]

InfoAt(grid, start, c) ==
  LET End(i) == start[i] + Len(grid[i])
      i == CHOOSE n \in 1..Len(grid) : End(n) >= c /\ \A m \in 1..(n - 1) : End(m) < c
  IN IF End(i) = c /\ i < Len(grid)
     THEN [off |-> 0, colOff |-> 0, rows |-> Len(grid), rowOff |-> i, start |-> c,
           width |-> Len(grid[i + 1]), charWidth |-> StringWidth(grid[i])]
     ELSE [off |-> StringWidth(Before(grid[i], MaxOf(0, c - start[i]))), colOff |-> c - start[i],
           rows |-> Len(grid), rowOff |-> i - 1, start |-> start[i],
           width |-> Len(grid[i]), charWidth |-> StringWidth(grid[i])]

InfoIn(grid, c) == InfoAt(grid, Starts(grid), c)
LineInfo(line, c) == InfoIn(Wrap(line), c)

VisualRows(lines) == Sum([i \in 1..Len(lines) |-> Len(Wrap(lines[i]))])
CursorLine(lines, r, c) == VisualRows(Before(lines, r - 1)) + LineInfo(lines[r], c).rowOff

NewHeight(rows) == MinOf(MaxOf(rows, 1), MaxHeight)

\* recalculateHeight, then repositionView, for so many rows and the cursor in line.
NewTop(h, rows, line) ==
  LET low == MinOf(top, MaxOf(0, rows - h))
  IN IF line < low THEN line ELSE IF line > low + h - 1 THEN line - h + 1 ELSE low

-----------------------------------------------------------------------------
(* What a key makes of the text and the cursor, and what Update ends with  *)
(* for every key.                                                          *)

Becomes(lines, r, c, off) == value' = lines /\ row' = r /\ col' = c /\ lastOff' = off

Reposition ==
  /\ height' = NewHeight(VisualRows(value'))
  /\ top' = NewTop(height', VisualRows(value'), CursorLine(value', row', col'))
  /\ UNCHANGED width

\* SetCursorColumn forgets the column of vertical moves.
Moves(r, c) == Becomes(value, r, c, 0)
Edits(line, c) == Becomes([value EXCEPT ![row] = line], row, c, 0)

L == value[row]

Init ==
  /\ value = << << >> >> /\ row = 1 /\ col = 0 /\ lastOff = 0
  /\ width \in Widths /\ height = 1 /\ top = 0 /\ busy = FALSE

-----------------------------------------------------------------------------
(* Insertion.                                                              *)

Length == Sum([i \in 1..Len(value) |-> StringWidth(value[i])]) + Len(value) - 1

LinesOf(s) ==
  LET Add(lines, r) == IF r = "n" THEN Append(lines, << >>) ELSE Extended(lines, <<r>>)
  IN FoldLeft(Add, << << >> >>, s)

InsertRunes(s) ==
  LET fitting == Before(s, MinOf(Len(s), CharLimit - Length))
      lines == Before(LinesOf(fitting),
                 MinOf(Len(LinesOf(fitting)), MaxOf(0, MaxLines - Len(value) + 1)))
      joined == [lines EXCEPT ![1] = Before(L, col) \o @]
      final == Last(joined)
  IN IF CharLimit - Length <= 0 \/ lines = << >>
     THEN Becomes(value, row, col, lastOff)
     ELSE Becomes(Before(value, row - 1) \o Extended(joined, After(L, col)) \o After(value, row),
                  row + Len(lines) - 1, Len(final), 0)

InsertRune == \E r \in Runes : InsertRunes(<<r>>)
Paste == \E s \in Pastes : InsertRunes(s)

InsertNewline ==
  IF Len(value) >= MaxHeight
  THEN UNCHANGED <<value, cursor>>
  ELSE Becomes(Before(value, row - 1) \o <<Before(L, col), After(L, col)>> \o After(value, row),
               row + 1, 0, lastOff)

-----------------------------------------------------------------------------
(* Deletion.                                                               *)

MergedBelow(lines, r) ==
  IF r < Len(lines)
  THEN Before(lines, r - 1) \o <<lines[r] \o lines[r + 1]>> \o After(lines, r + 1) ELSE lines

MergeLineBelow == Becomes(MergedBelow(value, row), row, col, lastOff)
MergeLineAbove ==
  IF row = 1 THEN Becomes(value, row, col, lastOff)
  ELSE Becomes(MergedBelow(value, row - 1), row - 1, Len(value[row - 1]), lastOff)

DeleteAfterCursor == IF col >= Len(L) THEN MergeLineBelow ELSE Edits(Before(L, col), col)
DeleteBeforeCursor == IF col = 0 THEN MergeLineAbove ELSE Edits(After(L, col), 0)
DeleteBackward ==
  IF col = 0 THEN MergeLineAbove ELSE Edits(Before(L, col - 1) \o After(L, col), col - 1)

\* The line below is drawn in also when the last rune of a line was deleted.
DeleteForward ==
  LET line == IF col < Len(L) THEN RemoveAt(L, col + 1) ELSE L
      lines == [value EXCEPT ![row] = line]
  IN Becomes(IF col >= Len(line) THEN MergedBelow(lines, row) ELSE lines, row, col, lastOff)

\* Over spaces to the left, then to the first rune of the word.
WordLeftOf(c) ==
  LET over[i \in 0..Len(L)] == IF i > 0 /\ Space(L[i + 1]) THEN over[i - 1] ELSE i
      start[i \in 0..Len(L)] ==
        IF i = 0 THEN 0 ELSE IF Space(L[i + 1]) THEN i + 1 ELSE start[i - 1]
  IN start[over[c - 1]]

WordRightOf(c) ==
  LET over[i \in 0..Len(L)] == IF i < Len(L) /\ Space(L[i + 1]) THEN over[i + 1] ELSE i
      past[i \in 0..Len(L)] == IF i < Len(L) /\ ~Space(L[i + 1]) THEN past[i + 1] ELSE i
  IN past[over[c]]

DeleteWordLeft ==
  IF col = 0 THEN MergeLineAbove
  ELSE Edits(Before(L, WordLeftOf(col)) \o After(L, col), WordLeftOf(col))
DeleteWordRight ==
  IF col >= Len(L) THEN MergeLineBelow
  ELSE Edits(Before(L, col) \o After(L, WordRightOf(col)), col)

TransposeLeft ==
  IF col = 0 \/ Len(L) < 2 THEN Becomes(value, row, col, lastOff)
  ELSE LET c == IF col >= Len(L) THEN col - 1 ELSE col
       IN Edits([L EXCEPT ![c] = L[c + 1], ![c + 1] = L[c]], c + 1)

-----------------------------------------------------------------------------
(* Horizontal moves.                                                       *)

CharacterRight ==
  CASE col < Len(L) -> Moves(row, col + 1)
    [] col = Len(L) /\ row < Len(value) -> Moves(row + 1, 0)
    [] OTHER -> Becomes(value, row, col, lastOff)

CharacterLeft ==
  CASE col = 0 /\ row > 1 -> Moves(row - 1, Len(value[row - 1]))
    [] col > 0 -> Moves(row, col - 1)
    [] OTHER -> Becomes(value, row, col, lastOff)

LineStart == Moves(row, 0)
LineEnd == Moves(row, Len(L))
InputBegin == Moves(1, 0)
InputEnd == Moves(Len(value), Len(Last(value)))

\* The next word, of this line or of one below it.
WordRight ==
  LET here(i) == [r |-> i, c |-> IF i = row THEN col ELSE 0]
      at == {i \in row..Len(value) :
               \E c \in (here(i).c + 1)..Len(value[i]) : ~Space(value[i][c])}
      i == CHOOSE n \in at : \A m \in at : n <= m
      first == CHOOSE c \in (here(i).c)..(Len(value[i]) - 1) :
                 /\ ~Space(value[i][c + 1])
                 /\ \A e \in (here(i).c)..(c - 1) : Space(value[i][e + 1])
      end == CHOOSE c \in (first + 1)..Len(value[i]) :
               /\ c = Len(value[i]) \/ Space(value[i][c + 1])
               /\ \A e \in first..(c - 1) : ~Space(value[i][e + 1])
  IN IF at = {} THEN InputEnd ELSE Moves(i, end)

\* wordLeft goes left until a rune that is no space is under the cursor.
WordLeft == busy' = TRUE /\ UNCHANGED <<value, cursor, width, height, top>>

LeftInside ==
  CASE row > 1 /\ col = 0 -> [r |-> row - 1, c |-> MaxOf(0, Len(value[row - 1]) - 1)]
    [] col > 0 -> [r |-> row, c |-> col - 1]
    [] OTHER -> [r |-> row, c |-> col]

SearchLeft ==
  LET p == LeftInside
      line == value[p.r]
      start[i \in 0..Len(line)] == IF i = 0 \/ Space(line[i]) THEN i ELSE start[i - 1]
  IN /\ busy
     /\ IF p.c < Len(line) /\ ~Space(line[p.c + 1])
        THEN busy' = FALSE /\ Moves(p.r, start[p.c]) /\ Reposition
        ELSE Moves(p.r, p.c) /\ UNCHANGED <<width, height, top, busy>>

-----------------------------------------------------------------------------
(* Vertical moves: to the start of the neighbouring visual row, then over  *)
(* to the remembered column.                                               *)

TrailingSpace == 2

Down(p) ==
  LET li == LineInfo(value[p.r], p.c)
  IN IF li.rowOff + 1 >= li.rows /\ p.r < Len(value)
     THEN [r |-> p.r + 1, c |-> 0]
     ELSE [p EXCEPT !.c = MinOf(li.start + li.width + TrailingSpace, Len(value[p.r]) - 1)]

Up(p) ==
  LET li == LineInfo(value[p.r], p.c)
  IN IF li.rowOff <= 0 /\ p.r > 1
     THEN [r |-> p.r - 1, c |-> Len(value[p.r - 1])]
     ELSE [p EXCEPT !.c = li.start - TrailingSpace]

EnterRow(p, off) ==
  LET nli == LineInfo(value[p.r], p.c)
      Walk(acc, i) ==
        IF acc.off < off /\ acc.c < Len(value[p.r]) /\ acc.off < nli.charWidth - 1
        THEN [c |-> acc.c + 1, off |-> acc.off + RuneWidth(value[p.r][acc.c + 1])]
        ELSE acc
  IN FoldLeft(Walk, [c |-> nli.start, off |-> 0], [i \in 1..Len(value[p.r]) |-> i]).c

LineRelative(Move(_), n) ==
  LET off == MaxOf(lastOff, LineInfo(L, col).off)
      p == FoldLeft(LAMBDA q, i : Move(q), [r |-> row, c |-> col], [i \in 1..n |-> i])
  IN Becomes(value, p.r, EnterRow(p, off), off)

LineNext == LineRelative(Down, 1)
LinePrevious == LineRelative(Up, 1)

\* To the edge of the window first, then by whole windows.
PageUp ==
  LET above == CursorLine(value, row, col) - top
  IN LineRelative(Up, IF above > 0 THEN above ELSE height)
PageDown ==
  LET below == height - 1 - (CursorLine(value, row, col) - top)
  IN LineRelative(Down, IF below > 0 THEN below ELSE height)

-----------------------------------------------------------------------------
Insertions == InsertRune \/ Paste \/ InsertNewline
Deletions ==
  \/ DeleteAfterCursor \/ DeleteBeforeCursor \/ DeleteBackward \/ DeleteForward
  \/ DeleteWordLeft \/ DeleteWordRight
Motions ==
  \/ CharacterRight \/ CharacterLeft \/ LineStart \/ LineEnd \/ InputBegin \/ InputEnd
  \/ WordRight \/ LineNext \/ LinePrevious \/ PageUp \/ PageDown

Press ==
  /\ ~busy /\ UNCHANGED busy
  /\ Insertions \/ Deletions \/ TransposeLeft \/ Motions
  /\ Reposition

Next == Press \/ (~busy /\ WordLeft) \/ SearchLeft

Spec == Init /\ [][Next]_vars /\ WF_vars(SearchLeft)

-----------------------------------------------------------------------------
(* The cursor stands on a place of the text and, once a key is dealt with, *)
(* in the window.                                                          *)
CursorIsReal ==
  /\ row \in 1..Len(value) /\ col \in 0..Len(L)
  /\ ~busy => CursorLine(value, row, col) - top \in 0..(height - 1)

(* The soft wrap loses no rune, and no row is wider than the box but by    *)
(* the space behind its last word.                                         *)
NothingClipped ==
  \A i \in 1..Len(value) :
    LET grid == Wrap(value[i]) IN
    /\ Front(FlattenSeq(grid)) = value[i]
    /\ \A j \in 1..Len(grid) :
         \/ StringWidth(grid[j]) <= width
         \/ StringWidth(grid[j]) = width + 1 /\ Space(Last(grid[j]))

(* Drawing the row of the cursor reads a rune that is there, although the  *)
(* space of an overlong row is cut off before.                             *)
CursorIsDrawn ==
  LET li == LineInfo(L, col)
      r == Wrap(L)[li.rowOff + 1]
      cut == IF StringWidth(r) > width /\ Space(Last(r)) THEN Front(r) ELSE r
  IN \/ li.colOff < Len(cut)
     \/ li.colOff = Len(cut) /\ col >= Len(L) /\ li.off >= width

Text(lines) == FoldLeft(LAMBDA t, l : t \o <<"n">> \o l, Head(lines), Tail(lines))
Place(lines, r, c) == Len(Text(Before(lines, r - 1) \o <<Before(lines[r], c)>>))

(* A key puts in or takes out one piece of the text, at the cursor, and    *)
(* what stands on the other side of it stays.                              *)
EditsAreLocal ==
  [][LET t == Text(value)  u == Text(value')
         p == Place(value, row, col)  q == Place(value', row', col')
         m == MinOf(p, q)
     IN Len(u) # Len(t) =>
          /\ Before(u, m) = Before(t, m)
          /\ \/ After(u, q) = After(t, p)
             \/ p = q /\ IsSuffix(After(u, q), After(t, p))]_vars

(* A vertical move between lines goes one visual row, where no rune is     *)
(* wide.                                                                   *)
Narrow == \A i \in 1..Len(value) : \A j \in 1..Len(value[i]) : RuneWidth(value[i][j]) = 1
Rows == CursorLine(value', row', col') - CursorLine(value, row, col)
OneRow ==
  row' # row /\ ~busy =>
    /\ LineNext => Rows = 1
    /\ LinePrevious => Rows = -1
RowByRow == [][row' # row /\ Narrow => OneRow]_vars

(* Not so in this code: every key press comes to an end (wordLeft, started *)
(* with nothing but spaces before the cursor, turns forever); one press of *)
(* delete takes one character (the last one of a line takes the end of the *)
(* line along); up and down go one row over wide runes, too (the column is *)
(* looked for beyond a wide rune at the end of a row).                     *)
KeysEnd == []<>~busy
OneAtATime ==
  [][~busy /\ DeleteForward /\ value' # value => Len(Text(value')) = Len(Text(value)) - 1]_vars
WideRowByRow == [][OneRow]_vars
=============================================================================
