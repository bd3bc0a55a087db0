------------------------------ MODULE FileEdits ------------------------------
(***************************************************************************)
(* The tools that change a file, tool/builtin: write_file, edit_file,      *)
(* multi_edit, delete_range, delete_symbol and notebook_edit.  Each has an *)
(* Execute and a Preview that the code writes twice; the preview is shown  *)
(* for approval, so others may touch the file between the two.             *)
(*   A text is a sequence of characters, "n" a line feed and "r" a         *)
(* carriage return; a Go file is a sequence of lines of declarations; a    *)
(* notebook is a sequence of cells.  enc is how the file is encoded.       *)
(***************************************************************************)
EXTENDS Integers, Sequences, FiniteSets, SequencesExt

CONSTANTS
  Texts, EditCalls(_, _), \* texts, and calls of the four tools on texts
  GoFiles, SymbolCalls,
  Notebooks, CellCalls,
  MaxTouches

VARIABLES
  file,      \* [enc, body]
  call,      \* the arguments, with confined: the path lies in the workspace
  shown,     \* what Preview returned
  result,    \* what Execute returned
  touches

vars == <<file, call, shown, result, touches>>

Encodings == {"utf8", "bom", "gb18030"}

Failed == [ok |-> FALSE, body |-> << >>]
Done(body) == [ok |-> TRUE, body |-> body]
None == [ok |-> FALSE]

-----------------------------------------------------------------------------
(* Texts.  strings.Count, Index and Replace go from left to right and never *)
(* overlap.                                                                 *)

At(t, s, i) == i + Len(s) - 1 <= Len(t) /\ SubSeq(t, i, i + Len(s) - 1) = s

Occurrences(t, s) ==
  LET Take(found, i) ==
        IF At(t, s, i) /\ (found = << >> \/ i >= Last(found) + Len(s))
        THEN Append(found, i) ELSE found
  IN FoldLeft(Take, << >>, [i \in 1..Len(t) |-> i])

Replace(t, s, r) ==
  LET Put(acc, i) == SubSeq(acc, 1, i - 1) \o r \o SubSeq(acc, i + Len(s), Len(acc))
  IN FoldLeft(Put, t, Reverse(Occurrences(t, s)))

Matches(t, e) ==
  IF e.all THEN Occurrences(t, e.old) # << >> ELSE Len(Occurrences(t, e.old)) = 1

\* One step on the buffer that the steps before left; a failed step ends the call.
ApplyStep(acc, e) ==
  IF acc.ok /\ e.old # << >> /\ Matches(acc.body, e)
  THEN Done(Replace(acc.body, e.old, e.new))
  ELSE [acc EXCEPT !.ok = FALSE]

ApplyEdits(t, edits) ==
  IF edits = << >> THEN Failed ELSE FoldLeft(ApplyStep, Done(t), edits)

\* Preview writes the same loop again, with a condition of its own.
PreviewMatches(t, e) ==
  LET n == Len(Occurrences(t, e.old)) IN n # 0 /\ (e.all \/ n = 1)

PreviewStep(acc, e) ==
  IF acc.ok /\ e.old # << >> /\ PreviewMatches(acc.body, e)
  THEN Done(Replace(acc.body, e.old, e.new))
  ELSE Failed

PreviewEdits(t, edits) ==
  IF edits = << >> THEN Failed ELSE FoldLeft(PreviewStep, Done(t), edits)

-----------------------------------------------------------------------------
(* delete_range works on lines without their carriage returns.             *)

SplitLines(t) ==
  LET Add(lines, c) ==
        IF c = "n" THEN Append(lines, << >>)
        ELSE ReplaceAt(lines, Len(lines), Append(Last(lines), c))
  IN FoldLeft(Add, << << >> >>, SelectSeq(t, LAMBDA c : c # "r"))

Join(lines, sep) ==
  IF lines = << >> THEN << >>
  ELSE FoldLeft(LAMBDA acc, l : acc \o sep \o l, Head(lines), Tail(lines))

LineSep(t) == IF Occurrences(t, <<"r", "n">>) # << >> THEN <<"r", "n">> ELSE <<"n">>

\* findUniqueLine; 0 for none and for several.
UniqueLine(lines, anchor) ==
  LET at == {i \in 1..Len(lines) : lines[i] = anchor}
  IN IF Cardinality(at) = 1 THEN CHOOSE i \in at : TRUE ELSE 0

KeepAnchors(lines, first, last, inclusive) ==   \* mutant: the last anchor goes
  SubSeq(lines, 1, IF inclusive THEN first - 1 ELSE first)
    \o SubSeq(lines, last + 1, Len(lines))
KeptLines(lines, first, last, inclusive) ==
  IF inclusive
  THEN SubSeq(lines, 1, first - 1) \o SubSeq(lines, last + 1, Len(lines))
  ELSE SubSeq(lines, 1, first) \o SubSeq(lines, last, Len(lines))

DeleteRange(t, c) ==
  LET lines == SplitLines(t)
      sep == LineSep(t)
      first == UniqueLine(lines, c.start)
      last == UniqueLine(lines, c.end)
      body == Join(KeptLines(lines, first, last, c.inclusive), sep)
      ends(b) == Len(b) >= Len(sep) /\ At(b, sep, Len(b) - Len(sep) + 1)
  IN IF \/ c.start = << >> \/ c.end = << >>
        \/ first = 0 \/ last = 0 \/ first > last
        \/ ~c.inclusive /\ first = last
     THEN Failed
     ELSE Done(IF body # << >> /\ ends(t) /\ ~ends(body) THEN body \o sep ELSE body)

-----------------------------------------------------------------------------
(* delete_symbol.  A line is a doc comment or holds declarations, each with *)
(* the names of its spec; the match takes its whole lines and its doc's.    *)

Symbols(lines) ==
  {[line |-> i, spec |-> j, name |-> k] : i \in 1..Len(lines), j \in 1..2, k \in {"A", "B"}}

IsSymbol(lines, m) ==
  m.spec <= Len(lines[m.line].specs) /\ m.name \in lines[m.line].specs[m.spec].names

FoundSymbols(lines, c) ==
  {m \in Symbols(lines) :
     /\ IsSymbol(lines, m)
     /\ m.name = c.name
     /\ LET s == lines[m.line].specs[m.spec]
        IN c.kind \in {"", s.kind} /\ c.parent \in {"", s.parent}}

DocLine(lines, m) ==
  IF m.spec = 1 /\ m.line > 1 /\ lines[m.line - 1].doc THEN m.line - 1 ELSE m.line

FirstCut(lines, m) == DocLine(lines, m)

DeleteSymbol(lines, c) ==
  LET found == FoundSymbols(lines, c)
      m == CHOOSE x \in found : TRUE
  IN IF Cardinality(found) # 1 \/ Cardinality(lines[m.line].specs[m.spec].names) > 1
     THEN Failed
     ELSE Done(SubSeq(lines, 1, FirstCut(lines, m) - 1)
                 \o SubSeq(lines, m.line + 1, Len(lines)))

-----------------------------------------------------------------------------
(* notebook_edit.  Cells are numbered from 0; NoNumber is an absent number. *)

NoNumber == -2

NewCell(type, source) ==
  [id |-> "", type |-> type, source |-> source,
   outputs |-> IF type = "code" THEN "empty" ELSE "absent"]

NormalizeOutputs(cell) ==
  [cell EXCEPT !.outputs = IF cell.type = "markdown" THEN "absent" ELSE "empty"]

InsertCell(cells, c) ==
  LET after == IF c.number = NoNumber THEN -1 ELSE c.number
  IN IF c.type = "" \/ after < -1 \/ after >= Len(cells)
     THEN Failed
     ELSE Done(InsertAt(cells, after + 2, NewCell(c.type, c.source)))

\* targetIndex, counted from 1; 0 is an error.
TargetIndex(cells, c) ==
  LET named == {i \in 1..Len(cells) : cells[i].id = c.id}
  IN CASE c.id # "" -> IF named = {} THEN 0 ELSE CHOOSE i \in named : \A j \in named : i <= j
       [] c.id = "" /\ c.number = NoNumber -> IF Len(cells) = 1 THEN 1 ELSE 0
       [] OTHER -> IF c.number \in 0..(Len(cells) - 1) THEN c.number + 1 ELSE 0

ApplyNotebookEdit(cells, c) ==
  LET i == TargetIndex(cells, c)
      type == IF c.type = "" THEN cells[i].type ELSE c.type
  IN CASE c.mode = "insert" -> InsertCell(cells, c)
       [] c.mode # "insert" /\ i = 0 -> Failed
       [] c.mode = "delete" /\ i # 0 -> Done(RemoveAt(cells, i))
       [] OTHER -> Done([cells EXCEPT ![i] =
                           NormalizeOutputs([@ EXCEPT !.source = c.source, !.type = type])])

-----------------------------------------------------------------------------
(* The two entries of a tool.                                              *)

Computed(c, body) ==
  CASE c.tool = "write_file" -> Done(c.content)
    [] c.tool = "edit_file" -> ApplyEdits(body, <<[old |-> c.old, new |-> c.new, all |-> FALSE]>>)
    [] c.tool = "multi_edit" -> ApplyEdits(body, c.edits)
    [] c.tool = "delete_range" -> DeleteRange(body, c)
    [] c.tool = "delete_symbol" -> DeleteSymbol(body, c)
    [] c.tool = "notebook_edit" -> ApplyNotebookEdit(body, c)

\* Only the previews of the two deletions look whether the path is allowed.
PreviewOf(c, body) ==
  CASE c.tool = "edit_file" -> PreviewEdits(body, <<[old |-> c.old, new |-> c.new, all |-> FALSE]>>)
    [] c.tool = "multi_edit" -> PreviewEdits(body, c.edits)
    [] c.tool \in {"delete_range", "delete_symbol"} /\ ~c.confined -> Failed
    [] OTHER -> Computed(c, body)

ExecuteOf(c, body) == IF c.confined THEN Computed(c, body) ELSE Failed

\* edit_file and multi_edit encode as they decoded, the others write bytes.
WriteBack(f, c, body) ==
  [enc |-> IF c.tool = "write_file" THEN "utf8" ELSE f.enc, body |-> body]

-----------------------------------------------------------------------------
Init ==
  /\ \/ \E t \in Texts, e \in Encodings :
          file = [enc |-> e, body |-> t] /\ call \in EditCalls(t, e)
     \/ \E g \in GoFiles : file = [enc |-> "utf8", body |-> g] /\ call \in SymbolCalls
     \/ \E n \in Notebooks : file = [enc |-> "utf8", body |-> n] /\ call \in CellCalls
  /\ shown = None /\ result = None /\ touches = 0

Preview ==
  /\ shown = None /\ result = None
  /\ shown' = PreviewOf(call, file.body)
  /\ UNCHANGED <<file, call, result, touches>>

\* While the user reads the preview, the file changes under both.
Touch ==
  /\ shown # None /\ result = None /\ touches < MaxTouches
  /\ file.body # << >>
  /\ file' = [file EXCEPT !.body = Tail(@)]
  /\ touches' = touches + 1
  /\ UNCHANGED <<call, shown, result>>

Writes(r) == r.ok

Execute ==
  /\ shown # None /\ result = None
  /\ LET r == ExecuteOf(call, file.body)
     IN /\ result' = r
        /\ file' = IF Writes(r) THEN WriteBack(file, call, r.body) ELSE file
  /\ UNCHANGED <<call, shown, touches>>

Next == Preview \/ Touch \/ Execute

Spec == Init /\ [][Next]_vars

-----------------------------------------------------------------------------
(* What is written is what was shown, unless the file changed in between:  *)
(* the two loops agree, and no call writes what no preview showed.         *)
ShownIsWritten ==
  [][Execute /\ result'.ok /\ touches = 0 => shown.ok /\ file'.body = shown.body]_vars

(* A call that fails, a later step of several included, leaves the file as *)
(* it was.                                                                 *)
FailureKeeps == [][Execute /\ ~result'.ok => file' = file]_vars

\* from becomes to when one run of elements is taken out.
Cut(from, to) ==
  \E i \in 0..Len(to) :
    /\ SubSeq(to, 1, i) = SubSeq(from, 1, i)
    /\ Len(to) <= Len(from)
    /\ SubSeq(to, i + 1, Len(to)) = SubSeq(from, Len(from) - Len(to) + i + 1, Len(from))

Uniform(t) ==
  LET cr == {i \in 1..Len(t) : t[i] = "r"}
  IN cr = {} \/ {i + 1 : i \in cr} = {i \in 1..Len(t) : t[i] = "n"}

(* A range is one run of the file, holds the anchors or stops at them, and *)
(* every line beside it stays, for a file whose lines all end alike.       *)
RangeIsExact ==
  [][Execute /\ call.tool = "delete_range" /\ result'.ok /\ Uniform(file.body) =>
       /\ Cut(file.body, file'.body)
       /\ LET gone(a) == ~\E i \in 1..Len(SplitLines(file'.body)) : SplitLines(file'.body)[i] = a
          IN gone(call.start) = call.inclusive /\ gone(call.end) = call.inclusive]_vars

(* An edit of a text changes nothing but places where its old string       *)
(* stood, and the encoding of the file stays.                              *)
MatchIsExact ==
  [][Execute /\ call.tool = "edit_file" /\ result'.ok =>
       /\ file'.enc = file.enc
       /\ \E i \in 1..Len(file.body) :
            /\ At(file.body, call.old, i)
            /\ \A j \in 1..Len(file.body) : At(file.body, call.old, j) => j < i + Len(call.old) /\ i <= j
            /\ file'.body = SubSeq(file.body, 1, i - 1) \o call.new
                              \o SubSeq(file.body, i + Len(call.old), Len(file.body))]_vars

(* A deleted symbol takes its doc comment along, and of declarations on    *)
(* lines of their own no other goes.                                       *)
SymbolIsExact ==
  [][Execute /\ call.tool = "delete_symbol" /\ result'.ok /\
     (\A i \in 1..Len(file.body) : Len(file.body[i].specs) <= 1) =>
       /\ Cut(file.body, file'.body)
       /\ Cardinality({m \in Symbols(file.body) : IsSymbol(file.body, m)})
            = Cardinality({m \in Symbols(file'.body) : IsSymbol(file'.body, m)}) + 1
       /\ \A i \in 1..Len(file'.body) :
            file'.body[i].doc => i < Len(file'.body) /\ file'.body[i + 1].specs # << >>]_vars

(* A cell named by its id is the one that changes, every other one stays   *)
(* where it was, and no result outlives the source it came from.           *)
CellIsExact ==
  [][Execute /\ call.tool = "notebook_edit" /\ result'.ok =>
       LET old == file.body  new == file'.body
       IN CASE call.mode = "insert" -> Cut(new, old) /\ Len(new) = Len(old) + 1
            [] call.mode = "delete" -> Cut(old, new) /\ Len(new) = Len(old) - 1
                 /\ (call.id # "" => \E i \in 1..Len(old) :
                       old[i].id = call.id /\ RemoveAt(old, i) = new)
            [] OTHER -> /\ Len(new) = Len(old)
                        /\ \E i \in 1..Len(new) :
                             /\ call.id \in {"", old[i].id}
                             /\ new[i].source = call.source /\ new[i].outputs # "stale"
                             /\ (new[i].type = "markdown" => new[i].outputs = "absent")
                             /\ \A j \in DOMAIN new \ {i} : new[j] = old[j]]_vars

(* Not so in this code: a string that occurs exactly once by itself is     *)
(* refused or replaced by where it stands alone (edit_file counts without  *)
(* overlaps, so aa in aaa is called unique); every line that is kept keeps *)
(* its end (delete_range makes mixed ends alike); no sibling goes with a   *)
(* symbol (one that shares its line does); only code cells have outputs    *)
(* (a replaced raw cell gets them); an insertion goes behind the cell its  *)
(* id names (it goes to the top); what a preview shows can be executed.    *)
UniqueMeansOne ==
  [][Execute /\ call.tool = "edit_file" /\ result'.ok =>
       Cardinality({i \in 1..Len(file.body) : At(file.body, call.old, i)}) = 1]_vars
LinesKeepTheirEnds ==
  [][Execute /\ call.tool = "delete_range" /\ result'.ok => Cut(file.body, file'.body)]_vars
SiblingsStay ==
  [][Execute /\ call.tool = "delete_symbol" /\ result'.ok =>
       Cardinality({m \in Symbols(file.body) : IsSymbol(file.body, m)})
         = Cardinality({m \in Symbols(file'.body) : IsSymbol(file'.body, m)}) + 1]_vars
OnlyCodeHasOutputs ==
  [][Execute /\ call.tool = "notebook_edit" /\ result'.ok =>
       \A i \in DOMAIN file'.body :
         file'.body[i].outputs = "empty" => file'.body[i].type = "code"]_vars
ShownCanBeDone == [][Execute /\ shown.ok /\ touches = 0 => result'.ok]_vars
=============================================================================
