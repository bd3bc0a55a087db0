-------------------------------- MODULE MCText --------------------------------
(* What reads and writes text: the globs of the permission rules, the file *)
(* tools and the diff of what they write, the search tools, the box the    *)
(* user types in, the line it becomes and the transcript above it, the     *)
(* skills and the attached images.  A behaviour moves one of them, focus.  *)
EXTENDS Glob, TLC

CONSTANT Foci

VARIABLES
  focus,
  eFile, eCall, eShown, eResult, touches,
  before, after, round, diagonal, reach, trace, oldAt, newAt, ops, dAt,
  tValue, row, col, lastOff, width, height, top, busy,
  cValue, cursor, menu, submitted, recall, draft, blocks, pasted, turn, sent, stale, crashed,
  keys, spent,
  tool, root, rules, repo, suffix, sAt, frames, pruned, seen, out, truncated,
  sText, limit, offset, pages, status,
  skills, index, wrappers, install, claims, kEdits, installs,
  clock, seq, dir, disk, path, job, saves, changes, kept,
  ui, src, kids, backs, turns, messages, ids, extras

UpTo(S, n) == UNION {[1..k -> S] : k \in 0..n}

\* The globs and the names of the permission rules.
RuleGlobs == UpTo({"a", "b", "*", "?"}, 4)
Subjects == UpTo({"a", "b"}, 5) \cup UpTo({"a", "*"}, 3)

\* Texts of one line for the tools that match strings, of many for the one
\* that deletes lines.
Texts == UpTo({"a", "b"}, 3) \cup UpTo({"a", "r", "n"}, 3) \cup UpTo({"a", "b", "n"}, 4)
OneLine(t) == \A i \in DOMAIN t : t[i] \in {"a", "b"}
Steps == {[old |-> o, new |-> n, all |-> x] : o \in {<<"a">>, <<"a", "a">>},
                                              n \in {<< >>, <<"b">>, <<"a">>}, x \in BOOLEAN}
EditCalls(t, enc) ==
  {[tool |-> "write_file", content |-> <<"a">>, confined |-> c] : c \in BOOLEAN}
  \cup {e \in {[tool |-> "edit_file", old |-> o, new |-> n, confined |-> TRUE] :
                  o \in UpTo({"a", "b"}, 2), n \in {<< >>, <<"b", "a">>}} : OneLine(t)}
  \cup {e \in {[tool |-> "multi_edit", edits |-> <<s1, s2>>, confined |-> TRUE] :
                  s1 \in Steps, s2 \in Steps} : OneLine(t) /\ enc = "utf8"}
  \cup {e \in {[tool |-> "delete_range", start |-> s, end |-> z, inclusive |-> i, confined |-> TRUE] :
                  s \in {<<"a">>, <<"b">>, <<"a", "b">>}, z \in {<<"a">>, <<"b">>}, i \in BOOLEAN} :
        enc = "utf8"}

\* Go files of up to three lines and notebooks of up to two cells.
Declares(names, kind, parent) == [names |-> names, kind |-> kind, parent |-> parent]
Code(specs) == [doc |-> FALSE, specs |-> specs]
Comment == [doc |-> TRUE, specs |-> << >>]
GoFiles ==
  {g \in UpTo({Comment, Code(<<Declares({"A"}, "func", "")>>), Code(<<Declares({"A"}, "method", "T")>>),
               Code(<<Declares({"A", "B"}, "var", "")>>),
               Code(<<Declares({"A"}, "const", ""), Declares({"B"}, "const", "")>>)}, 3) :
     \A i \in DOMAIN g : g[i].doc => i < Len(g) /\ ~g[i + 1].doc}
SymbolCalls ==
  {[tool |-> "delete_symbol", name |-> n, kind |-> q, parent |-> p, confined |-> TRUE] :
     n \in {"A", "B"}, q \in {"", "method"}, p \in {"", "T"}}
Cells == {[id |-> i, type |-> t, source |-> "s", outputs |-> IF t = "code" THEN "stale" ELSE "absent"] :
            i \in {"", "x", "y"}, t \in {"code", "markdown"}}
Absent == -2
CellCalls ==
  {[tool |-> "notebook_edit", mode |-> m, number |-> n, id |-> i, type |-> t, source |-> "new",
    confined |-> TRUE] :
     m \in {"insert", "replace", "delete"}, n \in {Absent, -1, 0, 1, 2}, i \in {"", "x", "y"},
     t \in {"", "code"}}

Edits == INSTANCE FileEdits
  WITH Notebooks <- UpTo(Cells, 2), MaxTouches <- 1, file <- eFile, call <- eCall, shown <- eShown, result <- eResult

Diff == INSTANCE LineDiff
  WITH Lines <- UpTo({"p", "q"}, 4), MaxEdits <- 4, Context <- 1,
       a <- before, b <- after, d <- round, k <- diagonal, v <- reach, x <- oldAt, y <- newAt,
       at <- dAt

Box == INSTANCE Textarea
  WITH Runes <- {"a", "W", " "}, Pastes <- {<<"a", "n", "a">>, <<"n">>, <<"W", "a", " ">>},
       Widths <- {4}, CharLimit <- 4, MaxLines <- 3, MaxHeight <- 2, value <- tValue

Offer(label, insert) == [label |-> label, insert |-> insert]
Typed == INSTANCE Composer
  WITH Chars <- {"/", "@", " ", "a", "b"},
       Labels <- <<"p", "i">>, Pasted <- [p |-> <<"x">>, i |-> <<"@", "z">>], ImageLabels <- {"i"},
       Commands <- <<Offer(<<"/", "a">>, <<"/", "a", " ">>), Offer(<<"/", "b">>, <<"/", "b">>)>>,
       Args <- <<<<"/", "a">>>> :> <<Offer(<<"a">>, <<"a">>), Offer(<<"a", "b">>, <<"a", "b">>)>>,
       Filtered <- {<<"/", "a">>},
       Entries <- (<< >> :> <<<<"a", "/">>, <<"b">>, <<"b", "a">>>>) @@ (<<"a", "/">> :> <<<<"b", ".">>>>),
       Resources <- <<<<"a", "b">>>>, Images <- {<<"z">>}, MaxLen <- 5, MaxKeys <- 4,
       value <- cValue,
       Procs <- {"p", "q"}, MaxSize <- 2, MaxClock <- 2, MaxSaves <- 1, MaxChanges <- 2

\* A small tree with a hidden, a vendored and an ordinary directory.
Directory(p) == [path |-> p, dir |-> TRUE]
Regular(p) == [path |-> p, dir |-> FALSE]
Tree == <<Directory(<<".h">>), Regular(<<".h", "x">>), Directory(<<"d">>), Directory(<<"d", "e">>),
          Regular(<<"d", "e", "x">>), Regular(<<"d", "x">>), Regular(<<"d", "y">>),
          Directory(<<"v">>), Regular(<<"v", "x">>), Regular(<<"x">>)>>
Plainly(w) == [neg |-> FALSE, rooted |-> FALSE, dirOnly |-> FALSE, names |-> w]
Ignores ==
  {<< >>} \cup {<<[neg |-> n, rooted |-> r, dirOnly |-> o, names |-> w]>> :
                  n \in BOOLEAN, r \in BOOLEAN, o \in BOOLEAN, w \in {<<"x">>, <<"e", "x">>}}
Rulings ==
  {(<< >> :> g) @@ (<<"d">> :> h) @@ (<<"d", "e">> :> i)
     @@ [p \in {Tree[j].path : j \in {1, 8}} |-> << >>] :
     g \in Ignores, h \in Ignores, i \in {<< >>, <<Plainly(<<"x">>)>>}}

Searching == INSTANCE Search
  WITH Roots <- {<< >>, <<"d">>, <<".h">>, <<"v">>},
       Hits <- [p \in {Tree[i].path : i \in {2, 5, 6, 7, 9, 10}} |-> IF Len(p) = 2 THEN 1 ELSE 2],
       Hidden <- {".h"}, Vendor <- {"v"}, Globs <- {<< >>, <<"x">>, <<"e", "x">>, <<"*", "x">>},
       Cap <- 4, Files <- UpTo({"n", "a", "L", "C", "0"}, 4), Peek <- 2, Sample <- 3,
       Limits <- {1, 2}, InRepo <- {TRUE, FALSE}, at <- sAt, text <- sText

Playbooks == INSTANCE Skills
  WITH Roots <- <<"project", "global">>, Project <- "project", Global <- "global",
       Stems <- <<"a">>, Builtins <- [n \in {"a"} |-> "subagent"],
       Commands <- {[name |-> "a", dir |-> 1, text |-> "one"], [name |-> "a", dir |-> 2, text |-> "two"]},
       Sessions <- {"s", "t"}, MaxEdits <- 1, MaxInstalls <- 2, files <- skills, edits <- kEdits

Chat == INSTANCE Transcript
  WITH Batches <- {<<"read", "read">>, <<"bash", "bash">>, <<"task", "edit">>, <<"todo", "background">>},
       MaxTurns <- 2, MaxMessages <- 1, MaxChunks <- 2, MaxExtras <- 2

editVars == <<eFile, eCall, eShown, eResult, touches>>
diffVars == <<before, after, round, diagonal, reach, trace, oldAt, newAt, ops, dAt>>
boxVars == <<tValue, row, col, lastOff, width, height, top, busy>>
lineVars == <<cValue, cursor, menu, submitted, recall, draft, blocks, pasted, turn, sent, stale,
              crashed, keys, spent>>
searchVars == <<tool, root, rules, repo, suffix, sAt, frames, pruned, seen, out, truncated,
                sText, limit, offset, pages, status>>
skillVars == <<skills, index, wrappers, install, claims, kEdits, installs>>
imageVars == <<clock, seq, dir, disk, path, job, saves, changes, kept>>
chatVars == <<ui, src, kids, backs, turns, messages, ids, extras>>
mcVars == <<focus, vars, editVars, diffVars, boxVars, lineVars, searchVars, skillVars, imageVars,
            chatVars>>

\* The parts that do not move stand in one of their initial states.
Moves(f) == focus = f
MCInit ==
  /\ focus \in Foci
  /\ IF Moves("glob") THEN TRUE ELSE pattern = << >> /\ name = << >>
  /\ IF Moves("edits") THEN TRUE
     ELSE /\ eFile = [enc |-> "utf8", body |-> << >>]
          /\ eCall = [tool |-> "write_file", content |-> <<"a">>, confined |-> TRUE]
  /\ IF Moves("diff") THEN TRUE ELSE before = <<"p">> /\ after = <<"q">>
  /\ IF Moves("search") THEN TRUE ELSE tool = "read_file" /\ sText = << >> /\ limit = 1
  /\ IF Moves("chat") THEN TRUE ELSE ui = Chat!Fresh(TRUE)
  /\ Init /\ Edits!Init /\ Diff!Init /\ Box!Init /\ Typed!Init
  /\ Searching!Init /\ Playbooks!Init /\ Typed!ImageInit /\ Chat!Init

\* Only the named parts may move.
Others(moving) ==
  /\ UNCHANGED focus
  /\ moving = "glob" \/ UNCHANGED vars
  /\ moving = "edits" \/ UNCHANGED editVars
  /\ moving = "diff" \/ UNCHANGED diffVars
  /\ moving = "box" \/ UNCHANGED boxVars
  /\ moving = "line" \/ UNCHANGED lineVars
  /\ moving = "search" \/ UNCHANGED searchVars
  /\ moving = "skills" \/ UNCHANGED skillVars
  /\ moving = "images" \/ UNCHANGED imageVars
  /\ moving = "chat" \/ UNCHANGED chatVars

MCNext ==
  \/ Moves("glob") /\ Next /\ Others("glob")
  \/ Moves("edits") /\ Edits!Next /\ Others("edits")
  \/ Moves("diff") /\ Diff!Next /\ Others("diff")
  \/ Moves("box") /\ Box!Next /\ Others("box")
  \/ Moves("line") /\ Typed!Next /\ Others("line")
  \/ Moves("search") /\ Searching!Next /\ Others("search")
  \/ Moves("skills") /\ Playbooks!Next /\ Others("skills")
  \/ Moves("images") /\ Typed!ImageNext /\ Others("images")
  \/ Moves("chat") /\ Chat!Next /\ Others("chat")

MCFairness ==
  /\ WF_vars(Moves("glob") /\ Next)
  /\ WF_diffVars(Moves("diff") /\ Diff!Next)
  /\ WF_searchVars(Moves("search") /\ Searching!Next)
  /\ WF_lineVars(Moves("line") /\ Typed!Enter) /\ WF_lineVars(Moves("line") /\ Typed!Answered)

MCSpec == MCInit /\ [][MCNext]_mcVars /\ MCFairness

(* Whatever answers a question about text answers it rightly: the diff is  *)
(* the difference, grep sees what git tracks, glob and read_file leave     *)
(* nothing out, an installed skill is the one that runs, a reference the   *)
(* menu offers resolves, and a path an attachment was saved under holds    *)
(* the image.                                                              *)
AnswersAreRight ==
  /\ Diff!ScriptIsRight /\ Diff!HunksAreRight
  /\ Searching!MirrorsGit /\ Searching!OutputIsWhole /\ Searching!PagesAddUp
  /\ Playbooks!InstalledRuns /\ Playbooks!ListedIsRead
  /\ Typed!OfferedResolves
  /\ Typed!PathsHold /\ Typed!ChangesRefuse

(* The screen shows what there is: the cursor stands where the text says,  *)
(* no character falls off a row, every index into the transcript meets     *)
(* the block it was taken for, and what looks under way is.                *)
ScreenIsTrue ==
  /\ Box!CursorIsReal /\ Box!NothingClipped /\ Box!CursorIsDrawn
  /\ Chat!IndexesHold /\ Chat!WorkingIsWorking

(* A change of text is the one that was asked for and no other: of a file, *)
(* of the line under the cursor, of the transcript, of the skills.         *)
EditsAreExact ==
  /\ Edits!ShownIsWritten /\ Edits!FailureKeeps /\ Edits!RangeIsExact
  /\ Edits!MatchIsExact /\ Edits!SymbolIsExact /\ Edits!CellIsExact
  /\ Box!EditsAreLocal /\ Box!RowByRow
  /\ Typed!AcceptKeepsText /\ Typed!PastesArrive
  /\ Playbooks!InstallsKeepFiles
  /\ Chat!ShownStays /\ Chat!UnsentLeaves /\ Chat!AnswersAreWhole

(* The loops over text end: the match, the diff, the search; and what is   *)
(* typed is sent however often Enter meets the menu.                       *)
LoopsEnd ==
  /\ []<>(Moves("glob") => verdict # "none")
  /\ []<>(Moves("diff") => dAt \in {"done", "omitted"})
  /\ []<>(Moves("search") => status \in {"done", "refused"})
  /\ Typed!EnterSends
=============================================================================
