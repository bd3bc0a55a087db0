------------------------------- MODULE Search -------------------------------
(***************************************************************************)
(* The tools that look: grep and its walk under the ignore rules of a      *)
(* repository (tool/builtin/grep.go, gitignore.go), recursive glob         *)
(* (glob.go) and read_file with its pages (readfile.go).                   *)
(*                                                                         *)
(* A path is a sequence of names; a file system is its entries in the      *)
(* order WalkDir meets them.  The text of a file is a sequence of bytes:   *)
(* "n" ends a line, "a" is ASCII, "L" and "C" are the two bytes of one     *)
(* UTF-8 character, "0" is NUL.                                            *)
(***************************************************************************)
EXTENDS Naturals, Sequences, SequencesExt, FiniteSets, TLC

CONSTANTS
  Tree,      \* the entries, in walk order: [path, dir]
  Roots,     \* what a call names: a directory of Tree
  Rulings,   \* by directory, the patterns of its .gitignore, the possible choices
  Hits,      \* by file: how many of its lines match
  Hidden, Vendor,  \* names that start with a dot; vendorDirs
  Globs,     \* what follows ** in a glob: names, or "*"
  Cap,       \* grepMaxMatches, globMaxResults
  Files,     \* the texts read
  Peek, Sample,  \* readFileBinaryPeek, readFileDetectSample
  Limits,    \* lines per page
  InRepo     \* is there a .git above: {TRUE, FALSE}

VARIABLES
  tool, root, rules, repo, suffix,  \* the call
  at,        \* the next entry of Tree
  frames,    \* shallow to deep: [dir, patterns]
  pruned,    \* the directory whose rest is skipped, or the root
  seen,      \* history: files that were looked into
  out,       \* [path, line]
  truncated,
  text, limit, offset, pages,  \* read_file
  status

walking == <<at, frames, pruned, seen, out, truncated>>
call == <<tool, root, rules, repo, suffix, text, limit>>
vars == <<call, walking, offset, pages, status>>

Before(s, i) == SubSeq(s, 1, i)
Under(dir, p) == IsPrefix(dir, p)
Name(p) == Last(p)
Dirs == {Tree[i].path : i \in {i \in DOMAIN Tree : Tree[i].dir}} \cup {<< >>}

-----------------------------------------------------------------------------
(* Ignore rules: [neg, rooted, dirOnly, names, in], in being the directory *)
(* of the .gitignore.                                                      *)

\* reanchorPattern: below the root an embedded slash anchors, at the root it
\* is left to the library.
Unanchored(r, dir) == r @@ [in |-> << >>]      \* mutant: at any depth of the tree
ReanchorPattern(r, dir) ==
  [r EXCEPT !.rooted = r.rooted \/ (dir # << >> /\ Len(r.names) > 1)] @@ [in |-> dir]
ReanchorLines(dir) ==
  [i \in DOMAIN rules[dir] |-> ReanchorPattern(rules[dir][i], dir)]

\* go-gitignore: a rule also matches what lies below, and dirOnly wants a
\* slash behind the name.
Found(r, p, slash, from) ==
  LET end == from + Len(r.names) - 1
  IN /\ end <= Len(p) /\ SubSeq(p, from, end) = r.names
     /\ ~r.dirOnly \/ end < Len(p) \/ slash
RuleMatches(r, p, slash) ==
  /\ Under(r.in, p)
  /\ \E from \in Len(r.in) + 1 .. Len(p) :
       Found(r, p, slash, from) /\ (r.rooted => from = Len(r.in) + 1)
MatchesPath(pats, p, slash) ==
  LET hit == {i \in DOMAIN pats : RuleMatches(pats[i], p, slash)}
  IN hit # {} /\ ~pats[CHOOSE i \in hit : \A j \in hit : i >= j].neg

TopPatterns == IF frames = << >> THEN << >> ELSE Last(frames).patterns
IsIgnored(fs, p, dir) ==
  /\ repo /\ fs # << >>
  /\ (dir /\ MatchesPath(Last(fs).patterns, p, TRUE)) \/ MatchesPath(Last(fs).patterns, p, FALSE)

\* push: only a frame with rules of its own, but for the repository's root.
Pushed(fs, dir, add) ==
  IF add = << >> /\ dir # << >> THEN fs
  ELSE Append(fs, [dir |-> dir,
                   patterns |-> (IF fs = << >> THEN << >> ELSE Last(fs).patterns) \o add])

\* newWalkIgnorer.
RECURSIVE FramesTo(_)
FramesTo(dir) ==
  Pushed(IF dir = << >> THEN << >> ELSE FramesTo(Front(dir)), dir, ReanchorLines(dir))
FirstFrames == IF repo THEN FramesTo(root) ELSE << >>
Disabled ==
  repo /\ root # << >> /\ (Name(root) \in Hidden \/ IsIgnored(FramesTo(root), root, TRUE))

\* skip's first step.
Popped(fs, p) ==
  LET above == {i \in DOMAIN fs : i = 1 \/ \A k \in 2 .. i : Under(fs[k].dir, p)}
  IN Before(fs, IF fs = << >> THEN 0 ELSE CHOOSE i \in above : \A j \in above : i >= j)
Skip(fs, p, dir) ==
  /\ p # root /\ ~Disabled
  /\ Name(p) \in Hidden \/ (dir /\ Name(p) \in Vendor) \/ IsIgnored(fs, p, dir)

\* enter.
Entered(fs, p) ==
  IF Disabled \/ p = root \/ ~repo THEN fs ELSE Pushed(fs, p, ReanchorLines(p))

-----------------------------------------------------------------------------
(* The walks                                                               *)

InWalk(e) == /\ Under(root, e.path)
             /\ pruned = root \/ ~Under(pruned, e.path)
Walking == status = "walking" /\ at <= Len(Tree) /\ UNCHANGED <<call, offset, pages>>
Passed == at' = at + 1 /\ UNCHANGED <<frames, pruned, seen, out, truncated, status>>

\* Lines are added until the cap is reached.
Room(have) == Cap - have
Found2(p, n) == [i \in 1 .. n |-> [path |-> p, line |-> i]]
Adding(p, n) ==
  LET k == IF n < Room(Len(out)) THEN n ELSE Room(Len(out))
  IN /\ out' = out \o Found2(p, k)
     /\ truncated' = (Len(out) + k >= Cap)
     /\ status' = IF truncated' /\ k > 0 THEN "done" ELSE status

Grep ==
  /\ Walking /\ tool = "grep"
  /\ LET e == Tree[at]
         fs == Popped(frames, e.path)
     IN IF ~InWalk(e) THEN Passed
        ELSE /\ at' = at + 1
             /\ IF Skip(fs, e.path, e.dir)
                THEN /\ pruned' = IF e.dir THEN e.path ELSE pruned
                     /\ frames' = fs
                     /\ UNCHANGED <<seen, out, truncated, status>>
                ELSE /\ frames' = IF e.dir THEN Entered(fs, e.path) ELSE fs
                     /\ UNCHANGED pruned
                     /\ IF e.dir THEN UNCHANGED <<seen, out, truncated, status>>
                        ELSE seen' = seen \cup {e.path} /\ Adding(e.path, Hits[e.path])

\* matchGlobSuffix: at the end of the path.
MatchGlobSuffix(p) ==
  /\ Len(suffix) <= Len(p)
  /\ \A i \in DOMAIN suffix : suffix[i] \in {"*", p[Len(p) - Len(suffix) + i]}
GlobRecursive ==
  /\ Walking /\ tool = "glob"
  /\ LET e == Tree[at]
     IN IF ~InWalk(e) THEN Passed
        ELSE /\ at' = at + 1 /\ UNCHANGED frames
             /\ IF e.dir
                THEN /\ pruned' = IF e.path # root /\ Name(e.path) \in Vendor
                                  THEN e.path ELSE pruned
                     /\ UNCHANGED <<seen, out, truncated, status>>
                ELSE /\ seen' = seen \cup {e.path} /\ UNCHANGED pruned
                     /\ IF suffix = << >> \/ MatchGlobSuffix(SubSeq(e.path, Len(root) + 1, Len(e.path)))
                        THEN Adding(e.path, 1)
                        ELSE UNCHANGED <<out, truncated, status>>

Walked ==
  /\ status = "walking" /\ at > Len(Tree) /\ status' = "done"
  /\ UNCHANGED <<call, walking, offset, pages>>

-----------------------------------------------------------------------------
(* Reading                                                                 *)

High == {"L", "C"}
Utf8(s) == \A i \in DOMAIN s : /\ s[i] = "L" => i < Len(s) /\ s[i + 1] = "C"
                               /\ s[i] = "C" => i > 1 /\ s[i - 1] = "L"
Encoding(s) == IF Utf8(s) THEN "utf8" ELSE "gb18030"

\* bufio.Scanner: the last line may lack its end.
LinesOf(s) ==
  LET ends == {i \in DOMAIN s : s[i] = "n"} \cup
              (IF s # << >> /\ Last(s) # "n" THEN {Len(s) + 1} ELSE {})
      Nth(k) == CHOOSE e \in ends : Cardinality({d \in ends : d <= e}) = k
  IN [k \in 1 .. Cardinality(ends) |->
        SubSeq(s, IF k = 1 THEN 1 ELSE Nth(k - 1) + 1, Nth(k) - 1)]
\* A line that is decoded by another encoding than its own is another line.
Decoded(s, enc) ==
  [i \in DOMAIN LinesOf(s) |->
     IF enc = Encoding(s) \/ Range(LinesOf(s)[i]) \cap High = {} THEN LinesOf(s)[i] ELSE <<"?">>]

Peeked(s) == Before(s, IF Len(s) < Peek THEN Len(s) ELSE Peek)
IsBinary(s) == "0" \in Range(Peeked(s))

\* The sample ends behind a line, unless the file ends in it.
SampleOf(s) ==
  LET head == Before(s, Sample)
      ends == {i \in DOMAIN head : head[i] = "n"}
  IN IF ends = {} THEN head ELSE Before(s, CHOOSE i \in ends : \A j \in ends : i >= j)
ReadEncoding(s) == Encoding(IF Len(s) < Sample THEN s ELSE SampleOf(s))

\* scan.
Behind(n, from) == n > from
Page(lines) ==
  LET behind == {n \in DOMAIN lines : Behind(n, offset)}
      shown == {n \in behind : n <= offset + limit}
  IN [lines |-> shown, more |-> shown # behind]
ReadPage ==
  /\ status = "reading"
  /\ LET lines == Decoded(text, ReadEncoding(text))
         page == Page(lines)
     IN IF IsBinary(text) THEN status' = "refused" /\ UNCHANGED <<offset, pages>>
        ELSE /\ pages' = pages \o [i \in 1 .. Cardinality(page.lines) |->
                  LET n == CHOOSE n \in page.lines :
                             Cardinality({m \in page.lines : m <= n}) = i
                  IN [line |-> n, text |-> lines[n]]]
             /\ offset' = offset + Cardinality(page.lines)
             /\ status' = IF page.more THEN "reading" ELSE "done"
  /\ UNCHANGED <<call, walking>>

\* searchFile: what grep reads of a file, up to a line that looks binary.
GrepReads(s) ==
  LET lines == Decoded(s, Encoding(Peeked(s)))
      bad == {n \in DOMAIN lines : "0" \in Range(lines[n])}
  IN IF IsBinary(s) THEN << >>
     ELSE IF bad = {} THEN lines
     ELSE Before(lines, (CHOOSE n \in bad : \A m \in bad : n <= m) - 1)

-----------------------------------------------------------------------------

Idle == /\ at = Len(Tree) + 1 /\ frames = << >> /\ root = << >> /\ suffix = << >>
        /\ rules = [d \in Dirs |-> << >>] /\ repo = FALSE
Init ==
  /\ \/ /\ tool \in {"grep", "glob"} /\ root \in Roots
        /\ rules \in (IF tool = "grep" THEN [Dirs -> {<< >>}] \cup Rulings ELSE {[d \in Dirs |-> << >>]})
        /\ repo \in InRepo
        /\ suffix \in (IF tool = "glob" THEN Globs ELSE {<< >>})
        /\ at = 1 /\ frames = (IF tool = "grep" THEN FirstFrames ELSE << >>)
        /\ text = << >> /\ limit = 1 /\ status = "walking"
     \/ /\ tool = "read_file" /\ Idle
        /\ text \in Files /\ limit \in Limits /\ status = "reading"
  /\ pruned = root /\ seen = {} /\ out = << >> /\ truncated = FALSE
  /\ offset = 0 /\ pages = << >>

Next == Grep \/ GlobRecursive \/ Walked \/ ReadPage
Spec == Init /\ [][Next]_vars /\ WF_vars(Next)

-----------------------------------------------------------------------------
(* What git means by the rules: of those of the directories above that     *)
(* match an entry by itself the last decides.                              *)
ApplyTo(r, dir, p, isDir) ==
  /\ Under(dir, p) /\ dir # p
  /\ r.dirOnly => isDir
  /\ IF r.rooted \/ Len(r.names) > 1 THEN p = dir \o r.names
     ELSE Name(p) = r.names[1]
RECURSIVE GitVerdict(_, _, _)
GitVerdict(dir, p, isDir) ==
  LET hit == {i \in DOMAIN rules[dir] : ApplyTo(rules[dir][i], dir, p, isDir)}
  IN IF hit # {}
     THEN IF rules[dir][CHOOSE i \in hit : \A j \in hit : i >= j].neg THEN "keep" ELSE "ignore"
     ELSE IF dir = << >> THEN "keep" ELSE GitVerdict(Front(dir), p, isDir)
GitIgnores(p, isDir) == GitVerdict(Front(p), p, isDir) = "ignore"
Above(p) == {Before(p, i) : i \in 1 .. Len(p) - 1}

\* Named: the root is within what is ignored, so that all of it is meant.
Meant == /\ repo /\ root # << >>
         /\ Name(root) \in Hidden \/ \E d \in Above(root) \cup {root} : GitIgnores(d, TRUE)
OnTheWay(p) == {d \in Above(p) : Len(d) > Len(root)}
ShouldSee(p) ==
  \/ Meant
  \/ ~repo /\ ~\E d \in OnTheWay(p) \cup {p} : Name(d) \in Hidden \/ (d # p /\ Name(d) \in Vendor)
  \/ /\ repo /\ ~Meant
     /\ ~\E d \in OnTheWay(p) : Name(d) \in Hidden \cup Vendor \/ GitIgnores(d, TRUE)
     /\ Name(p) \notin Hidden /\ ~GitIgnores(p, FALSE)

FilesBelow == {Tree[i].path : i \in {i \in DOMAIN Tree : ~Tree[i].dir /\ Under(root, Tree[i].path)}}
AllRules == UNION {Range(rules[d]) : d \in Dirs}
\* Where the library differs from git: rules that take a directory back, and
\* rules of the root that name a path without a leading slash.
Peculiar == \E r \in AllRules : \/ r.neg /\ \E d \in Dirs \ {<< >>} : r.names = <<Name(d)>>
                                \/ Len(r.names) > 1 /\ ~r.rooted

(* A grep that is not cut off has looked into exactly the files that git   *)
(* does not ignore, whichever directory it started from, left and entered. *)
MirrorsGit ==
  tool = "grep" /\ status = "done" /\ ~truncated /\ ~Peculiar =>
    seen = {p \in FilesBelow : ShouldSee(p)}

(* Output is what matches, once each and in the order of the walk; a       *)
(* search that was not cut off has all of it.                              *)
OfFile(p) == IF tool = "grep" THEN Hits[p]
             ELSE IF suffix = << >> \/ MatchGlobSuffix(SubSeq(p, Len(root) + 1, Len(p))) THEN 1 ELSE 0
OutputIsWhole ==
  status = "done" /\ tool # "read_file" =>
    /\ Len(out) <= Cap
    /\ \A i, j \in DOMAIN out : i # j => out[i] # out[j]
    /\ \A i \in DOMAIN out : out[i].path \in seen /\ out[i].line <= OfFile(out[i].path)
    /\ ~truncated => \A p \in seen : Cardinality({i \in DOMAIN out : out[i].path = p}) = OfFile(p)

(* Following the trailers of read_file from the start shows every line of  *)
(* a UTF-8 text once, in order, numbered and as it is: the sample that the *)
(* encoding is told from may end anywhere, if there is one line end in it. *)
NoEnd == Len(text) >= Sample /\ "n" \notin Range(Before(text, Sample))
PagesAddUp ==
  status = "done" /\ tool = "read_file" /\ Utf8(text) /\ ~NoEnd =>
    pages = [i \in DOMAIN LinesOf(text) |-> [line |-> i, text |-> LinesOf(text)[i]]]

SearchesEnd == <>(status \in {"done", "refused"})

(* Promises the code breaks.                                               *)
\* "mirror ripgrep" (gitignore.go:23), all rules included.
AlwaysMirrorsGit ==
  tool = "grep" /\ status = "done" /\ ~truncated => seen = {p \in FilesBelow : ShouldSee(p)}
\* "truncated at 200 matches" where there are just 200.
TruncatedMeansMore ==
  truncated => \E p \in FilesBelow : ShouldSee(p) /\ OfFile(p) > Cardinality({i \in DOMAIN out : out[i].path = p})
\* "utf8.Valid on 8 KiB is reliable" (grep.go:99): not where the 8 KiB end
\* in the midst of a character.
GrepReadsText ==
  status = "done" /\ tool = "read_file" /\ Utf8(text) /\ "0" \notin Range(text) => GrepReads(text) = LinesOf(text)
=============================================================================
