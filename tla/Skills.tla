------------------------------- MODULE Skills -------------------------------
(***************************************************************************)
(* Skills and slash commands: where they are found and which of two wins   *)
(* (skill/skill.go, command/command.go), how the model and the user call   *)
(* them (skill/tools.go, command/slashtool.go, control/input.go), and how  *)
(* sessions install new ones into the directories they share.              *)
(***************************************************************************)
EXTENDS Naturals, Sequences, SequencesExt, FiniteSets

CONSTANTS
  Roots,     \* the discovery directories, highest priority first
  Project, Global,  \* those install_skill writes to
  Stems,     \* valid names, in the order of ReadDir
  Builtins,  \* built-in skills by name: "inline" or "subagent"
  Commands,  \* custom commands: [name, dir, text], dir growing with precedence
  Sessions,
  MaxEdits,  \* changes that users make to the directories
  MaxInstalls

VARIABLES
  files,     \* [root, folder, stem, name, runAs, text, readable]
  index,     \* by session: the names of the skills it listed at its start
  wrappers,  \* by session: the subagent tools it registered
  install,   \* by session: the install_skill under way
  claims,    \* history: [stem, root, runAs, by] reported as installed since the last edit
  edits, installs

vars == <<files, index, wrappers, install, claims, edits, installs>>

SkillNames == Range(Stems)
Modes == {"inline", "subagent"}
NoInstall == [step |-> "idle", stem |-> "", root |-> "", runAs |-> "inline"]
RankIn(seq, x) == CHOOSE i \in DOMAIN seq : seq[i] = x

-----------------------------------------------------------------------------
(* Finding                                                                 *)

\* parse: a valid name in the frontmatter is the skill's.
NameOf(f) == IF f.name = "" THEN f.stem ELSE f.name

FolderFirst(f, g) == f.folder
\* The order in which List meets files: roots, then the entries of a root.
Before(f, g) ==
  \/ RankIn(Roots, f.root) < RankIn(Roots, g.root)
  \/ /\ f.root = g.root /\ RankIn(Stems, f.stem) < RankIn(Stems, g.stem)
  \/ /\ f.root = g.root /\ f.stem = g.stem /\ f # g /\ FolderFirst(f, g)

BuiltinSkill(n) ==
  [root |-> "builtin", folder |-> FALSE, stem |-> n, name |-> "", runAs |-> Builtins[n], text |-> n, readable |-> TRUE]
NoSkill == [root |-> "none", folder |-> FALSE, stem |-> "", name |-> "", 
            runAs |-> "inline", text |-> "", readable |-> FALSE]

\* List.
Parsed == {f \in files : f.readable}
Listed ==
  LET own == {f \in Parsed : ~\E g \in Parsed : NameOf(g) = NameOf(f) /\ Before(g, f)}
  IN own \cup {BuiltinSkill(n) : n \in {n \in DOMAIN Builtins : ~\E f \in own : NameOf(f) = n}}

\* Read: by the name of the file; the first one found decides.
Read(n) ==
  LET found == {f \in files : f.stem = n}
      first == CHOOSE f \in found :
                 \A g \in found \ {f} : RankIn(Roots, f.root) < RankIn(Roots, g.root)
                                        \/ (f.root = g.root /\ f.folder)
  IN IF found # {} THEN (IF first.readable THEN first ELSE NoSkill)
     ELSE IF n \in DOMAIN Builtins THEN BuiltinSkill(n) ELSE NoSkill

\* command.Load: a later directory wins.
Command(n) ==
  LET named == {c \in Commands : c.name = n}
  IN CHOOSE c \in named : \A d \in named : c.dir >= d.dir
CommandNames == {c.name : c \in Commands}

-----------------------------------------------------------------------------
(* Calling                                                                 *)

Answer(how, text) == [how |-> how, text |-> text]
\* run_skill.
RunSkill(n, args) ==
  LET sk == Read(n)
  IN IF sk = NoSkill THEN Answer("unknown", "")
     ELSE IF sk.runAs = "inline" THEN Answer("inline", sk.text)
     ELSE IF args THEN Answer("subagent", sk.text) ELSE Answer("error", "")
\* The tool of a built-in subagent skill.
Wrapper(s, n) ==
  LET sk == Read(n)
  IN IF n \notin wrappers[s] THEN Answer("unknown", "")
     ELSE IF sk.runAs # "subagent" THEN Answer("error", "")
     ELSE Answer("subagent", sk.text)
\* A slash line and slash_command: commands, then the skills listed at start.
Slash(s, n) ==
  IF n \in CommandNames THEN "command" ELSE IF n \in index[s] THEN "inline" ELSE "unknown"

-----------------------------------------------------------------------------

\* boot: the index is pinned, and a tool is offered for each built-in
\* subagent that can be read.
Boot(s) ==
  /\ index[s] = {} /\ install[s] = NoInstall
  /\ index' = [index EXCEPT ![s] = {NameOf(f) : f \in Listed}]
  /\ wrappers' = [wrappers EXCEPT ![s] =
       {n \in DOMAIN Builtins : Builtins[n] = "subagent" /\ Read(n) # NoSkill}]
  /\ UNCHANGED <<files, install, claims, edits, installs>>

Flat(stem, root) == {f \in files : f.stem = stem /\ f.root = root /\ ~f.folder}
Folder(stem, root) == {f \in files : f.stem = stem /\ f.root = root /\ f.folder}

\* CreateWithContent, up to MkdirAll.
Check(s) ==
  /\ index[s] # {} /\ install[s].step = "idle"
  /\ installs < MaxInstalls /\ installs' = installs + 1
  /\ \E stem \in SkillNames, root \in {Project, Global}, mode \in Modes :
       /\ Folder(stem, root) = {}
       /\ install' = [install EXCEPT ![s] =
            [step |-> "checked", stem |-> stem, root |-> root, runAs |-> mode]]
  /\ UNCHANGED <<files, index, wrappers, claims, edits>>

Created(s) ==
  [root |-> install[s].root, folder |-> FALSE, stem |-> install[s].stem, name |-> "",
   runAs |-> "inline", text |-> "", readable |-> TRUE]
\* O_EXCL.
Opens(s) == Flat(install[s].stem, install[s].root) = {}
Open(s) ==
  /\ install[s].step = "checked"
  /\ IF Opens(s)
     THEN /\ files' = (files \ Flat(install[s].stem, install[s].root)) \cup {Created(s)}
          /\ install' = [install EXCEPT ![s].step = "created"]
     ELSE install' = [install EXCEPT ![s] = NoInstall] /\ UNCHANGED files
  /\ UNCHANGED <<index, wrappers, claims, edits, installs>>

\* renderSkillFile: the mode is in the file.
Rendered(s) ==
  [Created(s) EXCEPT !.runAs = install[s].runAs, !.text = s]
Write(s) ==
  /\ install[s].step = "created"
  /\ files' = IF Created(s) \in files THEN (files \ {Created(s)}) \cup {Rendered(s)} ELSE files
  /\ claims' = IF Created(s) \in files
               THEN claims \cup {[stem |-> install[s].stem, root |-> install[s].root,
                                  runAs |-> install[s].runAs, by |-> s]}
               ELSE claims
  /\ install' = [install EXCEPT ![s] = NoInstall]
  /\ UNCHANGED <<index, wrappers, edits, installs>>

\* A process that ends leaves what it created.
Exit(s) ==
  /\ index[s] # {}
  /\ index' = [index EXCEPT ![s] = {}] /\ wrappers' = [wrappers EXCEPT ![s] = {}]
  /\ install' = [install EXCEPT ![s] = NoInstall]
  /\ UNCHANGED <<files, claims, edits, installs>>

Edit ==
  /\ edits < MaxEdits /\ edits' = edits + 1 /\ claims' = {}
  /\ \/ \E f \in files : files' = files \ {f}
     \/ \E f \in [root : Range(Roots), folder : BOOLEAN, stem : SkillNames, name : {""} \cup SkillNames,
                  runAs : Modes, text : {"user"}, readable : BOOLEAN] :
          /\ ~\E g \in files : g.root = f.root /\ g.folder = f.folder /\ g.stem = f.stem
          /\ files' = files \cup {f}
  /\ UNCHANGED <<index, wrappers, install, installs>>

Init ==
  /\ files = {} /\ claims = {} /\ edits = 0 /\ installs = 0
  /\ index = [s \in Sessions |-> {}] /\ wrappers = [s \in Sessions |-> {}]
  /\ install = [s \in Sessions |-> NoInstall]
Next == Edit \/ \E s \in Sessions : Boot(s) \/ Check(s) \/ Open(s) \/ Write(s) \/ Exit(s)
Spec == Init /\ [][Next]_vars

-----------------------------------------------------------------------------
(* Sessions that install never change a file of a user or one that another *)
(* session has written, whatever both looked at before.                    *)
InstallsKeepFiles ==
  [][edits' = edits => \A f \in files \ files' : f.text = "" /\ \E s \in Sessions :
       install[s].step = "created" /\ f = Created(s)]_vars

(* What was reported as installed runs as it was asked to, in every        *)
(* session, unless a directory or a root of precedence has the name.       *)
InstalledRuns ==
  \A c \in claims :
    \/ \E f \in files : f.stem = c.stem /\
         (RankIn(Roots, f.root) < RankIn(Roots, c.root) \/ (f.root = c.root /\ f.folder))
    \/ RunSkill(c.stem, TRUE) = Answer(c.runAs, c.by)

(* Where files are named as they say and can be read, the index lists what *)
(* will run: both ways of searching find the same file for every name.     *)
ListedIsRead ==
  (\A f \in files : f.readable /\ NameOf(f) = f.stem) =>
    /\ \A f \in Listed : Read(NameOf(f)) = f
    /\ \A n \in SkillNames : Read(n) # NoSkill => Read(n) \in Listed

(* Promises the code breaks.                                               *)
\* "Callable now via run_skill({name}) or /name" (tools.go:272): the slash
\* line knows the skills of the start, and a higher root may shadow it.
CallableNow == \A c \in claims, s \in Sessions :
  index[s] # {} /\ c.stem \notin CommandNames =>
    Slash(s, c.stem) # "unknown" /\ RunSkill(c.stem, TRUE).text = c.by
\* "Skill identifier as it appears in the pinned Skills index" (tools.go:53).
ListedIsCallable == \A f \in Listed : RunSkill(NameOf(f), TRUE).text = f.text
\* "they error rather than silently inlining" (tools.go:17): an installed
\* subagent is read while it is empty, and slash_command inlines any skill.
NeverInlined == \A s \in Sessions : install[s].step = "created" /\ install[s].runAs = "subagent" =>
  RunSkill(install[s].stem, TRUE).how # "inline"
=============================================================================
