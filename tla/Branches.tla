------------------------------ MODULE Branches ------------------------------
(***************************************************************************)
(* The tree of saved conversations: the sidecar records of agent/branch.go *)
(* beside the session files, the lists made from them (ListBranches,       *)
(* ListSessions), the tree of control/branches.go, and the commands that   *)
(* branch, switch and resume, with a crash or a failed write after any     *)
(* write.  A conversation is the number of its user turns; an id is the    *)
(* sequence of the parts of its time stamp, in lower case, so that ids,    *)
(* short ids and names can be prefixes of each other.                      *)
(***************************************************************************)
EXTENDS Integers, Sequences, SequencesExt, FiniteSetsExt

CONSTANTS
  Stamps,     \* the ids NewSessionPath mints, in order: three parts each
  Legacy,     \* the id of a file older than the sidecars
  Names,      \* names for a branch, <<>> for none
  Refs,       \* what /switch is given
  ListCap,    \* resumeListCap
  ColdAfter,  \* cacheColdAfter
  Scrollback, \* whether said remembers a list, for IndexAsShown only
  MaxTicks,   \* bound: turns and commands
  MaxFaults   \* bound: crashes and failed writes

VARIABLES
  file,    \* of each id: its user turns and its modification time, 0: no file
  meta,    \* of each id: its sidecar record, created 0: none
  path,    \* Controller.sessionPath
  turns,   \* the turns of the conversation in memory
  points,  \* of each id: the bounds of its checkpoints on disk, in turns
  bound,   \* cpBound: those a fork can name
  clock, minted, faults,
  cmd,     \* the command under way and how far it is
  said,    \* the sessions /resume listed last
  picker,  \* the sessions of the open picker
  unaged   \* history: branches forked off a conversation without a record

vars == <<file, meta, path, turns, points, bound, clock, minted, faults, cmd, said, picker, unaged>>

Ids == ToSet(Stamps) \cup {Legacy}
\* The order of names in the directory: what has no time stamp comes last.
Rank(id) == IF id = Legacy THEN Len(Stamps) + 1 ELSE CHOOSE i \in DOMAIN Stamps : Stamps[i] = id
NoMeta == [name |-> <<>>, parent |-> <<>>, created |-> 0, updated |-> 0]
NoFile == [turns |-> 0, mtime |-> 0]
NoCmd == [op |-> "none", at |-> "", ref |-> <<>>, name |-> <<>>, turn |-> 0, loaded |-> 0]
HasMeta(id) == meta[id].created # 0
HasContent == turns > 0

\* LoadBranchMeta, or the record a file without one is listed with.
MetaOf(id) ==
  IF HasMeta(id) THEN meta[id]
  ELSE [NoMeta EXCEPT !.created = file[id].mtime, !.updated = file[id].mtime]

Listed == {id \in Ids : file[id].turns > 0}

\* ListBranches: oldest first.
Branches ==
  LET older(a, b) == \/ MetaOf(a).created < MetaOf(b).created
                     \/ MetaOf(a).created = MetaOf(b).created /\ Rank(a) < Rank(b)
  IN SetToSortSeq(Listed, older)

\* ListSessions: the most recently active first.
Recent ==
  LET newer(a, b) == \/ MetaOf(a).updated > MetaOf(b).updated
                     \/ MetaOf(a).updated = MetaOf(b).updated /\ Rank(a) < Rank(b)
  IN SetToSortSeq(Listed, newer)
RecentSessions == SubSeq(Recent, 1, Min({Len(Recent), ListCap}))

\* shortBranchID: without the year.
Short(id) == IF id = Legacy THEN id ELSE Tail(id)

-----------------------------------------------------------------------------
(* The two algorithms: what a reference means and how the tree is drawn.   *)

PathOf(id) == <<"path">> \o id
Exact(id, ref) == ref \in {id, PathOf(id)}

\* resolveBranch walks the list: an exact id or path ends the walk, whatever
\* has matched before; <<>> for none or several.
Resolve(branches, ref) ==
  LET matching == SelectSeq(branches, LAMBDA b :
        \/ MetaOf(b).name # <<>> /\ MetaOf(b).name = ref
        \/ IsPrefix(ref, b) \/ IsPrefix(ref, Short(b)))
      exact == SelectSeq(branches, LAMBDA b : Exact(b, ref))
  IN IF exact # <<>> THEN Head(exact)
     ELSE IF Len(matching) = 1 THEN matching[1] ELSE <<>>

\* FormatBranchTree: the lines, each a branch and its depth.  What is still
\* to be walked comes depth first, and no branch is drawn twice.
IsRoot(branches, b) == MetaOf(b).parent = <<>> \/ ~Contains(branches, MetaOf(b).parent)
Tree(branches) ==
  LET Line == [id : Ids, depth : Nat]
      At(ids, n) == [i \in DOMAIN ids |-> [id |-> ids[i], depth |-> n]]
      Children(b) == SelectSeq(branches, LAMBDA c : MetaOf(c).parent = b)
      Walk[todo \in Seq(Line), lines \in Seq(Line)] ==
        IF todo = <<>> THEN lines
        ELSE IF \E i \in DOMAIN lines : lines[i].id = todo[1].id THEN Walk[Tail(todo), lines]
        ELSE Walk[At(Children(todo[1].id), todo[1].depth + 1) \o Tail(todo), Append(lines, todo[1])]
  IN Walk[At(SelectSeq(branches, LAMBDA b : IsRoot(branches, b)) \o branches, 0), <<>>]

-----------------------------------------------------------------------------

Files(old) == [id \in Ids |-> IF old /\ id = Legacy THEN [turns |-> 1, mtime |-> 1] ELSE NoFile]

Init ==
  /\ \E old \in BOOLEAN : file = Files(old)
  /\ meta = [id \in Ids |-> NoMeta]
  /\ path = Stamps[1] /\ minted = 1
  /\ turns = 0 /\ bound = {} /\ points = [id \in Ids |-> {}]
  /\ clock = 1 /\ faults = 0
  /\ cmd = NoCmd /\ said = <<>> /\ picker = <<>> /\ unaged = {}

Go(at) == cmd' = [cmd EXCEPT !.at = at]
Done == cmd' = NoCmd
Fault == faults < MaxFaults /\ faults' = faults + 1
CanMint == minted < Len(Stamps)
NewId == Stamps[minted + 1]

\* A command takes one tick.  A turn saves first and marks the activity
\* after; everything else begins with a snapshot that marks nothing, which
\* ensures the record first and saves after.  Without content there is none.
Begin(op) ==
  /\ cmd = NoCmd /\ clock < MaxTicks
  /\ clock' = clock + 1
  /\ picker' = <<>>
  /\ cmd' = [op EXCEPT !.at = IF op.op = "turn" THEN "save" ELSE IF HasContent THEN "ensure" ELSE "act"]
  /\ UNCHANGED <<file, meta, path, minted, said, unaged>>
Command(op) == Begin(op) /\ UNCHANGED <<turns, points, bound, faults>>

\* beginCheckpoint: the turn's bound is live at once; on disk it is when its
\* write succeeds, this one or that of the next turn, which writes it again.
Written == {turns} \cup ({turns - 1} \cap bound)
Turn ==
  /\ Begin([NoCmd EXCEPT !.op = "turn"])
  /\ turns' = turns + 1
  /\ bound' = bound \cup {turns}
  /\ \E w \in SUBSET Written :
       /\ points' = [points EXCEPT ![path] = @ \cup w]
       /\ IF w = Written THEN UNCHANGED faults ELSE Fault

\* "/branch", "/branch n name" (ForkNamed, of a turn with a live bound),
\* "/new", "/tree" and "/switch".
Branch ==
  /\ HasContent /\ CanMint
  /\ \E n \in Names : Command([NoCmd EXCEPT !.op = "branch", !.name = n])
Fork ==
  /\ CanMint
  /\ \E n \in Names, t \in bound :
       Command([NoCmd EXCEPT !.op = "fork", !.name = n, !.turn = t])
New == CanMint /\ Command([NoCmd EXCEPT !.op = "new"])
ShowTree == Command([NoCmd EXCEPT !.op = "tree"])
SwitchTo == \E r \in Refs : Command([NoCmd EXCEPT !.op = "switch", !.ref = r])

\* The conversation resumed is read before the one left is saved.
Resume(list, n) ==
  /\ list[n] # path
  /\ Command([NoCmd EXCEPT !.op = "resume", !.ref = list[n], !.turn = n, !.loaded = file[list[n]].turns])

\* "/resume": the list goes to the scrollback and the picker opens.
ShowSessions ==
  /\ cmd = NoCmd
  /\ RecentSessions # <<>>
  /\ said' = (IF Scrollback THEN RecentSessions ELSE said) /\ picker' = RecentSessions
  /\ UNCHANGED <<file, meta, path, turns, points, bound, clock, minted, faults, cmd, unaged>>
\* Enter in the picker, and "/resume n".
ApplyResumePick == \E n \in DOMAIN picker : Resume(picker, n)
ResumeIndex == picker = <<>> /\ \E n \in DOMAIN RecentSessions : Resume(RecentSessions, n)

-----------------------------------------------------------------------------
(* The steps of a command.                                                 *)

\* EnsureBranchMeta: the record of a file without one is its age.
Ensured ==
  IF HasMeta(path) THEN meta[path]
  ELSE LET when == IF file[path].mtime = 0 THEN clock ELSE file[path].mtime
       IN [NoMeta EXCEPT !.created = when, !.updated = when]
EnsureBranchMeta ==
  /\ cmd.at = "ensure"
  /\ meta' = [meta EXCEPT ![path] = Ensured]
  /\ Go("save")
  /\ UNCHANGED <<file, path, turns, points, bound, clock, minted, faults, said, picker, unaged>>

\* Session.Save.
Saved == file' = [file EXCEPT ![path] = [turns |-> turns, mtime |-> clock]]
Save ==
  /\ cmd.at = "save"
  /\ Saved
  /\ Go(IF cmd.op = "turn" THEN "touch" ELSE "act")
  /\ UNCHANGED <<meta, path, turns, points, bound, clock, minted, faults, said, picker, unaged>>

\* TouchBranchMeta.
Touch ==
  /\ cmd.at = "touch"
  /\ meta' = [meta EXCEPT ![path] = [Ensured EXCEPT !.updated = clock]]
  /\ Done
  /\ UNCHANGED <<file, path, turns, points, bound, clock, minted, faults, said, picker, unaged>>

\* The copy is saved before its record, and becomes current after both.
\* A bound past the end (a crash lost the turns before it) is cut.
Copied == IF cmd.op = "branch" THEN turns ELSE Min({cmd.turn, turns})
CopySave ==
  /\ cmd.at = "act" /\ cmd.op \in {"branch", "fork"}
  /\ file' = [file EXCEPT ![NewId] = [turns |-> Copied, mtime |-> clock]]
  /\ minted' = minted + 1
  /\ Go("meta")
  /\ UNCHANGED <<meta, path, turns, points, bound, clock, faults, said, picker, unaged>>
CopyMeta ==
  /\ cmd.at = "meta"
  /\ LET new == Stamps[minted]
     IN /\ meta' = [meta EXCEPT ![new] =
              [name |-> cmd.name, parent |-> path, created |-> clock, updated |-> clock]]
        /\ path' = new
  /\ unaged' = IF HasMeta(path) THEN unaged ELSE unaged \cup {Stamps[minted]}
  /\ turns' = Copied /\ bound' = points[Stamps[minted]]
  /\ Done
  /\ UNCHANGED <<file, points, clock, minted, faults, said, picker>>

NewSession ==
  /\ cmd.at = "act" /\ cmd.op = "new"
  /\ path' = NewId /\ minted' = minted + 1
  /\ turns' = 0 /\ bound' = points[NewId]
  /\ Done
  /\ UNCHANGED <<file, meta, points, clock, faults, said, picker, unaged>>

TreeShown ==
  /\ cmd.at = "act" /\ cmd.op = "tree"
  /\ Done
  /\ UNCHANGED <<file, meta, path, turns, points, bound, clock, minted, faults, said, picker, unaged>>

\* rebindCheckpoints: the bounds are those on disk, here and in Resumed.
SwitchBranch ==
  /\ cmd.at = "act" /\ cmd.op = "switch"
  /\ Done
  /\ LET b == Resolve(Branches, cmd.ref)
     IN IF b = <<>> THEN UNCHANGED <<path, turns, bound>>
        ELSE path' = b /\ turns' = file[b].turns /\ bound' = points[b]
  /\ UNCHANGED <<file, meta, points, clock, minted, faults, said, picker, unaged>>

\* maybeColdResumePrune saves again: idle time is that of the record, and a
\* file without one is not pruned.
Cold(id) == HasMeta(id) /\ clock - meta[id].updated >= ColdAfter
Resumed ==
  /\ cmd.at = "act" /\ cmd.op = "resume"
  /\ path' = cmd.ref /\ turns' = cmd.loaded /\ bound' = points[cmd.ref]
  /\ IF Cold(cmd.ref) THEN Go("prune") ELSE Done
  /\ UNCHANGED <<file, meta, points, clock, minted, faults, said, picker, unaged>>
Prune ==
  /\ cmd.at = "prune"
  /\ Saved
  /\ Done
  /\ UNCHANGED <<meta, path, turns, points, bound, clock, minted, faults, said, picker, unaged>>

\* A write fails: the snapshot before a branch, a switch, the tree or /new is
\* required, that before a fork or a resume is not.
WriteFails ==
  /\ Fault
  /\ cmd.at \in {"ensure", "save", "touch", "meta", "prune"} \/ (cmd.at = "act" /\ cmd.op \in {"branch", "fork"})
  /\ IF cmd.at \in {"ensure", "save"} /\ cmd.op \in {"fork", "resume"} THEN Go("act") ELSE Done
  /\ UNCHANGED <<file, meta, path, turns, points, bound, clock, minted, said, picker, unaged>>

\* The process is killed and started again, in a new session.
Crash ==
  /\ Fault /\ CanMint
  /\ path' = NewId /\ minted' = minted + 1
  /\ turns' = 0 /\ bound' = points[NewId]
  /\ Done /\ said' = <<>> /\ picker' = <<>>
  /\ UNCHANGED <<file, meta, points, clock, unaged>>

Next ==
  \/ Turn \/ Branch \/ Fork \/ New \/ ShowTree \/ SwitchTo
  \/ ShowSessions \/ ApplyResumePick \/ ResumeIndex
  \/ EnsureBranchMeta \/ Save \/ Touch \/ CopySave \/ CopyMeta
  \/ NewSession \/ TreeShown \/ SwitchBranch \/ Resumed \/ Prune
  \/ WriteFails \/ Crash

Spec == Init /\ [][Next]_vars

-----------------------------------------------------------------------------
(* Properties.                                                             *)

\* What a reference can mean: the branch whose id or path it is, or else every
\* one whose name it is or whose id or short id begins with it.
Meant(ref) ==
  IF \E b \in Listed : ref = b \/ ref = PathOf(b) THEN {b \in Listed : ref = b \/ ref = PathOf(b)}
  ELSE {b \in Listed : ref \in {meta[b].name} \ {<<>>} \/ IsPrefix(ref, b) \/ IsPrefix(ref, Short(b))}

\* /switch opens the one branch its reference can mean, and leaves the
\* conversation alone when there is none or more than one.
RefMeansOne ==
  [][cmd.at = "act" /\ cmd.op = "switch" /\ cmd'.at = "" /\ faults' = faults
       => IF Cardinality(Meant(cmd.ref)) = 1 THEN path' \in Meant(cmd.ref)
          ELSE <<path, turns>>' = <<path, turns>>]_vars

\* The tree has one line for every branch, under its parent where that is
\* listed, whatever crashes and failed writes have left of the records.
TreeIsWhole ==
  LET lines == Tree(Branches)
      above(i) == {j \in 1 .. i - 1 : lines[j].depth < lines[i].depth}
  IN /\ Len(lines) = Cardinality(Listed) /\ {lines[i].id : i \in DOMAIN lines} = Listed
     /\ \A i \in DOMAIN lines :
          IF meta[lines[i].id].parent \in Listed
          THEN above(i) # {} /\ lines[Max(above(i))].id = meta[lines[i].id].parent
          ELSE lines[i].depth = 0

\* A branch is never older than the one it came from, so that the tree's
\* order is that of the branching, whatever crashes and failed writes leave
\* behind: but for a fork whose snapshot failed before the conversation it
\* leaves had a record, which gets its age by a later turn.
ParentsComeFirst ==
  \A b \in Listed \ unaged :
    meta[b].parent \in Listed => MetaOf(meta[b].parent).created <= meta[b].created

\* Where a branch came from, its name and its age, once recorded, stay.
OriginStays ==
  [][\A id \in Ids : HasMeta(id) =>
       meta'[id] = [meta[id] EXCEPT !.updated = meta'[id].updated]]_meta

\* Only a turn moves a session in the list of recent ones: no branching,
\* switching, resuming or leaving reorders it.
Before(a, b) == MetaOf(a).updated > MetaOf(b).updated
OnlyTurnsReorder ==
  [][\A a, b \in Listed \ (IF cmd.op = "turn" THEN {path} ELSE {}) : Before(a, b)' = Before(a, b)]_vars

\* What /branch leaves is on disk in full.
BranchPointSurvives ==
  [][cmd.op = "branch" /\ path' # path /\ faults' = faults => file[path].turns = turns]_vars

-----------------------------------------------------------------------------
(* What comments say and the code does not do.                             *)

\* controller.go:998 "Persist the current conversation first so the branch
\* point survives": a failed write is only logged, and the messages after
\* the fork are gone.
ForkPointSurvives ==
  [][cmd.op = "fork" /\ path' # path /\ faults' = faults => file[path].turns = turns]_vars

\* resume.go:14-15 "the 1-based indices the list shows match what /resume <n>
\* and its completion resolve": the list is made again for the command.
IndexAsShown ==
  [][cmd = NoCmd /\ cmd'.op = "resume" /\ picker = <<>> /\ cmd'.turn \in DOMAIN said
       => cmd'.ref = said[cmd'.turn]]_vars

\* save.go:83 "when it was created": the record a first turn makes for an
\* older file takes its age from the save just before.
AgeKept == [][\A id \in Listed : MetaOf(id)'.created = MetaOf(id).created]_vars
=============================================================================
