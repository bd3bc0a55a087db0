------------------------------ MODULE Composer ------------------------------
(***************************************************************************)
(* The line a user composes in the chat terminal: the completion menu over *)
(* it (cli/complete.go, control/slash.go), pasted blocks that stand as     *)
(* labels (cli/chat_paste.go), the history of submitted lines              *)
(* (cli/chat_input_history.go), and what a submitted line refers to        *)
(* (control/refs.go).  Text is a sequence of characters; the label of a    *)
(* pasted block counts as one.  The input box itself is Textarea.          *)
(*   Beside the line, and without state in common with it, stand the images*)
(* pasted or dropped into it, saved under .roach-code/attachments          *)
(* (control/attachments.go).  Several processes share the directory, and   *)
(* the file that is saved may be replaced or rewritten while it is read.   *)
(* The bytes of a file are a sequence of chunks; its size is their number. *)
(***************************************************************************)
EXTENDS Naturals, Sequences, SequencesExt, FiniteSets

CONSTANTS
  Chars,       \* what can be typed
  Labels,      \* the labels of pasted blocks, in the order they are given out
  Pasted,      \* the text of a block by its label
  ImageLabels, \* the labels that stand for an image attachment
  Commands,    \* slashItems: [label, insert]
  Args,        \* by the words before: the [label, insert] items of the next one
  Filtered,    \* commands whose arguments SlashArgItems offers, without no-ops
  Entries,     \* by directory, "" or "a/" as text: its entries, directories first
  Resources,   \* server:uri of the MCP resources of connected servers
  Images,      \* paths of image attachments
  MaxLen, MaxKeys,
  Procs,       \* the processes that save images
  MaxSize,     \* maxImageAttachmentBytes
  MaxClock,    \* bound: readings of the clock that differ
  MaxSaves,    \* bound: saves per process
  MaxChanges   \* bound: changes to the source

VARIABLES
  value, cursor,
  menu,       \* completion
  submitted, recall, draft,  \* history, 0 when not recalling
  blocks,     \* pastedBlocks by label
  pasted,     \* how many labels are given out
  turn,       \* the turn awaiting its first packet: [restore, labels]
  sent,       \* the line last sent, its blocks expanded
  stale,      \* history: the menu has outlived the line it was computed for
  crashed,
  keys,
  spent,      \* history: labels of submitted lines
  \* The images:
  clock,
  seq,         \* attachmentPathSeq, by process
  dir,         \* the attachments: [name, bytes]
  disk, path,  \* the source: bytes by inode, and the inode its path names
  job,         \* by process
  saves,
  changes,
  kept         \* history: [name, raw, whole, rewrites] of the paths returned

composer == <<value, cursor, menu, stale>>
recalled == <<submitted, recall, draft>>
vars == <<composer, recalled, blocks, pasted, turn, sent, crashed, keys, spent>>
imageVars == <<clock, seq, dir, disk, path, job, saves, changes, kept>>

Blank == " "
Before(s, i) == SubSeq(s, 1, i)
After(s, i) == SubSeq(s, i + 1, Len(s))
Trimmed(s) ==
  LET words == {i \in DOMAIN s : s[i] # Blank}
  IN IF words = {} THEN << >>
     ELSE SubSeq(s, CHOOSE i \in words : \A j \in words : i <= j,
                    CHOOSE i \in words : \A j \in words : i >= j)
LastWhere(s, Test(_)) ==
  LET at == {i \in DOMAIN s : Test(s[i])}
  IN IF at = {} THEN 0 ELSE CHOOSE i \in at : \A j \in at : i >= j
IsBlank(c) == c = Blank
TokenStart(s) == LastWhere(s, IsBlank)

Nth(S, n) == CHOOSE i \in S : Cardinality({j \in S : j <= i}) = n
Chosen(s, S) == [n \in 1 .. Cardinality(S) |-> s[Nth(S, n)]]
Fields(s) ==
  LET starts == {i \in DOMAIN s : s[i] # Blank /\ (i = 1 \/ s[i - 1] = Blank)}
      Word(i) == SubSeq(s, i, CHOOSE e \in i .. Len(s) :
        (\A k \in i .. e : s[k] # Blank) /\ (e = Len(s) \/ s[e + 1] = Blank))
  IN [n \in 1 .. Cardinality(starts) |-> Word(Nth(starts, n))]

-----------------------------------------------------------------------------
(* The menu: what fits the line                                            *)

Closed == [kind |-> "none", items |-> << >>, sel |-> 0, from |-> 0, to |-> 0]
Active == menu.kind # "none"
Starting(items, prefix) == SelectSeq(items, LAMBDA it : IsPrefix(prefix, it.label))

\* The offset of an @ that starts the last word, or none.
AtToken(val) ==
  LET from == TokenStart(val)
      ats == {i \in from + 1 .. Len(val) : val[i] = "@"}
  IN [ok |-> ats # {} /\ (\A i \in ats : i = from + 1), from |-> from]

FileItems(token) ==
  LET cut == LastWhere(token, LAMBDA c : c = "/")
      folder == Before(token, cut)
      Item(e) == [label |-> e, insert |-> <<"@">> \o folder \o e]
      entries == IF folder \in DOMAIN Entries THEN Entries[folder] ELSE << >>
      Resource(r) == [label |-> <<"@">> \o r, insert |-> <<"@">> \o r]
      named == SelectSeq(Resources, LAMBDA r : IsPrefix(token, r))
  IN [i \in DOMAIN SelectSeq(entries, LAMBDA e : IsPrefix(After(token, cut), e)) |->
        Item(SelectSeq(entries, LAMBDA e : IsPrefix(After(token, cut), e))[i])]
     \o IF cut = 0 THEN [i \in DOMAIN named |-> Resource(named[i])] ELSE << >>

SlashToken(val, at) == TokenStart(Before(val, at))
SlashEnd(val, at) == at

FilterSlash(items, val, from) ==
  SelectSeq(items, LAMBDA it : Before(val, from) \o it.insert # val)

ArgItems(val) ==
  LET from == TokenStart(val)
      prior == Fields(Before(val, from))
      cmd == IF prior = << >> THEN << >> ELSE Head(prior)
      known == IF prior \in DOMAIN Args THEN Args[prior] ELSE << >>
      named == Starting(known, After(val, from))
  IN IF cmd \in Filtered THEN FilterSlash(named, val, from) ELSE named

Shown(kind, items, from, to) ==
  [kind |-> kind, items |-> items, from |-> from, to |-> to,
   sel |-> IF menu.kind = kind /\ menu.sel <= Len(items) THEN menu.sel ELSE 1]

\* updateCompletion.
MenuFor(val, at) ==
  LET ref == AtToken(val)
      files == IF ref.ok THEN FileItems(After(val, ref.from + 1)) ELSE << >>
      from == SlashToken(val, at)
      naming == /\ from < Len(val) /\ val[from + 1] = "/"
                /\ Trimmed(Before(val, from)) = << >>
      named == IF naming THEN Starting(Commands, SubSeq(val, from + 1, at)) ELSE << >>
      args == IF val # << >> /\ val[1] = "/" THEN ArgItems(val) ELSE << >>
  IN CASE files # << >> -> Shown("at", files, ref.from, Len(val))
       [] files = << >> /\ named # << >> -> Shown("slash", named, from, SlashEnd(val, at))
       [] files = << >> /\ named = << >> /\ args # << >> ->
            Shown("arg", args, TokenStart(val), Len(val))
       [] OTHER -> Closed

\* An edit, and the menu after it.
Becomes(val, at) ==
  value' = val /\ cursor' = at /\ menu' = MenuFor(val, at) /\ stale' = FALSE

-----------------------------------------------------------------------------
(* Keys that edit                                                          *)

Pressed == keys < MaxKeys /\ ~crashed /\ keys' = keys + 1
NotRecalling == recall' = 0 /\ draft' = << >> /\ UNCHANGED submitted

Type(c) ==
  /\ Pressed /\ Len(value) < MaxLen
  /\ Becomes(Before(value, cursor) \o <<c>> \o After(value, cursor), cursor + 1)
  /\ NotRecalling
  /\ UNCHANGED <<blocks, pasted, turn, sent, crashed, spent>>

Backspace ==
  /\ Pressed /\ cursor > 0
  /\ Becomes(Before(value, cursor - 1) \o After(value, cursor), cursor - 1)
  /\ NotRecalling
  /\ UNCHANGED <<blocks, pasted, turn, sent, crashed, spent>>

Move ==
  /\ Pressed
  /\ \E at \in {cursor - 1, cursor + 1} \cap (0 .. Len(value)) : Becomes(value, at)
  /\ NotRecalling
  /\ UNCHANGED <<blocks, pasted, turn, sent, crashed, spent>>

\* insertFoldedPaste, insertImageRef.
Paste ==
  /\ Pressed /\ pasted < Len(Labels) /\ Len(value) + 2 <= MaxLen
  /\ pasted' = pasted + 1
  /\ LET l == Labels[pasted + 1]
     IN /\ blocks' = blocks \cup {l}
        /\ Becomes(Before(value, cursor) \o <<l, Blank>> \o After(value, cursor), cursor + 2)
  /\ UNCHANGED <<recalled, turn, sent, crashed, spent>>

Reset == value' = << >> /\ cursor' = 0

Escape ==
  /\ Pressed
  /\ \/ /\ Active /\ menu' = Closed /\ stale' = FALSE
        /\ UNCHANGED <<value, cursor, blocks, recalled>>
     \/ /\ ~Active /\ turn.labels = {}
        /\ Reset /\ blocks' = {} /\ NotRecalling /\ UNCHANGED <<menu, stale>>
  /\ UNCHANGED <<pasted, turn, sent, crashed, spent>>

\* The menu is neither closed nor computed anew.
CtrlC ==
  /\ Pressed /\ turn.labels = {} /\ Trimmed(value) # << >>
  /\ Reset /\ blocks' = {} /\ stale' = Active
  /\ NotRecalling
  /\ UNCHANGED <<menu, pasted, turn, sent, crashed, spent>>

-----------------------------------------------------------------------------
(* Keys of the menu                                                        *)

MoveCompletion ==
  /\ Pressed /\ Active
  /\ \E d \in {1, Len(menu.items) - 1} :
       menu' = [menu EXCEPT !.sel = ((menu.sel - 1 + d) % Len(menu.items)) + 1]
  /\ UNCHANGED <<value, cursor, stale, recalled, blocks, pasted, turn, sent, crashed, spent>>

Joined(ins, suffix) ==
  IF Last(ins) = Blank /\ suffix # << >> /\ suffix[1] = Blank THEN Tail(suffix) ELSE suffix

Cut(n) == IF n > Len(value) THEN Len(value) ELSE n
Lingers(m, val) ==
  /\ Len(m.items) = 1
  /\ SubSeq(val, m.from + 1, m.to) = m.items[1].insert

\* acceptCompletion.
Accepted ==
  LET ins == menu.items[menu.sel].insert
      from == Cut(menu.from)
      to == IF Cut(menu.to) < from THEN from ELSE Cut(menu.to)
  IN [value |-> Before(value, from) \o ins \o Joined(ins, After(value, to)),
      cursor |-> from + Len(ins), descends |-> Last(ins) \in {Blank, "/"}]
AcceptCompletion ==
  \E a \in {Accepted} : \E next \in {MenuFor(a.value, a.cursor)} :
    /\ value' = a.value /\ cursor' = a.cursor /\ stale' = FALSE
    /\ menu' = IF ~a.descends /\ Lingers(next, a.value) THEN Closed ELSE next

Complete ==
  /\ Pressed /\ Active
  /\ AcceptCompletion
  /\ UNCHANGED <<recalled, blocks, pasted, turn, sent, crashed, spent>>

-----------------------------------------------------------------------------
(* History                                                                 *)

Remember(line) ==
  /\ submitted' = IF submitted # << >> /\ Last(submitted) = line THEN submitted
                  ELSE Append(submitted, line)
  /\ recall' = 0 /\ draft' = << >>

\* recallSubmittedInput(-1): recall counts from the oldest line.
Up ==
  /\ Pressed /\ ~Active /\ turn.labels = {} /\ submitted # << >>
  /\ IF recall = 0 THEN draft' = value /\ recall' = Len(submitted)
     ELSE recall' = (IF recall > 1 THEN recall - 1 ELSE 1) /\ UNCHANGED draft
  /\ value' = submitted[recall'] /\ cursor' = Len(value')
  /\ UNCHANGED <<menu, stale, submitted, blocks, pasted, turn, sent, crashed, spent>>

Down ==
  /\ Pressed /\ ~Active /\ turn.labels = {} /\ recall > 0
  /\ IF recall = Len(submitted) THEN recall' = 0 /\ value' = draft
     ELSE recall' = recall + 1 /\ value' = submitted[recall']
  /\ cursor' = Len(value')
  /\ UNCHANGED <<menu, stale, draft, submitted, blocks, pasted, turn, sent, crashed, spent>>

-----------------------------------------------------------------------------
(* Submitting                                                              *)

LabelsIn(s) == Range(s) \cap Range(Labels)

\* renderFoldedPasteBlock, or the bare reference of an image.
Rendered(l) == IF l \in ImageLabels THEN Pasted[l] ELSE <<l, Blank>> \o Pasted[l] \o <<Blank>>
ExpandPastedBlocks(line) ==
  FlattenSeq([i \in DOMAIN line |->
    IF line[i] \in blocks THEN Rendered(line[i]) ELSE <<line[i]>>])

Punctuation == {"."}
WithoutPunctuation(t) == Before(t, LastWhere(t, LAMBDA c : c \notin Punctuation))
Deduped(toks) ==
  Chosen(toks, {i \in DOMAIN toks : toks[i] # << >> /\ \A j \in 1 .. i - 1 : toks[j] # toks[i]})

\* parseRefTokens: from the first @ of a word on, wherever it stands.
RefTokens(line) ==
  LET FromAt(w) == LET ats == {i \in DOMAIN w : w[i] = "@" /\ i < Len(w)}
                   IN IF ats = {} THEN << >>
                      ELSE After(w, CHOOSE i \in ats : \A j \in ats : i <= j)
      words == Fields(line)
  IN Deduped([i \in DOMAIN words |-> WithoutPunctuation(FromAt(words[i]))])

Directories == DOMAIN Entries \ {<< >>}
Paths == UNION {{folder \o Entries[folder][i] : i \in DOMAIN Entries[folder]} : folder \in DOMAIN Entries}
         \cup {Front(folder) : folder \in Directories}
Classify(t) == CASE t \in Range(Resources) -> "resource"
                 [] t \notin Range(Resources) /\ t \in Images -> "image"
                 [] t \notin Range(Resources) \cup Images /\ t \in Paths -> "file"
                 [] OTHER -> "none"
DetectRefs(line) == SelectSeq(RefTokens(line), LAMBDA t : Classify(t) # "none")

NoTurn == [restore |-> << >>, labels |-> {}]
Idle == turn = NoTurn

\* A slash command is run, and its blocks are dropped; other lines are sent.
Submit ==
  \E line \in {Trimmed(value)} :
     IF line = << >> \/ ~Idle THEN UNCHANGED <<value, cursor, recalled, blocks, turn, sent, spent>>
     ELSE /\ Remember(line) /\ Reset
          /\ spent' = spent \cup LabelsIn(line)
          /\ IF line[1] = "/"
             THEN blocks' = {} /\ UNCHANGED <<turn, sent>>
             ELSE /\ sent' = ExpandPastedBlocks(line)
                  /\ turn' = [restore |-> line, labels |-> {"turn"} \cup (LabelsIn(line) \cap blocks)]
                  /\ UNCHANGED blocks

\* One item that is said already closes the menu and lets Enter through;
\* slicing the line behind its end does not survive.
Enter ==
  /\ ~crashed
  /\ IF Active /\ Len(menu.items) = 1 /\ menu.from > Len(value)
     THEN crashed' = TRUE /\ UNCHANGED <<composer, recalled, blocks, turn, sent, spent>>
     ELSE /\ UNCHANGED crashed
          /\ IF Active /\ ~(Len(menu.items) = 1 /\ After(value, menu.from) = menu.items[1].insert)
             THEN AcceptCompletion /\ UNCHANGED <<recalled, blocks, turn, sent, spent>>
             ELSE Submit /\ menu' = Closed /\ stale' = FALSE
  /\ UNCHANGED <<pasted, keys>>

Kept(t) == blocks \ t.labels

\* From its first packet on a turn is not taken back; at its end the blocks
\* it was sent with are dropped (clearSubmittedPastes).
Answered ==
  /\ ~Idle
  /\ blocks' = Kept(turn) /\ turn' = NoTurn
  /\ UNCHANGED <<composer, recalled, pasted, sent, crashed, keys, spent>>

\* unsendPending, by Esc or Ctrl+C: Ctrl+C leaves a menu that is open.
Unsend ==
  /\ Pressed /\ ~Idle
  /\ value' = turn.restore /\ cursor' = Len(value')
  /\ turn' = NoTurn
  /\ UNCHANGED menu /\ stale' = Active
  /\ NotRecalling
  /\ UNCHANGED <<blocks, pasted, sent, crashed, spent>>

Init ==
  /\ value = << >> /\ cursor = 0 /\ menu = Closed /\ stale = FALSE
  /\ submitted = << >> /\ recall = 0 /\ draft = << >>
  /\ blocks = {} /\ pasted = 0
  /\ turn = NoTurn /\ sent = << >> /\ crashed = FALSE /\ keys = 0 /\ spent = {}

Next ==
  \/ \E c \in Chars : Type(c)
  \/ Backspace \/ Move \/ Paste \/ Escape \/ CtrlC
  \/ MoveCompletion \/ Complete \/ Up \/ Down
  \/ Enter \/ Answered \/ Unsend

Spec == Init /\ [][Next]_vars /\ WF_vars(Enter) /\ WF_vars(Answered)

-----------------------------------------------------------------------------
(* Completion may only add to what is typed: accepting an item (after an   *)
(* edit of any kind, at any place of the line) inserts one run of          *)
(* characters and leaves every character before and behind it.             *)
OnlyInserts(old, new) ==
  \E i \in 0 .. Len(old) :
    /\ Len(new) >= Len(old)
    /\ new = Before(old, i) \o SubSeq(new, i + 1, i + Len(new) - Len(old)) \o After(old, i)
AcceptKeepsText == [][Complete /\ ~stale => OnlyInserts(value, value')]_vars

(* What the menu of files and resources offers is what the line will be    *)
(* taken to refer to once it is sent, but for names that end in            *)
(* punctuation.                                                            *)
OfferedResolves ==
  menu.kind = "at" /\ ~stale =>
    \A i \in DOMAIN menu.items :
      LET ins == menu.items[i].insert
      IN Last(ins) \in Punctuation
         \/ Contains(DetectRefs(Before(value, menu.from) \o ins), Tail(ins))

(* A pasted block reaches the model the first time its label is sent,      *)
(* whatever was pasted, recalled, cleared, sent or taken back before.      *)
PastesArrive ==
  [][sent' # sent =>
       \A l \in LabelsIn(Trimmed(value)) \ spent :
         \E i \in 0 .. Len(sent') : IsPrefix(Pasted[l], After(sent', i))]_vars

(* Enter in the end sends the line: a menu closes once there is nothing to *)
(* add.  Commands and files, and the arguments that are not filtered, may  *)
(* keep it from being sent: when a longer one starts with what is typed.   *)
Recaptured == /\ Active /\ Len(menu.items) > 1 /\ menu.to <= Len(value)
              /\ menu.kind = "arg" => Fields(value)[1] \notin Filtered
              /\ menu.items[menu.sel].insert = SubSeq(value, menu.from + 1, menu.to)
EnterSends == []<>(Trimmed(value) = << >> \/ Recaptured \/ crashed)

(* Promises the code breaks.                                               *)
\* "replaceFrom/replaceTo are byte offsets delimiting the token to replace"
\* (complete.go:41): Ctrl+C empties the line and leaves the menu, and Enter
\* then slices behind the end.
NeverCrashes == ~crashed
\* filterSlash's "Enter keeps accepting the no-op instead of sending"
\* (slash.go:252) is prevented there and for one item only: @a keeps being
\* accepted while there is a file ab.
AlwaysSends == []<>(Trimmed(value) = << >> \/ crashed)
\* A recalled line has its labels and no longer their blocks.
RecalledPastesArrive ==
  [][sent' # sent => \A l \in LabelsIn(Trimmed(value)) :
       \E i \in 0 .. Len(sent') : IsPrefix(Pasted[l], After(sent', i))]_vars

-----------------------------------------------------------------------------
(* Saving an image.                                                        *)

NoJob == [step |-> "idle", inode |-> 0, size |-> 0, raw |-> << >>, name |-> << >>,
         whole |-> << >>, rewrites |-> 0]
At(p, s) == job[p].step = s
Goes(p, s) == job' = [job EXCEPT ![p].step = s]
Ends(p) == job' = [job EXCEPT ![p] = NoJob]
Sound(n) == n > 0 /\ n <= MaxSize
Named(n) == {f \in dir : f.name = n}
source == <<disk, path, changes>>

-----------------------------------------------------------------------------
(* SaveImageFile                                                           *)

Lstat(p) ==
  /\ At(p, "idle") /\ saves[p] < MaxSaves
  /\ saves' = [saves EXCEPT ![p] = @ + 1]
  /\ IF Sound(Len(disk[path]))
     THEN job' = [job EXCEPT ![p] = [NoJob EXCEPT !.step = "looked", !.inode = path]]
     ELSE UNCHANGED job
  /\ UNCHANGED <<clock, seq, dir, source, kept>>

SameFile(p) == path = job[p].inode
Open(p) ==
  /\ At(p, "looked")
  /\ IF SameFile(p)
     THEN job' = [job EXCEPT ![p].step = "open", ![p].inode = path,
                             ![p].size = Len(disk[path]), ![p].whole = disk[path]]
     ELSE Ends(p)
  /\ UNCHANGED <<clock, seq, dir, source, saves, kept>>

\* ReadAll of a limited reader, a chunk at a time.
AtEnd(p) == Len(job[p].raw) >= Len(disk[job[p].inode]) \/ Len(job[p].raw) = MaxSize + 1
Read(p) ==
  /\ At(p, "open")
  /\ IF AtEnd(p) THEN Goes(p, "read")
     ELSE job' = [job EXCEPT ![p].raw = Append(@, disk[job[p].inode][Len(@) + 1])]
  /\ UNCHANGED <<clock, seq, dir, source, saves, kept>>

Unchanged(p) == Sound(Len(job[p].raw)) /\ Len(disk[job[p].inode]) = job[p].size
Stat(p) ==
  /\ At(p, "read")
  /\ IF Unchanged(p) THEN Goes(p, "ready") ELSE Ends(p)
  /\ UNCHANGED <<clock, seq, dir, source, saves, kept>>

-----------------------------------------------------------------------------
(* createAttachmentFile and what is done with the file                     *)

Name(p) == <<clock, seq[p] + 1>>
Fresh(p) == Named(Name(p)) = {}
\* A name that exists is passed over, the next one has the next number.
Create(p, from, to) ==
  /\ At(p, from)
  /\ seq' = [seq EXCEPT ![p] = @ + 1]
  /\ IF Fresh(p)
     THEN /\ dir' = {f \in dir : f.name # Name(p)} \cup {[name |-> Name(p), bytes |-> << >>]}
          /\ job' = [job EXCEPT ![p].step = to, ![p].name = Name(p)]
     ELSE UNCHANGED <<dir, job>>
  /\ UNCHANGED <<clock, source, saves, kept>>

Without(p) == dir \ Named(job[p].name)

\* Write and Close: all of it, or an error and no file.
Write(p) ==
  /\ At(p, "created")
  /\ \/ /\ dir' = Without(p) \cup {[name |-> job[p].name, bytes |-> job[p].raw]}
        /\ kept' = kept \cup {[name |-> job[p].name, raw |-> job[p].raw,
                               whole |-> job[p].whole, rewrites |-> job[p].rewrites]}
     \/ dir' = Without(p) /\ UNCHANGED kept
  /\ Ends(p)
  /\ UNCHANGED <<clock, seq, source, saves>>

-----------------------------------------------------------------------------
(* The clipboard of macOS goes through a file of its own, which osascript  *)
(* fills or not; it is removed when it has been read.                      *)

Picture == <<MaxChanges + 1>>
Clipboard(p) ==
  /\ At(p, "idle") /\ saves[p] < MaxSaves
  /\ saves' = [saves EXCEPT ![p] = @ + 1]
  /\ job' = [job EXCEPT ![p].step = "temp"]
  /\ UNCHANGED <<clock, seq, dir, source, kept>>
Script(p) ==
  /\ At(p, "filling")
  /\ \/ /\ dir' = Without(p) \cup {[name |-> job[p].name, bytes |-> Picture]}
        /\ Goes(p, "filled")
     \/ dir' = Without(p) /\ Ends(p)
  /\ UNCHANGED <<clock, seq, source, saves, kept>>
TakeBack(p) ==
  /\ At(p, "filled")
  /\ \E f \in Named(job[p].name) :
       job' = [job EXCEPT ![p].step = "ready", ![p].raw = f.bytes, ![p].whole = Picture,
                          ![p].name = << >>]
  /\ dir' = Without(p)
  /\ UNCHANGED <<clock, seq, source, saves, kept>>

-----------------------------------------------------------------------------
(* The world: the clock, and another program that owns the source.         *)

Tick == clock < MaxClock /\ clock' = clock + 1
        /\ UNCHANGED <<seq, dir, source, job, saves, kept>>

Change(new) ==
  /\ changes < MaxChanges /\ changes' = changes + 1
  /\ \/ disk' = Append(disk, new) /\ path' = Len(disk) + 1 /\ UNCHANGED job  \* replaced
     \/ /\ UNCHANGED path
        /\ \/ disk' = [disk EXCEPT ![path] = << >>]                    \* truncated
           \/ disk' = [disk EXCEPT ![path] = Append(@, changes + 1)]   \* written on
        /\ job' = [p \in Procs |->
             IF job[p].inode = path /\ job[p].step \in {"open", "read"} /\ disk' # disk
             THEN [job[p] EXCEPT !.rewrites = @ + 1] ELSE job[p]]
  /\ UNCHANGED <<clock, seq, dir, saves, kept>>

ImageInit ==
  /\ clock = 1 /\ seq = [p \in Procs |-> 0] /\ dir = {}
  /\ disk = <<[i \in 1 .. MaxSize |-> 0]>> /\ path = 1
  /\ job = [p \in Procs |-> NoJob] /\ saves = [p \in Procs |-> 0]
  /\ changes = 0 /\ kept = {}

Step(p) == \/ Lstat(p) \/ Open(p) \/ Read(p) \/ Stat(p)
           \/ Create(p, "ready", "created") \/ Write(p)
           \/ Clipboard(p) \/ Create(p, "temp", "filling") \/ Script(p) \/ TakeBack(p)
ImageNext == Tick \/ Change(<<changes + 1>>) \/ \E p \in Procs : Step(p)
ImageSpec == ImageInit /\ [][ImageNext]_imageVars

-----------------------------------------------------------------------------
(* A path that was returned holds what was saved under it, for good, and   *)
(* beside those there are only the files of saves under way: a save that   *)
(* failed, and the file for osascript, leave nothing.                      *)
PathsHold ==
  /\ \A k \in kept : [name |-> k.name, bytes |-> k.raw] \in dir
  /\ \A f \in dir : \/ \E k \in kept : k.name = f.name
                    \/ \E p \in Procs : job[p].name = f.name /\ ~At(p, "idle")
  /\ \A j, k \in kept : j.name = k.name => j = k

(* What is saved is the file as it was opened: a change in place that was  *)
(* made while it was read is noticed, were it not undone by another one.   *)
ChangesRefuse == \A k \in kept : k.rewrites < 2 => k.raw = k.whole

(* Promise the code breaks: "pasted image changed while reading"           *)
(* (attachments.go:154) is told from the size alone.                       *)
NeverTorn == \A k \in kept : k.raw = k.whole
=============================================================================
