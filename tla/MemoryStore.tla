----------------------------- MODULE MemoryStore -----------------------------
(***************************************************************************)
(* The saved facts of a project (memory/store.go, remember.go, forget.go)  *)
(* and how a change of them reaches the model: one file per fact, an index *)
(* that is read, changed and written after it, and a note for the next     *)
(* turn (pendingMemory and Compose of package control).  The index is in   *)
(* the prefix of a session as it was when the session began.               *)
(***************************************************************************)
EXTENDS Naturals, Sequences, SequencesExt, FiniteSets

CONSTANTS
  Names,      \* slugs of facts
  Writers,    \* calls of remember and forget, of two agents or processes,
              \* and the user's panel
  MaxWrites   \* bound: changes begun

VARIABLES
  files,      \* <name>.md: the version it has, 0 when absent
  index,      \* MEMORY.md: lines [stem, name, ver], by the stem a line is kept under
  at, op, kept,   \* per writer: where it stands, its change, the lines it read
  version,    \* changes begun
  pending,    \* pendingMemory: versions
  told,       \* versions that were in the prefix or in a turn's message
  session,    \* the changes made since the session began
  rivals,     \* history: two writers overlapped, one failed midway, or a title held a link
  refused     \* history: notes composed into a turn that a hook refused

disk == <<files, index>>
writer == <<at, op, kept>>
vars == <<disk, writer, version, pending, told, session, rivals, refused>>

NoOp == [kind |-> "none", name |-> "none", ver |-> 0, link |-> "none"]
Busy == {w \in Writers : at[w] # "idle"}

Init ==
  /\ files = [n \in Names |-> 0] /\ index = {}
  /\ at = [w \in Writers |-> "idle"] /\ op = [w \in Writers |-> NoOp]
  /\ kept = [w \in Writers |-> {}]
  /\ version = 0 /\ pending = <<>> /\ told = {} /\ session = {}
  /\ rivals = FALSE /\ refused = {}

-----------------------------------------------------------------------------
(* Save and Delete                                                         *)

Goto(w, l) == at' = [at EXCEPT ![w] = l]

\* The panel's ForgetMemory holds the controller's lock, the tools do not.
Begin(w) ==
  /\ at[w] = "idle" /\ version < MaxWrites
  /\ version' = version + 1
  /\ \E n \in Names, k \in {"save", "delete"}, l \in Names \cup {"none"} :
       /\ k = "delete" \/ l = n => l = "none"
       /\ op' = [op EXCEPT ![w] = [kind |-> k, name |-> n, ver |-> version + 1, link |-> l]]
  /\ Goto(w, "file")
  /\ rivals' = (rivals \/ Busy # {} \/ op'[w].link # "none")
  /\ UNCHANGED <<disk, kept, pending, told, session, refused>>

File(w) ==
  /\ at[w] = "file"
  /\ files' = [files EXCEPT ![op[w].name] = IF op[w].kind = "save" THEN op[w].ver ELSE 0]
  /\ Goto(w, "read")
  /\ UNCHANGED <<index, op, kept, version, pending, told, session, rivals, refused>>

IndexLinesExcept(w) == {l \in index : l.stem # op[w].name}

\* A map by stem: of two lines with one stem, one is kept.
Read(w) ==
  /\ at[w] = "read"
  /\ \E k \in SUBSET IndexLinesExcept(w) :
       /\ {l.stem : l \in k} = {l.stem : l \in IndexLinesExcept(w)}
       /\ \A l, m \in k : l.stem = m.stem => l = m
       /\ kept' = [kept EXCEPT ![w] = k]
  /\ Goto(w, "flush")
  /\ UNCHANGED <<disk, op, version, pending, told, session, rivals, refused>>

\* A title may hold a link, and a line is known by the first link in it.
StemOf(o) == IF o.link = "none" THEN o.name ELSE o.link
Line(o) == [stem |-> StemOf(o), name |-> o.name, ver |-> o.ver]

FlushIndex(w) ==
  /\ at[w] = "flush"
  /\ index' = IF op[w].kind = "delete" THEN kept[w] ELSE kept[w] \cup {Line(op[w])}
  /\ Goto(w, "note")
  /\ UNCHANGED <<files, op, kept, version, pending, told, session, rivals, refused>>

Note(w) == <<op[w].ver>>

QueueMemory(w) ==
  /\ at[w] = "note"
  /\ pending' = pending \o Note(w) /\ session' = session \cup {op[w].ver}
  /\ Goto(w, "idle")
  /\ op' = [op EXCEPT ![w] = NoOp] /\ kept' = [kept EXCEPT ![w] = {}]
  /\ UNCHANGED <<disk, version, told, rivals, refused>>

\* A step that fails: the file may be there and its line not.
Fail(w) ==
  /\ at[w] \in {"file", "read", "flush"}
  /\ rivals' = TRUE
  /\ Goto(w, "idle")
  /\ op' = [op EXCEPT ![w] = NoOp] /\ kept' = [kept EXCEPT ![w] = {}]
  /\ UNCHANGED <<disk, version, pending, told, session, refused>>

-----------------------------------------------------------------------------
(* Turns and sessions                                                      *)

Drained == <<>>

\* Compose takes every note; a UserPromptSubmit hook may then refuse the turn.
Compose ==
  /\ pending # <<>>
  /\ pending' = Drained
  /\ \/ told' = told \cup ToSet(pending) /\ UNCHANGED refused
     \/ refused' = refused \cup ToSet(pending) /\ UNCHANGED told
  /\ UNCHANGED <<disk, writer, version, session, rivals>>

\* A session ends with its writers idle; the next reads the index.
NewSession ==
  /\ Busy = {} /\ session # {}
  /\ told' = told \cup {l.ver : l \in index}
  /\ pending' = <<>> /\ session' = {} /\ refused' = {}
  /\ UNCHANGED <<disk, writer, version, rivals>>

Next ==
  \/ \E w \in Writers : Begin(w) \/ File(w) \/ Read(w) \/ FlushIndex(w) \/ QueueMemory(w) \/ Fail(w)
  \/ Compose \/ NewSession

Spec == Init /\ [][Next]_vars

-----------------------------------------------------------------------------
(* With one change at a time, none cut short and no link in a title, the   *)
(* index names exactly the facts there are, each at the version its file   *)
(* has.  (Save, Delete)                                                    *)
IndexFollows ==
  Busy = {} /\ ~rivals =>
    {<<l.name, l.ver>> : l \in index} = {<<n, files[n]>> : n \in {m \in Names : files[m] # 0}}

(* Every change of this session has been told to the model, waits for the  *)
(* next turn, or went into a turn that was refused, and a note waits once. *)
ChangesReach ==
  /\ session \subseteq told \cup ToSet(pending) \cup refused
  /\ Cardinality(ToSet(pending)) = Len(pending) /\ ToSet(pending) \cap told = {}

(* Claimed: the index never drifts from the files.                         *)
NeverDrifts ==
  Busy = {} => {l.name : l \in index} = {n \in Names : files[n] # 0}

(* Claimed: a change applies this session; the notes of a turn that a hook *)
(* refuses are gone.                                                       *)
AppliesNow == refused = {}
=============================================================================
