------------------------------ MODULE MCStores ------------------------------
(* What outlives a turn: conversations and their files, the tree of their  *)
(* branches, the configuration, the saved facts, and the sessions of one   *)
(* process that follow each other.  A behaviour moves one of them, focus.  *)
EXTENDS Naturals, Sequences, FiniteSets

CONSTANTS
  Foci,                                                     \* the parts that may move
  Gating, MaxSessions, MaxIds, MaxPasses, MaxFolds, MaxOrders,   \* SessionFiles
  Commands, Tables, Starts, MaxChanges,                        \* ConfigFiles
  Facts, Writers, MaxWrites,                                \* MemoryStore
  Servers, Tier, SlugOf, Concurrency, DemoteAfter, MaxSamples, MaxBuilds, MaxEdits,   \* Boot
  Stamps, Legacy, BranchNames, Refs, ListCap, ColdAfter, Scrollback, MaxTicks, MaxFaults \* Branches

ASSUME StoresAssumption ==
  /\ Gating \in {"server", "terminal", "patient"}
  /\ MaxSessions \in Nat \ {0} /\ {MaxIds, MaxPasses, MaxFolds, MaxOrders} \subseteq Nat
  /\ "none" \notin Facts
  /\ SlugOf \in [Servers -> STRING] /\ DOMAIN Tier = Servers
  /\ Stamps \in Seq(Seq(STRING) \ {<< >>}) /\ Stamps # << >>
  /\ Legacy \in Seq(STRING) \ {<< >>}
  /\ \A i, j \in DOMAIN Stamps : Stamps[i] # Legacy /\ (Stamps[i] = Stamps[j] => i = j)

VARIABLES
  focus,
  log, file, session, path, turn, started, turnPath, cmd, pass, used, home, owns,
  cFiles, at, cfg, target, edit, edits, before, apart,
  mFiles, index, mAt, op, kept, mVersion, pending, told, mSession, rivals, refused,
  version, bEdits, stats, cache, records, bundle, step, gen, built, hs, placed, demoted,
  alive, spawning, open, front, retired, unowned,
  bFile, meta, bPath, turns, points, bound, clock, minted, faults, unaged, bCmd, said, picker

Chat == INSTANCE SessionFiles WITH MaxCommands <- MaxOrders

Config == INSTANCE ConfigFiles
  WITH Procs <- Commands, Servers <- Tables, MaxEdits <- MaxChanges, files <- cFiles

Memory == INSTANCE MemoryStore
  WITH Names <- Facts, files <- mFiles, at <- mAt, version <- mVersion, session <- mSession

Boots == INSTANCE Boot WITH edits <- bEdits

Tree == INSTANCE Branches
  WITH Names <- BranchNames, file <- bFile, path <- bPath, cmd <- bCmd

-----------------------------------------------------------------------------
(* The values of the run                                                   *)

None == [state |-> "absent"]
Declares(m, ps, ss, ex) ==
  [state |-> "ok", model |-> m, providers |-> ps, servers |-> ss, extra |-> ex]

ConfigStarts ==
  { [user |-> None, project |-> None, mcpjson |-> << >>],
    [user |-> Declares("glm", {"mine"}, [s1 |-> "eager"], "tuned"), project |-> None,
     mcpjson |-> [s1 |-> "lazy"]],
    [user |-> Declares("none", {"mine"}, [s1 |-> "lazy"], "default"),
     project |-> Declares("none", {}, [s2 |-> "eager"], "tuned"), mcpjson |-> << >>],
    [user |-> [state |-> "torn"], project |-> None, mcpjson |-> << >>] }

OneOfEach == [a |-> "eager", b |-> "background", codegraph |-> "codegraph"]
SharedSlug == [a |-> "x", b |-> "x", codegraph |-> "codegraph"]

Minutes == <<<<"y", "d", "1">>, <<"y", "d", "2">>, <<"y", "e", "1">>>>
OldName == <<"y", "e">>
SomeNames == {<< >>, <<"d">>}
SomeRefs == {<<"y", "d", "1">>, <<"y", "e">>, <<"e", "1">>, <<"d">>, <<"y", "d", "2">>, <<"path", "y", "d", "1">>}

-----------------------------------------------------------------------------

chatVars == <<log, file, session, path, turn, started, turnPath, cmd, pass, used, home, owns>>
configVars == <<cFiles, at, cfg, target, edit, edits, before, apart>>
memoryVars == <<mFiles, index, mAt, op, kept, mVersion, pending, told, mSession, rivals, refused>>
bootVars == <<version, bEdits, stats, cache, records, bundle, step, gen, built, hs, placed,
              demoted, alive, spawning, open, front, retired, unowned>>
treeVars == <<bFile, meta, bPath, turns, points, bound, clock, minted, faults, unaged, bCmd, said,
              picker>>
mcVars == <<focus, chatVars, configVars, memoryVars, bootVars, treeVars>>

\* The parts that do not move stand in one of their initial states.
MCInit ==
  /\ focus \in Foci
  /\ Chat!Init /\ Memory!Init
  /\ Config!Init /\ (focus # "config" => cFiles.user = None /\ cFiles.project = None)
  /\ IF focus = "tree" THEN TRUE ELSE bFile = Tree!Files(FALSE)
  /\ Tree!Init
  /\ Boots!Init /\ (focus # "boot" => bundle = "absent" /\ front = "server")

MCNext ==
  /\ UNCHANGED focus
  /\ \/ focus = "sessions" /\ Chat!Next /\ UNCHANGED <<configVars, memoryVars, bootVars, treeVars>>
     \/ focus = "config" /\ Config!Next /\ UNCHANGED <<chatVars, memoryVars, bootVars, treeVars>>
     \/ focus = "memory" /\ Memory!Next /\ UNCHANGED <<chatVars, configVars, bootVars, treeVars>>
     \/ focus = "boot" /\ Boots!Next /\ UNCHANGED <<chatVars, configVars, memoryVars, treeVars>>
     \/ focus = "tree" /\ Tree!Next /\ UNCHANGED <<chatVars, configVars, memoryVars, bootVars>>

MCSpec == MCInit /\ [][MCNext]_mcVars /\ WF_bootVars(focus = "boot" /\ Boots!Building)

(* What belongs to one conversation or session stays with it: its          *)
(* messages, under a client that awaits each command (Gating), its server  *)
(* processes, the schemas of its servers.                                  *)
KeptApart ==
  /\ Chat!TypeOK /\ Chat!OwnConversation
  /\ Boots!NoOrphans /\ Boots!SchemaFits

(* Nothing that was said to such a client is missing, no fact that one     *)
(* session at a time changed, no note, and no entry of the table of servers*)
(* is unaccounted for.                                                     *)
NothingMissing ==
  /\ Chat!NothingLost
  /\ Memory!IndexFollows /\ Memory!ChangesReach
  /\ Boots!AllAccounted

(* A change of the configuration or of the branches does what it was asked *)
(* to and no more; a branch is younger than its parent, and the tree shows *)
(* every branch where it belongs.                                          *)
EditsHold ==
  /\ Config!EditTakes /\ Config!EffortHasProvider /\ Config!OnlyInPlaceTears
  /\ Tree!RefMeansOne /\ Tree!OriginStays
  /\ Tree!OnlyTurnsReorder /\ Tree!BranchPointSurvives
  /\ []Tree!ParentsComeFirst /\ []Tree!TreeIsWhole

(* A session is assembled or given up, whatever its servers do.            *)
BuildsEnd == []<>(focus = "boot" => step = "none")
=============================================================================
