----------------------------- MODULE ConfigFiles -----------------------------
(***************************************************************************)
(* The configuration (config/config.go, edit.go, render.go, mcpjson.go and *)
(* the commands that change it): layers read in order, a merged value, and *)
(* edits that load, change and save while other processes do the same.     *)
(* A file is what it declares: a default model, the names of its           *)
(* providers, its MCP servers with their tier, and the sections that       *)
(* RenderTOML does not write.                                              *)
(***************************************************************************)
EXTENDS Naturals, FiniteSets, Functions, TLC

CONSTANTS
  Procs,      \* commands at work, of one or several processes
  Servers,    \* names of MCP servers
  Starts,     \* what the files may hold at first: [user, project, mcpjson]
  MaxEdits    \* bound: commands begun

VARIABLES
  files,      \* user and project: Absent, Torn or what they declare; mcpjson
  at, cfg, target, edit,   \* per command: where it stands, its *Config, file and change
  edits,
  before,     \* history: per command, what Load gave when it began
  apart       \* history: per command, nobody else wrote since it began

command == <<at, cfg, target, edit, before>>
vars == <<files, command, edits, apart>>

Absent == [state |-> "absent"]
Torn == [state |-> "torn"]
Parsed(f) == files[f].state = "ok"
Layers == {"user", "project"}

File(m, ps, ss, ex) == [state |-> "ok", model |-> m, providers |-> ps, servers |-> ss, extra |-> ex]
Default == File("deepseek", {"deepseek", "glm"}, << >>, "default")
NoEdit == [kind |-> "none", name |-> "none"]

-----------------------------------------------------------------------------
(* Load                                                                    *)

\* A file replaces the scalars and the tables it has; extra is kept when it
\* has none.  Providers are one array of tables.
Onto(c, f) ==
  IF files[f].state = "absent" THEN c
  ELSE [files[f] EXCEPT !.extra = IF @ = "default" THEN c.extra ELSE @,
                        !.providers = IF @ = {} THEN c.providers ELSE @,
                        !.model = IF @ = "none" THEN c.model ELSE @]

ServersOf(f) == IF Parsed(f) THEN files[f].servers ELSE << >>

LastFile == IF Parsed("project") THEN ServersOf("project") ELSE ServersOf("user")   \* mutant: the last array wins
\* By name across the files, the later wins.
MergedServers == ServersOf("project") @@ ServersOf("user")

Loaded ==
  [Onto(Onto(Default, "user"), "project") EXCEPT !.servers = MergedServers @@ files.mcpjson]

Loads == files.user # Torn /\ files.project # Torn

SourcePath ==
  IF files.project # Absent THEN "project" ELSE IF files.user # Absent THEN "user" ELSE "none"

-----------------------------------------------------------------------------
(* Commands                                                                *)

Init ==
  /\ \E s \in Starts : files = s
  /\ at = [p \in Procs |-> "idle"] /\ cfg = [p \in Procs |-> Default]
  /\ target = [p \in Procs |-> "none"] /\ edit = [p \in Procs |-> NoEdit]
  /\ before = [p \in Procs |-> Default] /\ apart = [p \in Procs |-> TRUE]
  /\ edits = 0

Begin(p, e, c, to) ==
  /\ at[p] = "idle" /\ edits < MaxEdits
  /\ edits' = edits + 1
  /\ at' = [at EXCEPT ![p] = "loaded"]
  /\ cfg' = [cfg EXCEPT ![p] = c] /\ target' = [target EXCEPT ![p] = to]
  /\ edit' = [edit EXCEPT ![p] = e]
  /\ before' = [before EXCEPT ![p] = IF Loads THEN Loaded ELSE Default]
  /\ apart' = [apart EXCEPT ![p] = TRUE]
  /\ UNCHANGED files

Target(s) == IF s = "none" THEN "project" ELSE s

\* mcp add: any tier the user wrote comes from the file, not the command.
AddServer(p, n) ==
  /\ Loads
  /\ Begin(p, [kind |-> "add", name |-> n],
           [Loaded EXCEPT !.servers = (n :> "lazy") @@ @], Target(SourcePath))

RemoveServer(p, n) ==
  /\ Loads /\ n \in DOMAIN Loaded.servers
  /\ Begin(p, [kind |-> "remove", name |-> n],
           [Loaded EXCEPT !.servers = Restrict(@, DOMAIN @ \ {n})], Target(SourcePath))

\* /effort reads one file on top of the defaults; one that does not parse
\* is only warned about.
LoadForEdit(f) ==
  IF files[f] = Torn THEN Default ELSE Onto(Default, f)

SetEffort(p) ==
  LET f == IF SourcePath = "none" THEN "user" ELSE SourcePath
      c == LoadForEdit(f)
  IN /\ Loads
     /\ \E e \in Loaded.providers :
          Begin(p, [kind |-> "effort", name |-> e], [c EXCEPT !.providers = @ \cup {e}], f)

\* setup asks first and writes the project's file in place at the end; with
\* no provider chosen it panics.
Setup(p) ==
  LET c == LoadForEdit("project") IN
    \E ps \in (SUBSET c.providers) \ {{}} : \E first \in ps :
      Begin(p, [kind |-> "setup", name |-> "none"],
            [c EXCEPT !.providers = ps, !.model = IF @ \in ps THEN @ ELSE first], "project")

\* models refresh changes the lists of models in the text of the file.
Refresh(p) ==
  /\ Loads /\ SourcePath # "none"
  /\ Begin(p, [kind |-> "refresh", name |-> "none"], files[SourcePath], SourcePath)

-----------------------------------------------------------------------------
(* Saving                                                                  *)

\* RenderTOML leaves out the tier and the sections in extra.
RenderTOML(c) == [c EXCEPT !.extra = "default", !.servers = [n \in DOMAIN @ |-> "lazy"]]
Text(p) == IF edit[p].kind = "refresh" THEN cfg[p] ELSE RenderTOML(cfg[p])

Wrote(p, text) ==
  /\ files' = [files EXCEPT ![target[p]] = text]
  /\ apart' = [q \in Procs |-> q = p /\ apart[p]]
  /\ UNCHANGED <<cfg, target, edit, edits, before>>

InPlace(p) == edit[p].kind \in {"setup", "refresh"}

\* SaveTo: a temporary file and a rename.
Save(p) ==
  /\ at[p] = "loaded" /\ ~InPlace(p)
  /\ at' = [at EXCEPT ![p] = "idle"]
  /\ Wrote(p, Text(p))

\* WriteFile: what was there is gone before the new text is.
Truncate(p) ==
  /\ at[p] = "loaded" /\ InPlace(p)
  /\ at' = [at EXCEPT ![p] = "writing"]
  /\ Wrote(p, Torn)

Write(p) ==
  /\ at[p] = "writing"
  /\ at' = [at EXCEPT ![p] = "idle"]
  /\ Wrote(p, Text(p))

\* An error, a full disk or a crash.
Fail(p) ==
  /\ at[p] # "idle"
  /\ at' = [at EXCEPT ![p] = "idle"]
  /\ UNCHANGED <<files, cfg, target, edit, edits, before, apart>>

Next == \E p \in Procs :
  \/ \E n \in Servers : AddServer(p, n) \/ RemoveServer(p, n)
  \/ SetEffort(p) \/ Setup(p) \/ Refresh(p)
  \/ Save(p) \/ Truncate(p) \/ Write(p) \/ Fail(p)

Spec == Init /\ [][Next]_vars

-----------------------------------------------------------------------------
Saves(p, kinds) == edit[p].kind \in kinds /\ at[p] # "idle" /\ at'[p] = "idle" /\ apart'[p]
                   /\ files'[target[p]] # files[target[p]] /\ Loads'
Beneath(p) == DOMAIN files.mcpjson \cup (IF target[p] = "project" THEN DOMAIN ServersOf("user") ELSE {})

(* An edit of the servers nobody came between changes what the next Load   *)
(* gives by that server alone; one that is removed can only come back from *)
(* a layer beneath the file that was written.                              *)
EditTakes ==
  [][\A p \in Procs : Saves(p, {"add", "remove"}) =>
       LET n == edit[p].name
           names == DOMAIN before[p].servers
       IN /\ DOMAIN Loaded'.servers =
               IF edit[p].kind = "add" THEN names \cup {n}
                                       ELSE (names \ {n}) \cup (Beneath(p) \cap {n})
          /\ Loaded'.providers = before[p].providers /\ Loaded'.model = before[p].model]_vars

(* The effort of a provider is set for a provider the next Load has.       *)
EffortHasProvider ==
  [][\A p \in Procs : Saves(p, {"effort"}) => edit[p].name \in Loaded'.providers]_vars

(* A file that does not parse is the work of a command that writes in      *)
(* place: a session's own edits never leave one behind.                    *)
OnlyInPlaceTears ==
  [][\A f \in Layers : files'[f] = Torn /\ files[f] # Torn =>
       \E p \in Procs : at[p] = "loaded" /\ edit[p].kind \notin {"add", "remove", "effort"}]_vars

(* Claimed: what is removed from the configuration is gone.                *)
RemoveTakes ==
  [][\A p \in Procs : Saves(p, {"remove"}) => edit[p].name \notin DOMAIN Loaded'.servers]_vars

(* Claimed: the rendered file round-trips.  The tier of a server and whole *)
(* sections (codegraph, lsp, workflow, tools.search) do not.               *)
RoundTrips == \A f \in Layers : Parsed(f) => RenderTOML(files[f]) = files[f]

(* Claimed: a reconfigure preserves the user's providers and settings.     *)
(* /effort in a project without its own providers replaces the user's.     *)
EffortKeeps ==
  [][\A p \in Procs : Saves(p, {"effort"}) =>
       before[p].providers \subseteq Loaded'.providers /\ Loaded'.model = before[p].model]_vars

(* Claimed: a file that does not parse is an error.  LoadForEdit warns and *)
(* /effort saves the defaults over it.                                     *)
TornIsKept ==
  [][\A f \in Layers : files[f] = Torn /\ files'[f] # Torn => \E p \in Procs : at[p] = "writing"]_vars
=============================================================================
