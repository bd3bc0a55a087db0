---------------------------- MODULE SessionProofs ----------------------------
(***************************************************************************)
(* Proofs about what a session has and leaves behind.  First that the view *)
(* of a lazily spawned MCP server is honest and, when boot, the spawn and  *)
(* /mcp connect have raced, leads to a live connection, for any number of  *)
(* calls, users, commands and connections; then, of the parts of MCStores, *)
(* that conversations and their files, the saved facts and the sessions of *)
(* one process that follow each other keep apart what is theirs and lose   *)
(* nothing.                                                                *)
(***************************************************************************)
EXTENDS McpServers, MCStores, SequenceTheorems, FiniteSetTheorems, TLAPS

Spawners == Execs \cup {Run}
SpawnLabels == {"has", "handshake", "append", "publish", "failed", "swap"}

(* The variables have their types, in four parts.                          *)
Labels == {"idle", "has", "handshake", "append", "publish", "failed", "swap", "ask",
           "askStub", "real", "drop", "add", "close", "unregister", "done"}
Stages == {"unborn", "handshake", "up", "closed"}
ScalarTypes ==
  /\ gating \in Gatings /\ tier \in {"eager", "lazy", "background"} /\ cached \in BOOLEAN
  /\ boot \in {"eager", "kick", "register", "done"} /\ inConfig \in BOOLEAN
  /\ failed \in BOOLEAN /\ swapped \in BOOLEAN
  /\ state \in {"idle", "inFlight", "ready", "failed"}
  /\ spawnMu \in Execs \cup {Run, Free}
  /\ commands \in 0..MaxCommands
  /\ history \in {"never removed", "removed", "reconnected"}
ProcTypes == pc \in [Procs -> Labels] /\ mine \in [Procs -> Conns \cup {NoConn}]
LinkTypes ==
  /\ clients \in Seq(Conns) /\ prompts \subseteq Conns
  /\ conn \in [Conns -> Stages] /\ fetching \subseteq Conns
NameTypes ==
  /\ reg \in [Tools -> Conns \cup {Placeholder, Absent}]
  /\ real \in Conns \cup {NoConn}
Types == ScalarTypes /\ ProcTypes /\ LinkTypes /\ NameTypes

(* Where each kind of goroutine can stand.                                 *)
PlaceInv ==
  /\ \A u \in Users :
       pc[u] \in {"idle", "has", "handshake", "append", "drop", "add", "close",
                  "unregister"}
  /\ \A p \in Spawners :
       pc[p] \in SpawnLabels \cup {"idle", "ask", "askStub", "real", "done"}
  /\ \A p \in Procs :
       pc[p] \in {"handshake", "append", "publish", "drop", "add", "close"}
         => mine[p] \in Conns

(* One goroutine at most is inside the spawn, whose state says so, and     *)
(* it alone holds the lock while it swaps.                                 *)
SpawnInv ==
  /\ handshakes = IF state = "idle" THEN 0 ELSE 1
  /\ \A p \in Spawners :
       /\ pc[p] \in SpawnLabels \ {"swap"} => state = "inFlight"
       /\ pc[p] = "swap" => state = "ready" /\ spawnMu = p
  /\ \A p, q \in Spawners :
       pc[p] \in SpawnLabels /\ pc[q] \in SpawnLabels => p = q
  /\ state = "idle" => pc[Run] = "idle"
  /\ state = "ready" => real \in Conns
  /\ spawnMu # Free => pc[spawnMu] \in {"swap", "real"}

(* Until boot is done no call and no command runs; until it has kicked the *)
(* spawn nothing has happened at all.                                      *)
BootInv ==
  /\ boot # "done" =>
       /\ \A p \in Execs \cup Users : pc[p] = "idle"
       /\ reg["call"] # Placeholder
       /\ reg["call"] # Absent => state = "ready" /\ reg["call"] = real
  /\ boot \in {"eager", "kick"} =>
       /\ state = "idle" /\ clients = <<>> /\ ~failed
       /\ \A i \in Conns : conn[i] = "unborn"

(* A connection has one owner: the goroutine that makes or ends it, or the *)
(* host's list, which names it once.                                       *)
NoDuplicates ==
  \A a, b \in DOMAIN clients : clients[a] = clients[b] => a = b
Holding == {"handshake", "append", "close"}
OwnerInv ==
  /\ \A p \in Procs :
       /\ pc[p] = "handshake" => conn[mine[p]] = "handshake"
       /\ pc[p] \in {"append", "close"} => conn[mine[p]] = "up"
       /\ pc[p] \in Holding => mine[p] \notin Listed
  /\ \A p, q \in Procs :
       pc[p] \in Holding /\ pc[q] \in Holding /\ mine[p] = mine[q] => p = q
  /\ NoDuplicates

(* As long as nothing was removed, what was listed stays up, and either    *)
(* the registry leads to it or somebody is about to see to that.           *)
Unremoved == history = "never removed"
NoRemoval == Unremoved => \A u \in Users : pc[u] \notin {"close", "unregister"}
StaysUp ==
  Unremoved =>
    /\ \A p \in Procs : pc[p] \in {"publish", "drop", "add"} => UpAt(mine[p])
    /\ state = "ready" => UpAt(real)
Settling == {"publish", "swap", "drop", "add"}
Leads ==
  Unremoved /\ clients # <<>> => Usable \/ \E p \in Procs : pc[p] \in Settling
UseInv == NoRemoval /\ StaysUp /\ Leads

IInv ==
  Types /\ PlaceInv /\ SpawnInv /\ BootInv /\ OwnerInv /\ HostIsHonest /\ UseInv

-----------------------------------------------------------------------------

USE DEF config, host, spawn, links, procs, env

LEMMA Sorts ==
  /\ Users \subseteq Procs /\ Execs \subseteq Procs /\ Spawners \subseteq Procs
  /\ Run \in Procs /\ Run \in Spawners /\ Run \notin Users /\ Run \notin Execs
  /\ Procs = Users \cup Spawners /\ Spawners = Execs \cup {Run} /\ Users \cap Spawners = {} /\
       Execs \subseteq Spawners
  /\ Free \notin Procs /\ Run # Free
  BY ConstantsAssumption DEF Procs, Spawners, Run, Free

LEMMA Numbers ==
  /\ 1 \in Conns /\ NoConn \notin Conns /\ Placeholder \notin Conns /\ Absent \notin Conns
  /\ Placeholder # Absent /\ Conns \subseteq Nat
  BY ConstantsAssumption DEF Conns, NoConn, Placeholder, Absent

LEMMA Counted ==
  ASSUME ScalarTypes, commands < MaxCommands, commands' = commands + 1
  PROVE  commands' \in 0..MaxCommands
<1>1. MaxCommands \in Nat
  BY ConstantsAssumption
<1>2. commands \in 0..MaxCommands
  BY DEF ScalarTypes
<1> QED
  BY <1>1, <1>2

(* The list of the host as it grows and shrinks.                           *)
LEMMA ListedSame == clients' = clients => Listed' = Listed
  BY DEF Listed

LEMMA ListedIn == clients \in Seq(Conns) => Listed \subseteq Conns
  BY ElementOfSeq, LenProperties DEF Listed

LEMMA ListedGrows ==
  ASSUME clients \in Seq(Conns), NEW i \in Conns, clients' = Append(clients, i)
  PROVE  /\ Listed' = Listed \cup {i} /\ clients' \in Seq(Conns) /\ clients' # <<>>
         /\ NoDuplicates /\ i \notin Listed => NoDuplicates'
<1>1. /\ Len(clients) \in Nat /\ Len(clients') = Len(clients) + 1
      /\ DOMAIN clients = 1..Len(clients) /\ DOMAIN clients' = 1..Len(clients')
      /\ clients' \in Seq(Conns)
  BY LenProperties, AppendProperties
<1>2. /\ clients'[Len(clients) + 1] = i
      /\ \A k \in 1..Len(clients) : clients'[k] = clients[k]
  BY AppendProperties
<1>3. DOMAIN clients' = DOMAIN clients \cup {Len(clients) + 1}
  BY <1>1
<1>4. Len(clients) + 1 \notin DOMAIN clients
  BY <1>1
<1> QED
  BY <1>1, <1>2, <1>3, <1>4 DEF Listed, NoDuplicates

LEMMA ListedShrinks ==
  ASSUME clients \in Seq(Conns), clients # <<>>, clients' = Tail(clients)
  PROVE  /\ clients[1] \in Listed /\ clients[1] \in Conns
         /\ clients' \in Seq(Conns)
         /\ Listed \subseteq Listed' \cup {clients[1]} /\ Listed' \subseteq Listed
         /\ NoDuplicates => NoDuplicates' /\ clients[1] \notin Listed'
<1>1. /\ Len(clients) \in Nat /\ Len(clients) # 0
      /\ Len(clients') = Len(clients) - 1
      /\ DOMAIN clients = 1..Len(clients) /\ DOMAIN clients' = 1..Len(clients')
      /\ clients' \in Seq(Conns)
  BY LenProperties, HeadTailProperties, EmptySeq
<1>2. \A k \in DOMAIN clients' : clients'[k] = clients[k + 1]
  BY <1>1, HeadTailProperties
<1>3. /\ 1 \in DOMAIN clients
      /\ \A k \in DOMAIN clients' : k + 1 \in DOMAIN clients /\ k + 1 # 1
      /\ \A k \in DOMAIN clients : k # 1 => k - 1 \in DOMAIN clients' /\ (k - 1) + 1 = k
      /\ \A a, b \in DOMAIN clients' : a + 1 = b + 1 => a = b
  BY <1>1
<1>4. clients[1] \in Conns
  BY <1>1, <1>3, ElementOfSeq
<1>5. Listed \subseteq Listed' \cup {clients[1]}
  <2> SUFFICES ASSUME NEW k \in DOMAIN clients, k # 1
               PROVE  clients[k] \in Listed'
    BY DEF Listed
  <2>1. k - 1 \in DOMAIN clients' /\ clients'[k - 1] = clients[k]
    BY <1>2, <1>3
  <2> QED
    BY <2>1 DEF Listed
<1>6. Listed' \subseteq Listed
  BY <1>2, <1>3 DEF Listed
<1>7. ASSUME NoDuplicates PROVE NoDuplicates' /\ clients[1] \notin Listed'
  BY <1>2, <1>3, <1>7 DEF NoDuplicates, Listed
<1> QED
  BY <1>1, <1>3, <1>4, <1>5, <1>6, <1>7 DEF Listed


LEMMA StepScalars == IInv /\ [Next]_vars => ScalarTypes'
<1> SUFFICES ASSUME IInv, [Next]_vars PROVE ScalarTypes'
  OBVIOUS
<1> USE Sorts DEF ScalarTypes
<1> ScalarTypes /\ PlaceInv
  BY DEF IInv, Types
<1>1. ASSUME EagerUp PROVE ScalarTypes'
  BY <1>1 DEF EagerUp, AddReal
<1>2. ASSUME EagerFails PROVE ScalarTypes'
  BY <1>2 DEF EagerFails
<1>3. ASSUME Kick PROVE ScalarTypes'
  BY <1>3 DEF Kick, Goto
<1>4. ASSUME RegisterDeferred PROVE ScalarTypes'
  BY <1>4 DEF RegisterDeferred, Placeheld
<1>5. ASSUME NEW p \in Procs, AddRefused(p) PROVE ScalarTypes'
  BY <1>5 DEF AddRefused, AfterError, Goto
<1>6. ASSUME NEW p \in Procs, AddStarts(p) PROVE ScalarTypes'
  BY <1>6 DEF AddStarts, Unborn, Goto
<1>7. ASSUME NEW p \in Procs, AddAppends(p) PROVE ScalarTypes'
  BY <1>7 DEF AddAppends, AfterAdd, ClearFailure, Goto
<1>8. ASSUME NEW p \in Procs, HandshakeFails(p) PROVE ScalarTypes'
  BY <1>8 DEF HandshakeFails, CloseClient, AfterError, Goto
<1>9. ASSUME NEW p \in Procs, HandshakeOk(p) PROVE ScalarTypes'
  BY <1>9 DEF HandshakeOk, Goto
<1>10. ASSUME NEW p \in Procs, SpawnFailed(p) PROVE ScalarTypes'
  BY <1>10 DEF SpawnFailed, Goto
<1>11. ASSUME NEW p \in Procs, Publish(p) PROVE ScalarTypes'
  BY <1>11 DEF Publish, RemovePrefix, Goto, PlaceInv, SpawnLabels
<1>12. ASSUME NEW p \in Procs, Swap(p) PROVE ScalarTypes'
  BY <1>12 DEF Swap, Installed, AddReal, Goto
<1>13. ASSUME NEW i \in Conns, FetchDone(i) PROVE ScalarTypes'
  BY <1>13 DEF FetchDone
<1>14. ASSUME NEW e \in Execs, Lookup(e) PROVE ScalarTypes'
  BY <1>14 DEF Lookup, Goto
<1>15. ASSUME NEW e \in Execs, Forward(e) PROVE ScalarTypes'
  BY <1>15 DEF Forward, Asks, Goto
<1>16. ASSUME NEW e \in Execs, Refuse(e) PROVE ScalarTypes'
  BY <1>16 DEF Refuse, Asks, Goto
<1>17. ASSUME NEW e \in Execs, SpawnAsync(e) PROVE ScalarTypes'
  BY <1>17 DEF SpawnAsync, Asks, InFlight
<1>18. ASSUME NEW e \in Execs, SpawnHere(e) PROVE ScalarTypes'
  BY <1>18 DEF SpawnHere, Asks, InFlight, Goto
<1>19. ASSUME NEW e \in Execs, RealReturns(e) PROVE ScalarTypes'
  BY <1>19 DEF RealReturns, Unlock, Goto
<1>20. ASSUME NEW u \in Users, Connect(u) PROVE ScalarTypes'
  <2>0. commands < MaxCommands /\ commands' = commands + 1
    BY <1>20 DEF Connect, MayCommand
  <2>1. commands' \in 0..MaxCommands
    BY <2>0, Counted
  <2>2. history' \in {"never removed", "removed", "reconnected"}
    BY <1>20 DEF Connect
  <2>3. UNCHANGED <<config, spawn>> /\ failed' \in BOOLEAN
    BY <1>20 DEF Connect, ClearFailure
  <2> QED
    BY <2>1, <2>2, <2>3
<1>21. ASSUME NEW u \in Users, RemoveServer(u) PROVE ScalarTypes'
  <2>0. commands < MaxCommands /\ commands' = commands + 1
    BY <1>21 DEF RemoveServer, MayCommand
  <2>1. commands' \in 0..MaxCommands
    BY <2>0, Counted
  <2>2. history' \in {"never removed", "removed", "reconnected"}
    BY <1>21 DEF RemoveServer
  <2>3. UNCHANGED <<config, spawn>> /\ failed' \in BOOLEAN
    BY <1>21 DEF RemoveServer, ClearFailure
  <2> QED
    BY <2>1, <2>2, <2>3
<1>22. ASSUME NEW u \in Users, ConnectDrops(u) PROVE ScalarTypes'
  BY <1>22 DEF ConnectDrops, RemovePrefix, Goto
<1>23. ASSUME NEW u \in Users, ConnectAdds(u) PROVE ScalarTypes'
  BY <1>23 DEF ConnectAdds, AddReal, Goto
<1>24. ASSUME NEW u \in Users, RemoveCloses(u) PROVE ScalarTypes'
  BY <1>24 DEF RemoveCloses, CloseClient, Goto
<1>25. ASSUME NEW u \in Users, RemoveUnregisters(u) PROVE ScalarTypes'
  BY <1>25 DEF RemoveUnregisters, RemovePrefix, Goto
<1>26. CASE UNCHANGED vars
  BY <1>26 DEF vars
<1> HIDE DEF ScalarTypes
<1> QED
  BY <1>1, <1>2, <1>3, <1>4, <1>5, <1>6, <1>7, <1>8, <1>9, <1>10, <1>11,
     <1>12, <1>13, <1>14, <1>15, <1>16, <1>17, <1>18, <1>19, <1>20, <1>21,
     <1>22, <1>23, <1>24, <1>25, <1>26
     DEF Next, Add, Handshake, Spawning, Ask, Commanding

LEMMA StepProcs == IInv /\ [Next]_vars => ProcTypes'
<1> SUFFICES ASSUME IInv, [Next]_vars PROVE ProcTypes'
  OBVIOUS
<1> USE Sorts DEF ProcTypes, Labels
<1> ProcTypes /\ LinkTypes
  BY DEF IInv, Types
<1>1. ASSUME EagerUp PROVE ProcTypes'
  BY <1>1 DEF EagerUp, AddReal
<1>2. ASSUME EagerFails PROVE ProcTypes'
  BY <1>2 DEF EagerFails
<1>3. ASSUME Kick PROVE ProcTypes'
  BY <1>3 DEF Kick, Goto
<1>4. ASSUME RegisterDeferred PROVE ProcTypes'
  BY <1>4 DEF RegisterDeferred, Placeheld
<1>5. ASSUME NEW p \in Procs, AddRefused(p) PROVE ProcTypes'
  BY <1>5 DEF AddRefused, AfterError, Goto
<1>6. ASSUME NEW p \in Procs, AddStarts(p) PROVE ProcTypes'
  BY <1>6 DEF LinkTypes, AddStarts, Goto, Unborn
<1>7. ASSUME NEW p \in Procs, AddAppends(p) PROVE ProcTypes'
  BY <1>7 DEF AddAppends, AfterAdd, ClearFailure, Goto
<1>8. ASSUME NEW p \in Procs, HandshakeFails(p) PROVE ProcTypes'
  BY <1>8 DEF HandshakeFails, CloseClient, AfterError, Goto
<1>9. ASSUME NEW p \in Procs, HandshakeOk(p) PROVE ProcTypes'
  BY <1>9 DEF HandshakeOk, Goto
<1>10. ASSUME NEW p \in Procs, SpawnFailed(p) PROVE ProcTypes'
  BY <1>10 DEF SpawnFailed, Goto
<1>11. ASSUME NEW p \in Procs, Publish(p) PROVE ProcTypes'
  BY <1>11 DEF Publish, RemovePrefix, Goto
<1>12. ASSUME NEW p \in Procs, Swap(p) PROVE ProcTypes'
  BY <1>12 DEF Swap, Installed, AddReal, Goto
<1>13. ASSUME NEW i \in Conns, FetchDone(i) PROVE ProcTypes'
  BY <1>13 DEF FetchDone
<1>14. ASSUME NEW e \in Execs, Lookup(e) PROVE ProcTypes'
  BY <1>14 DEF Lookup, Goto
<1>15. ASSUME NEW e \in Execs, Forward(e) PROVE ProcTypes'
  BY <1>15 DEF Forward, Asks, Goto
<1>16. ASSUME NEW e \in Execs, Refuse(e) PROVE ProcTypes'
  BY <1>16 DEF Refuse, Asks, Goto
<1>17. ASSUME NEW e \in Execs, SpawnAsync(e) PROVE ProcTypes'
  BY <1>17 DEF SpawnAsync, Asks, InFlight
<1>18. ASSUME NEW e \in Execs, SpawnHere(e) PROVE ProcTypes'
  BY <1>18 DEF SpawnHere, Asks, InFlight, Goto
<1>19. ASSUME NEW e \in Execs, RealReturns(e) PROVE ProcTypes'
  BY <1>19 DEF RealReturns, Unlock, Goto
<1>20. ASSUME NEW u \in Users, Connect(u) PROVE ProcTypes'
  BY <1>20 DEF Connect, MayCommand, Goto
<1>21. ASSUME NEW u \in Users, RemoveServer(u) PROVE ProcTypes'
  BY <1>21, ListedShrinks DEF LinkTypes, RemoveServer, Goto, MayCommand
<1>22. ASSUME NEW u \in Users, ConnectDrops(u) PROVE ProcTypes'
  BY <1>22 DEF ConnectDrops, RemovePrefix, Goto
<1>23. ASSUME NEW u \in Users, ConnectAdds(u) PROVE ProcTypes'
  BY <1>23 DEF ConnectAdds, AddReal, Goto
<1>24. ASSUME NEW u \in Users, RemoveCloses(u) PROVE ProcTypes'
  BY <1>24 DEF RemoveCloses, CloseClient, Goto
<1>25. ASSUME NEW u \in Users, RemoveUnregisters(u) PROVE ProcTypes'
  BY <1>25 DEF RemoveUnregisters, RemovePrefix, Goto
<1>26. CASE UNCHANGED vars
  BY <1>26 DEF vars
<1> HIDE DEF ProcTypes, Labels
<1> QED
  BY <1>1, <1>2, <1>3, <1>4, <1>5, <1>6, <1>7, <1>8, <1>9, <1>10, <1>11,
     <1>12, <1>13, <1>14, <1>15, <1>16, <1>17, <1>18, <1>19, <1>20, <1>21,
     <1>22, <1>23, <1>24, <1>25, <1>26
     DEF Next, Add, Handshake, Spawning, Ask, Commanding

LEMMA StepLinks == IInv /\ [Next]_vars => LinkTypes'
<1> SUFFICES ASSUME IInv, [Next]_vars PROVE LinkTypes'
  OBVIOUS
<1> USE Sorts, Numbers DEF LinkTypes, Stages
<1> ProcTypes /\ LinkTypes /\ PlaceInv
  BY DEF IInv, Types
<1>1. ASSUME EagerUp PROVE LinkTypes'
  <2>1. clients' = <<1>> /\ clients' \in Seq(Conns)
    BY <1>1, Numbers DEF EagerUp
  <2> QED
    BY <1>1, <2>1 DEF EagerUp
<1>2. ASSUME EagerFails PROVE LinkTypes'
  BY <1>2 DEF EagerFails
<1>3. ASSUME Kick PROVE LinkTypes'
  BY <1>3 DEF Kick, Goto
<1>4. ASSUME RegisterDeferred PROVE LinkTypes'
  BY <1>4 DEF RegisterDeferred, Placeheld
<1>5. ASSUME NEW p \in Procs, AddRefused(p) PROVE LinkTypes'
  BY <1>5 DEF AddRefused, AfterError, Goto
<1>6. ASSUME NEW p \in Procs, AddStarts(p) PROVE LinkTypes'
  BY <1>6 DEF AddStarts, Unborn, Goto
<1>7. ASSUME NEW p \in Procs, AddAppends(p) PROVE LinkTypes'
  <2>1. mine[p] \in Conns
    BY <1>7 DEF AddAppends, PlaceInv
  <2> QED
    BY <1>7, <2>1, ListedGrows DEF AddAppends, ProcTypes
<1>8. ASSUME NEW p \in Procs, HandshakeFails(p) PROVE LinkTypes'
  BY <1>8 DEF HandshakeFails, CloseClient
<1>9. ASSUME NEW p \in Procs, HandshakeOk(p) PROVE LinkTypes'
  BY <1>9 DEF HandshakeOk, Goto
<1>10. ASSUME NEW p \in Procs, SpawnFailed(p) PROVE LinkTypes'
  BY <1>10 DEF SpawnFailed, Goto
<1>11. ASSUME NEW p \in Procs, Publish(p) PROVE LinkTypes'
  BY <1>11 DEF Publish, RemovePrefix, Goto
<1>12. ASSUME NEW p \in Procs, Swap(p) PROVE LinkTypes'
  BY <1>12 DEF Swap, Installed, AddReal, Goto
<1>13. ASSUME NEW i \in Conns, FetchDone(i) PROVE LinkTypes'
  BY <1>13 DEF FetchDone
<1>14. ASSUME NEW e \in Execs, Lookup(e) PROVE LinkTypes'
  BY <1>14 DEF Lookup, Goto
<1>15. ASSUME NEW e \in Execs, Forward(e) PROVE LinkTypes'
  BY <1>15 DEF Forward, Asks, Goto
<1>16. ASSUME NEW e \in Execs, Refuse(e) PROVE LinkTypes'
  BY <1>16 DEF Refuse, Asks, Goto
<1>17. ASSUME NEW e \in Execs, SpawnAsync(e) PROVE LinkTypes'
  BY <1>17 DEF SpawnAsync, Asks, InFlight
<1>18. ASSUME NEW e \in Execs, SpawnHere(e) PROVE LinkTypes'
  BY <1>18 DEF SpawnHere, Asks, InFlight, Goto
<1>19. ASSUME NEW e \in Execs, RealReturns(e) PROVE LinkTypes'
  BY <1>19 DEF RealReturns, Unlock, Goto
<1>20. ASSUME NEW u \in Users, Connect(u) PROVE LinkTypes'
  BY <1>20 DEF Connect, MayCommand, Goto
<1>21. ASSUME NEW u \in Users, RemoveServer(u) PROVE LinkTypes'
  BY <1>21, ListedShrinks DEF RemoveServer
<1>22. ASSUME NEW u \in Users, ConnectDrops(u) PROVE LinkTypes'
  BY <1>22 DEF ConnectDrops, RemovePrefix, Goto
<1>23. ASSUME NEW u \in Users, ConnectAdds(u) PROVE LinkTypes'
  BY <1>23 DEF ConnectAdds, AddReal, Goto
<1>24. ASSUME NEW u \in Users, RemoveCloses(u) PROVE LinkTypes'
  BY <1>24 DEF RemoveCloses, CloseClient, Goto
<1>25. ASSUME NEW u \in Users, RemoveUnregisters(u) PROVE LinkTypes'
  BY <1>25 DEF RemoveUnregisters, RemovePrefix, Goto
<1>26. CASE UNCHANGED vars
  BY <1>26 DEF vars
<1> HIDE DEF LinkTypes, Stages
<1> QED
  BY <1>1, <1>2, <1>3, <1>4, <1>5, <1>6, <1>7, <1>8, <1>9, <1>10, <1>11,
     <1>12, <1>13, <1>14, <1>15, <1>16, <1>17, <1>18, <1>19, <1>20, <1>21,
     <1>22, <1>23, <1>24, <1>25, <1>26
     DEF Next, Add, Handshake, Spawning, Ask, Commanding

LEMMA StepNames == IInv /\ [Next]_vars => NameTypes'
<1> SUFFICES ASSUME IInv, [Next]_vars PROVE NameTypes'
  OBVIOUS
<1> USE Sorts, Numbers DEF NameTypes, Tools
<1> ProcTypes /\ NameTypes /\ PlaceInv /\ SpawnInv
  BY DEF IInv, Types
<1>1. ASSUME EagerUp PROVE NameTypes'
  BY <1>1 DEF EagerUp, AddReal
<1>2. ASSUME EagerFails PROVE NameTypes'
  BY <1>2 DEF EagerFails
<1>3. ASSUME Kick PROVE NameTypes'
  BY <1>3 DEF Kick, Goto
<1>4. ASSUME RegisterDeferred PROVE NameTypes'
  BY <1>4 DEF RegisterDeferred, Placeheld
<1>5. ASSUME NEW p \in Procs, AddRefused(p) PROVE NameTypes'
  BY <1>5 DEF AddRefused, AfterError, Goto
<1>6. ASSUME NEW p \in Procs, AddStarts(p) PROVE NameTypes'
  BY <1>6 DEF AddStarts, Unborn, Goto
<1>7. ASSUME NEW p \in Procs, AddAppends(p) PROVE NameTypes'
  BY <1>7 DEF AddAppends, AfterAdd, ClearFailure, Goto
<1>8. ASSUME NEW p \in Procs, HandshakeFails(p) PROVE NameTypes'
  BY <1>8 DEF HandshakeFails, CloseClient, AfterError, Goto
<1>9. ASSUME NEW p \in Procs, HandshakeOk(p) PROVE NameTypes'
  BY <1>9 DEF HandshakeOk, Goto
<1>10. ASSUME NEW p \in Procs, SpawnFailed(p) PROVE NameTypes'
  BY <1>10 DEF SpawnFailed, Goto
<1>11. ASSUME NEW p \in Procs, Publish(p) PROVE NameTypes'
  BY <1>11 DEF Publish, RemovePrefix, ProcTypes
<1>12. ASSUME NEW p \in Procs, Swap(p) PROVE NameTypes'
  <2>1. real \in Conns
    BY <1>12 DEF Swap, PlaceInv, SpawnInv, Spawners
  <2> QED
    BY <1>12, <2>1 DEF Swap, Installed, AddReal
<1>13. ASSUME NEW i \in Conns, FetchDone(i) PROVE NameTypes'
  BY <1>13 DEF FetchDone
<1>14. ASSUME NEW e \in Execs, Lookup(e) PROVE NameTypes'
  BY <1>14 DEF Lookup, Goto
<1>15. ASSUME NEW e \in Execs, Forward(e) PROVE NameTypes'
  BY <1>15 DEF Forward, Asks, Goto
<1>16. ASSUME NEW e \in Execs, Refuse(e) PROVE NameTypes'
  BY <1>16 DEF Refuse, Asks, Goto
<1>17. ASSUME NEW e \in Execs, SpawnAsync(e) PROVE NameTypes'
  BY <1>17 DEF SpawnAsync, Asks, InFlight
<1>18. ASSUME NEW e \in Execs, SpawnHere(e) PROVE NameTypes'
  BY <1>18 DEF SpawnHere, Asks, InFlight, Goto
<1>19. ASSUME NEW e \in Execs, RealReturns(e) PROVE NameTypes'
  BY <1>19 DEF RealReturns, Unlock, Goto
<1>20. ASSUME NEW u \in Users, Connect(u) PROVE NameTypes'
  BY <1>20 DEF Connect, MayCommand, Goto
<1>21. ASSUME NEW u \in Users, RemoveServer(u) PROVE NameTypes'
  BY <1>21 DEF RemoveServer, MayCommand, ClearFailure, Goto
<1>22. ASSUME NEW u \in Users, ConnectDrops(u) PROVE NameTypes'
  BY <1>22 DEF ConnectDrops, RemovePrefix, Goto
<1>23. ASSUME NEW u \in Users, ConnectAdds(u) PROVE NameTypes'
  BY <1>23 DEF ConnectAdds, AddReal, PlaceInv
<1>24. ASSUME NEW u \in Users, RemoveCloses(u) PROVE NameTypes'
  BY <1>24 DEF RemoveCloses, CloseClient, Goto
<1>25. ASSUME NEW u \in Users, RemoveUnregisters(u) PROVE NameTypes'
  BY <1>25 DEF RemoveUnregisters, RemovePrefix, Goto
<1>26. CASE UNCHANGED vars
  BY <1>26 DEF vars
<1> HIDE DEF NameTypes, Tools
<1> QED
  BY <1>1, <1>2, <1>3, <1>4, <1>5, <1>6, <1>7, <1>8, <1>9, <1>10, <1>11,
     <1>12, <1>13, <1>14, <1>15, <1>16, <1>17, <1>18, <1>19, <1>20, <1>21,
     <1>22, <1>23, <1>24, <1>25, <1>26
     DEF Next, Add, Handshake, Spawning, Ask, Commanding

LEMMA StepPlace == IInv /\ [Next]_vars => PlaceInv'
<1> SUFFICES ASSUME IInv, [Next]_vars PROVE PlaceInv'
  OBVIOUS
<1> USE Sorts, Numbers DEF ProcTypes, PlaceInv, SpawnLabels
<1> ProcTypes /\ PlaceInv /\ LinkTypes
  BY DEF IInv, Types
<1>1. ASSUME EagerUp PROVE PlaceInv'
  BY <1>1 DEF EagerUp, AddReal
<1>2. ASSUME EagerFails PROVE PlaceInv'
  BY <1>2 DEF EagerFails
<1>3. ASSUME Kick PROVE PlaceInv'
  <2>1. CASE tier = "background"
    BY <1>3, <2>1 DEF Kick, Goto
  <2>2. CASE tier # "background"
    BY <1>3, <2>2 DEF Kick
  <2> QED
    BY <2>1, <2>2
<1>4. ASSUME RegisterDeferred PROVE PlaceInv'
  BY <1>4 DEF RegisterDeferred, Placeheld
<1>5. ASSUME NEW p \in Procs, AddRefused(p) PROVE PlaceInv'
  BY <1>5 DEF AddRefused, AfterError, Goto
<1>6. ASSUME NEW p \in Procs, AddStarts(p) PROVE PlaceInv'
  BY <1>6 DEF AddStarts, Unborn, Goto
<1>7. ASSUME NEW p \in Procs, AddAppends(p) PROVE PlaceInv'
  BY <1>7 DEF AddAppends, AfterAdd, ClearFailure, Goto
<1>8. ASSUME NEW p \in Procs, HandshakeFails(p) PROVE PlaceInv'
  BY <1>8 DEF HandshakeFails, CloseClient, AfterError, Goto
<1>9. ASSUME NEW p \in Procs, HandshakeOk(p) PROVE PlaceInv'
  BY <1>9 DEF HandshakeOk, Goto
<1>10. ASSUME NEW p \in Procs, SpawnFailed(p) PROVE PlaceInv'
  BY <1>10 DEF SpawnFailed, Goto
<1>11. ASSUME NEW p \in Procs, Publish(p) PROVE PlaceInv'
  BY <1>11 DEF Publish, RemovePrefix, Goto
<1>12. ASSUME NEW p \in Procs, Swap(p) PROVE PlaceInv'
  BY <1>12 DEF Swap, Installed, AddReal, Goto
<1>13. ASSUME NEW i \in Conns, FetchDone(i) PROVE PlaceInv'
  BY <1>13 DEF FetchDone
<1>14. ASSUME NEW e \in Execs, Lookup(e) PROVE PlaceInv'
  BY <1>14 DEF Lookup, Goto
<1>15. ASSUME NEW e \in Execs, Forward(e) PROVE PlaceInv'
  BY <1>15 DEF Forward, Asks, Goto
<1>16. ASSUME NEW e \in Execs, Refuse(e) PROVE PlaceInv'
  BY <1>16 DEF Refuse, Asks, Goto
<1>17. ASSUME NEW e \in Execs, SpawnAsync(e) PROVE PlaceInv'
  BY <1>17 DEF SpawnAsync, Asks, InFlight
<1>18. ASSUME NEW e \in Execs, SpawnHere(e) PROVE PlaceInv'
  BY <1>18 DEF SpawnHere, Asks, InFlight, Goto
<1>19. ASSUME NEW e \in Execs, RealReturns(e) PROVE PlaceInv'
  BY <1>19 DEF RealReturns, Unlock, Goto
<1>20. ASSUME NEW u \in Users, Connect(u) PROVE PlaceInv'
  BY <1>20 DEF Connect, MayCommand, Goto
<1>21. ASSUME NEW u \in Users, RemoveServer(u) PROVE PlaceInv'
  <2>1. CASE clients # <<>>
    BY <1>21, <2>1, ListedShrinks DEF RemoveServer, MayCommand, Goto, LinkTypes
  <2>2. CASE clients = <<>>
    BY <1>21, <2>2 DEF RemoveServer, MayCommand, Goto
  <2> QED
    BY <2>1, <2>2
<1>22. ASSUME NEW u \in Users, ConnectDrops(u) PROVE PlaceInv'
  BY <1>22 DEF ConnectDrops, RemovePrefix, Goto
<1>23. ASSUME NEW u \in Users, ConnectAdds(u) PROVE PlaceInv'
  BY <1>23 DEF ConnectAdds, AddReal, Goto
<1>24. ASSUME NEW u \in Users, RemoveCloses(u) PROVE PlaceInv'
  BY <1>24 DEF RemoveCloses, CloseClient, Goto
<1>25. ASSUME NEW u \in Users, RemoveUnregisters(u) PROVE PlaceInv'
  BY <1>25 DEF RemoveUnregisters, RemovePrefix, Goto
<1>26. CASE UNCHANGED vars
  BY <1>26 DEF vars
<1> HIDE DEF ProcTypes, PlaceInv, SpawnLabels
<1> QED
  BY <1>1, <1>2, <1>3, <1>4, <1>5, <1>6, <1>7, <1>8, <1>9, <1>10, <1>11,
     <1>12, <1>13, <1>14, <1>15, <1>16, <1>17, <1>18, <1>19, <1>20, <1>21,
     <1>22, <1>23, <1>24, <1>25, <1>26
     DEF Next, Add, Handshake, Spawning, Ask, Commanding

LEMMA StepSpawn == IInv /\ [Next]_vars => SpawnInv'
<1> SUFFICES ASSUME IInv, [Next]_vars PROVE SpawnInv'
  OBVIOUS
<1> USE Sorts DEF ProcTypes, PlaceInv, SpawnInv, SpawnLabels
<1> ProcTypes /\ PlaceInv /\ SpawnInv /\ ScalarTypes /\ LinkTypes /\ BootInv
  BY DEF IInv, Types
<1>1. ASSUME EagerUp PROVE SpawnInv'
  BY <1>1 DEF EagerUp, AddReal
<1>2. ASSUME EagerFails PROVE SpawnInv'
  BY <1>2 DEF EagerFails
<1>3. ASSUME Kick PROVE SpawnInv'
  <2>1. CASE tier = "background"
    BY <1>3, <2>1 DEF Kick, Goto, BootInv
  <2>2. CASE tier # "background"
    BY <1>3, <2>2 DEF Kick
  <2> QED
    BY <2>1, <2>2
<1>4. ASSUME RegisterDeferred PROVE SpawnInv'
  BY <1>4 DEF RegisterDeferred, Placeheld
<1>5. ASSUME NEW p \in Procs, AddRefused(p) PROVE SpawnInv'
  BY <1>5 DEF AddRefused, AfterError, Goto
<1>6. ASSUME NEW p \in Procs, AddStarts(p) PROVE SpawnInv'
  BY <1>6 DEF AddStarts, Unborn, Goto
<1>7. ASSUME NEW p \in Procs, AddAppends(p) PROVE SpawnInv'
  BY <1>7 DEF AddAppends, AfterAdd, ClearFailure, Goto
<1>8. ASSUME NEW p \in Procs, HandshakeFails(p) PROVE SpawnInv'
  BY <1>8 DEF HandshakeFails, CloseClient, AfterError, Goto
<1>9. ASSUME NEW p \in Procs, HandshakeOk(p) PROVE SpawnInv'
  BY <1>9 DEF HandshakeOk, Goto
<1>10. ASSUME NEW p \in Procs, SpawnFailed(p) PROVE SpawnInv'
  BY <1>10 DEF SpawnFailed, Goto
<1>11. ASSUME NEW p \in Procs, Publish(p) PROVE SpawnInv'
  BY <1>11 DEF Publish, RemovePrefix, Goto
<1>12. ASSUME NEW p \in Procs, Swap(p) PROVE SpawnInv'
  BY <1>12 DEF Swap, Installed, AddReal, Goto
<1>13. ASSUME NEW i \in Conns, FetchDone(i) PROVE SpawnInv'
  BY <1>13 DEF FetchDone
<1>14. ASSUME NEW e \in Execs, Lookup(e) PROVE SpawnInv'
  BY <1>14 DEF Lookup, Goto
<1>15. ASSUME NEW e \in Execs, Forward(e) PROVE SpawnInv'
  BY <1>15 DEF Forward, Asks, Goto
<1>16. ASSUME NEW e \in Execs, Refuse(e) PROVE SpawnInv'
  BY <1>16 DEF Refuse, Asks, Goto
<1>17. ASSUME NEW e \in Execs, SpawnAsync(e) PROVE SpawnInv'
  BY <1>17 DEF SpawnAsync, Asks, InFlight
<1>18. ASSUME NEW e \in Execs, SpawnHere(e) PROVE SpawnInv'
  BY <1>18 DEF SpawnHere, Asks, InFlight, Goto
<1>19. ASSUME NEW e \in Execs, RealReturns(e) PROVE SpawnInv'
  BY <1>19 DEF RealReturns, Unlock, Goto
<1>20. ASSUME NEW u \in Users, Connect(u) PROVE SpawnInv'
  BY <1>20 DEF Connect, MayCommand, Goto
<1>21. ASSUME NEW u \in Users, RemoveServer(u) PROVE SpawnInv'
  <2>1. /\ UNCHANGED spawn
        /\ \A q \in Procs \ {u} : pc'[q] = pc[q]
    BY <1>21 DEF RemoveServer, Goto
  <2>2. \A q \in Spawners : pc'[q] = pc[q]
    BY <2>1
  <2>3. spawnMu # Free => spawnMu \in Spawners
    BY DEF ScalarTypes
  <2> QED
    BY <2>1, <2>2, <2>3
<1>22. ASSUME NEW u \in Users, ConnectDrops(u) PROVE SpawnInv'
  BY <1>22 DEF ConnectDrops, RemovePrefix, Goto
<1>23. ASSUME NEW u \in Users, ConnectAdds(u) PROVE SpawnInv'
  BY <1>23 DEF ConnectAdds, AddReal, Goto
<1>24. ASSUME NEW u \in Users, RemoveCloses(u) PROVE SpawnInv'
  BY <1>24 DEF RemoveCloses, CloseClient, Goto
<1>25. ASSUME NEW u \in Users, RemoveUnregisters(u) PROVE SpawnInv'
  BY <1>25 DEF RemoveUnregisters, RemovePrefix, Goto
<1>26. CASE UNCHANGED vars
  BY <1>26 DEF vars
<1> HIDE DEF ProcTypes, PlaceInv, SpawnInv, SpawnLabels
<1> QED
  BY <1>1, <1>2, <1>3, <1>4, <1>5, <1>6, <1>7, <1>8, <1>9, <1>10, <1>11,
     <1>12, <1>13, <1>14, <1>15, <1>16, <1>17, <1>18, <1>19, <1>20, <1>21,
     <1>22, <1>23, <1>24, <1>25, <1>26
     DEF Next, Add, Handshake, Spawning, Ask, Commanding

LEMMA StepBoot == IInv /\ [Next]_vars => BootInv'
<1> SUFFICES ASSUME IInv, [Next]_vars PROVE BootInv'
  OBVIOUS
<1> USE Sorts, Numbers DEF ProcTypes, BootInv
<1> ProcTypes /\ PlaceInv /\ SpawnInv /\ BootInv /\ LinkTypes /\ NameTypes /\ ScalarTypes
  BY DEF IInv, Types
<1>1. ASSUME EagerUp PROVE BootInv'
  BY <1>1 DEF EagerUp, AddReal
<1>2. ASSUME EagerFails PROVE BootInv'
  BY <1>2 DEF EagerFails
<1>3. ASSUME Kick PROVE BootInv'
  <2>1. CASE tier = "background"
    BY <1>3, <2>1 DEF Kick, Goto
  <2>2. CASE tier # "background"
    BY <1>3, <2>2 DEF Kick
  <2> QED
    BY <2>1, <2>2
<1>4. ASSUME RegisterDeferred PROVE BootInv'
  BY <1>4 DEF RegisterDeferred, Placeheld
<1>5. ASSUME NEW p \in Procs, AddRefused(p) PROVE BootInv'
  <2>1. CASE boot = "done"
    BY <1>5, <2>1 DEF AddRefused
  <2>2. CASE boot # "done"
    <3>0. pc[p] # "idle" /\ boot' = boot
      BY <1>5 DEF AddRefused
    <3>1. p = Run /\ boot' = boot /\ boot = "register" /\ state # "idle"
      BY <2>2, <3>0 DEF ScalarTypes, SpawnInv
    <3> QED
      BY <1>5, <2>2, <3>1 DEF AddRefused, AfterError, Goto, SpawnInv, SpawnLabels, NameTypes,
         Tools
  <2> QED
    BY <2>1, <2>2
<1>6. ASSUME NEW p \in Procs, AddStarts(p) PROVE BootInv'
  <2>1. CASE boot = "done"
    BY <1>6, <2>1 DEF AddStarts
  <2>2. CASE boot # "done"
    <3>0. pc[p] # "idle" /\ boot' = boot
      BY <1>6 DEF AddStarts
    <3>1. p = Run /\ boot' = boot /\ boot = "register" /\ state # "idle"
      BY <2>2, <3>0 DEF ScalarTypes, SpawnInv
    <3> QED
      BY <1>6, <2>2, <3>1 DEF AddStarts, Unborn, Goto, SpawnInv, SpawnLabels, NameTypes, Tools
  <2> QED
    BY <2>1, <2>2
<1>7. ASSUME NEW p \in Procs, AddAppends(p) PROVE BootInv'
  <2>1. CASE boot = "done"
    BY <1>7, <2>1 DEF AddAppends
  <2>2. CASE boot # "done"
    <3>0. pc[p] # "idle" /\ boot' = boot
      BY <1>7 DEF AddAppends
    <3>1. p = Run /\ boot' = boot /\ boot = "register" /\ state # "idle"
      BY <2>2, <3>0 DEF ScalarTypes, SpawnInv
    <3> QED
      BY <1>7, <2>2, <3>1 DEF AddAppends, AfterAdd, ClearFailure, Goto, SpawnInv, SpawnLabels,
         NameTypes, Tools
  <2> QED
    BY <2>1, <2>2
<1>8. ASSUME NEW p \in Procs, HandshakeFails(p) PROVE BootInv'
  <2>1. CASE boot = "done"
    BY <1>8, <2>1 DEF HandshakeFails
  <2>2. CASE boot # "done"
    <3>0. pc[p] # "idle" /\ boot' = boot
      BY <1>8 DEF HandshakeFails
    <3>1. p = Run /\ boot' = boot /\ boot = "register" /\ state # "idle"
      BY <2>2, <3>0 DEF ScalarTypes, SpawnInv
    <3> QED
      BY <1>8, <2>2, <3>1 DEF HandshakeFails, CloseClient, AfterError, Goto, SpawnInv,
         SpawnLabels, NameTypes, Tools
  <2> QED
    BY <2>1, <2>2
<1>9. ASSUME NEW p \in Procs, HandshakeOk(p) PROVE BootInv'
  <2>1. CASE boot = "done"
    BY <1>9, <2>1 DEF HandshakeOk
  <2>2. CASE boot # "done"
    <3>0. pc[p] # "idle" /\ boot' = boot
      BY <1>9 DEF HandshakeOk
    <3>1. p = Run /\ boot' = boot /\ boot = "register" /\ state # "idle"
      BY <2>2, <3>0 DEF ScalarTypes, SpawnInv
    <3> QED
      BY <1>9, <2>2, <3>1 DEF HandshakeOk, Goto, SpawnInv, SpawnLabels, NameTypes, Tools
  <2> QED
    BY <2>1, <2>2
<1>10. ASSUME NEW p \in Procs, SpawnFailed(p) PROVE BootInv'
  <2>1. CASE boot = "done"
    BY <1>10, <2>1 DEF SpawnFailed
  <2>2. CASE boot # "done"
    <3>0. pc[p] # "idle" /\ boot' = boot
      BY <1>10 DEF SpawnFailed
    <3>1. p = Run /\ boot' = boot /\ boot = "register" /\ state # "idle"
      BY <2>2, <3>0 DEF ScalarTypes, SpawnInv
    <3> QED
      BY <1>10, <2>2, <3>1 DEF SpawnFailed, Goto, SpawnInv, SpawnLabels, NameTypes, Tools
  <2> QED
    BY <2>1, <2>2
<1>11. ASSUME NEW p \in Procs, Publish(p) PROVE BootInv'
  <2>1. CASE boot = "done"
    BY <1>11, <2>1 DEF Publish
  <2>2. CASE boot # "done"
    <3>0. pc[p] # "idle" /\ boot' = boot
      BY <1>11 DEF Publish
    <3>1. p = Run /\ boot' = boot /\ boot = "register" /\ state # "idle"
      BY <2>2, <3>0 DEF ScalarTypes, SpawnInv
    <3> QED
      BY <1>11, <2>2, <3>1 DEF Publish, RemovePrefix, Goto, SpawnInv, SpawnLabels, NameTypes,
         Tools
  <2> QED
    BY <2>1, <2>2
<1>12. ASSUME NEW p \in Procs, Swap(p) PROVE BootInv'
  <2>1. CASE boot = "done"
    BY <1>12, <2>1 DEF Swap
  <2>2. CASE boot # "done"
    <3>0. pc[p] # "idle" /\ boot' = boot
      BY <1>12 DEF Swap
    <3>1. p = Run /\ boot' = boot /\ boot = "register" /\ state # "idle"
      BY <2>2, <3>0 DEF ScalarTypes, SpawnInv
    <3> QED
      BY <1>12, <2>2, <3>1 DEF Swap, Installed, AddReal, Goto, SpawnInv, SpawnLabels, NameTypes,
         Tools
  <2> QED
    BY <2>1, <2>2
<1>13. ASSUME NEW i \in Conns, FetchDone(i) PROVE BootInv'
  BY <1>13 DEF FetchDone
<1>14. ASSUME NEW e \in Execs, Lookup(e) PROVE BootInv'
  BY <1>14 DEF Lookup, Goto
<1>15. ASSUME NEW e \in Execs, Forward(e) PROVE BootInv'
  BY <1>15 DEF Forward, Asks, Goto
<1>16. ASSUME NEW e \in Execs, Refuse(e) PROVE BootInv'
  BY <1>16 DEF Refuse, Asks, Goto
<1>17. ASSUME NEW e \in Execs, SpawnAsync(e) PROVE BootInv'
  BY <1>17 DEF SpawnAsync, Asks, InFlight
<1>18. ASSUME NEW e \in Execs, SpawnHere(e) PROVE BootInv'
  BY <1>18 DEF SpawnHere, Asks, InFlight, Goto
<1>19. ASSUME NEW e \in Execs, RealReturns(e) PROVE BootInv'
  BY <1>19 DEF RealReturns, Unlock, Goto
<1>20. ASSUME NEW u \in Users, Connect(u) PROVE BootInv'
  BY <1>20 DEF Connect, MayCommand, Goto
<1>21. ASSUME NEW u \in Users, RemoveServer(u) PROVE BootInv'
  BY <1>21 DEF RemoveServer, MayCommand, ClearFailure, Goto
<1>22. ASSUME NEW u \in Users, ConnectDrops(u) PROVE BootInv'
  BY <1>22 DEF ConnectDrops, RemovePrefix, Goto
<1>23. ASSUME NEW u \in Users, ConnectAdds(u) PROVE BootInv'
  BY <1>23 DEF ConnectAdds, AddReal, Goto
<1>24. ASSUME NEW u \in Users, RemoveCloses(u) PROVE BootInv'
  BY <1>24 DEF RemoveCloses, CloseClient, Goto
<1>25. ASSUME NEW u \in Users, RemoveUnregisters(u) PROVE BootInv'
  BY <1>25 DEF RemoveUnregisters, RemovePrefix, Goto
<1>26. CASE UNCHANGED vars
  BY <1>26 DEF vars
<1> HIDE DEF ProcTypes, BootInv
<1> QED
  BY <1>1, <1>2, <1>3, <1>4, <1>5, <1>6, <1>7, <1>8, <1>9, <1>10, <1>11,
     <1>12, <1>13, <1>14, <1>15, <1>16, <1>17, <1>18, <1>19, <1>20, <1>21,
     <1>22, <1>23, <1>24, <1>25, <1>26
     DEF Next, Add, Handshake, Spawning, Ask, Commanding

(* A step of goroutines that hold no connection, before or after it.       *)
LEMMA Moves ==
  ASSUME OwnerInv, HostIsHonest, NEW S \in SUBSET Procs,
         \A q \in S : pc[q] \notin Holding /\ pc'[q] \notin Holding,
         \A q \in Procs \ S : pc'[q] = pc[q] /\ mine'[q] = mine[q],
         UNCHANGED <<clients, conn, failed>>
  PROVE  (OwnerInv /\ HostIsHonest)'
<1>1. Listed' = Listed /\ NoDuplicates'
  BY ListedSame DEF NoDuplicates, OwnerInv
<1>2. \A p \in Procs : pc'[p] \in Holding => p \notin S
  OBVIOUS
<1>3. \A p \in Procs : pc[p] \in Holding => p \notin S
  OBVIOUS
<1>4. OwnerInv'
  BY <1>1, <1>2 DEF OwnerInv, Holding
<1>5. HostIsHonest'
  BY <1>1, <1>3 DEF HostIsHonest, HeldBy, Holding
<1> QED
  BY <1>4, <1>5

(* A step that concerns one connection and at most one goroutine with it.  *)
LEMMA Changes ==
  ASSUME OwnerInv, HostIsHonest, NEW p \in Procs, NEW i \in Conns,
         \A q \in Procs \ {p} : pc'[q] = pc[q] /\ mine'[q] = mine[q],
         \A q \in Procs \ {p} : pc[q] \in Holding => mine[q] # i,
         \A j \in Conns \ {i} : conn'[j] = conn[j],
         \A q \in Procs : pc[q] \in Holding => mine[q] \in Conns,
         Listed \subseteq Conns,
         Listed' \ {i} = Listed \ {i}, NoDuplicates', failed' => clients' = <<>>,
         pc[p] \in Holding => mine[p] = i,
         pc'[p] \in Holding => mine'[p] = i /\ i \notin Listed',
         pc'[p] = "handshake" <=> conn'[i] = "handshake",
         pc'[p] \in {"append", "close"} => conn'[i] = "up",
         i \in Listed' => conn'[i] = "up",
         conn'[i] = "up" => i \in Listed' \/ pc'[p] \in {"append", "close"}
  PROVE  (OwnerInv /\ HostIsHonest)'
<1>1. \A q \in Procs \ {p} : pc[q] \in Holding => mine[q] \in Conns \ {i}
  OBVIOUS
<1>2. OwnerInv'
  <2>1. ASSUME NEW q \in Procs, pc'[q] \in Holding
        PROVE  /\ pc'[q] = "handshake" => conn'[mine'[q]] = "handshake"
               /\ pc'[q] \in {"append", "close"} => conn'[mine'[q]] = "up"
               /\ mine'[q] \notin Listed'
    <3>1. CASE q = p
      BY <2>1, <3>1
    <3>2. CASE q # p
      BY <1>1, <2>1, <3>2 DEF OwnerInv, Holding
    <3> QED
      BY <3>1, <3>2
  <2>2. \A a, b \in Procs :
          pc'[a] \in Holding /\ pc'[b] \in Holding /\ mine'[a] = mine'[b] => a = b
    BY <1>1 DEF OwnerInv
  <2> QED
    BY <2>1, <2>2 DEF OwnerInv, Holding
<1>3. HostIsHonest'
  <2>1. \A j \in Listed' : conn'[j] = "up"
    BY DEF HostIsHonest
  <2>2. ASSUME NEW j \in Conns, conn'[j] = "up"
        PROVE  j \in Listed' \/ \E q \in Procs : HeldBy(q, {"append", "close"}, j)'
    <3>1. CASE j = i
      BY <2>2, <3>1 DEF HeldBy, Holding
    <3>2. CASE j # i
      BY <2>2, <3>2 DEF HostIsHonest, HeldBy, Holding
    <3> QED
      BY <3>1, <3>2
  <2>3. ASSUME NEW j \in Conns, conn'[j] = "handshake"
        PROVE  \E q \in Procs : HeldBy(q, {"handshake"}, j)'
    <3>1. CASE j = i
      BY <2>3, <3>1 DEF HeldBy, Holding
    <3>2. CASE j # i
      BY <2>3, <3>2 DEF HostIsHonest, HeldBy, Holding
    <3> QED
      BY <3>1, <3>2
  <2> QED
    BY <2>1, <2>2, <2>3 DEF HostIsHonest
<1> QED
  BY <1>2, <1>3

LEMMA StepOwner == IInv /\ [Next]_vars => (OwnerInv /\ HostIsHonest)'
<1> SUFFICES ASSUME IInv, [Next]_vars PROVE (OwnerInv /\ HostIsHonest)'
  OBVIOUS
<1> USE Sorts DEF ProcTypes
<1> ProcTypes /\ LinkTypes /\ PlaceInv /\ OwnerInv /\ HostIsHonest /\ BootInv /\ SpawnInv
  BY DEF IInv, Types
<1> Listed \subseteq Conns
  BY ListedIn DEF LinkTypes
<1> \A q \in Procs : pc[q] \in Holding => mine[q] \in Conns
  BY DEF PlaceInv, Holding
<1>1. ASSUME EagerUp PROVE (OwnerInv /\ HostIsHonest)'
  <2>1. /\ pc[Run] \notin Holding /\ conn[1] = "unborn" /\ clients = <<>> /\ 1 \in Conns
        /\ Listed = {} /\ pc'[Run] \notin Holding
    BY <1>1, Sorts, Numbers DEF EagerUp, BootInv, SpawnInv, Holding, Listed
  <2>a. Listed' = {1} /\ NoDuplicates' /\ ~failed' /\ conn'[1] = "up"
    BY <1>1, <2>1 DEF EagerUp, Listed, NoDuplicates, LinkTypes, BootInv
  <2>2. /\ \A q \in Procs \ {Run} : pc'[q] = pc[q] /\ mine'[q] = mine[q]
        /\ \A j \in Conns \ {1} : conn'[j] = conn[j]
        /\ pc[Run] \in Holding => mine[Run] = 1
    BY <1>1, <2>1 DEF EagerUp, ProcTypes, LinkTypes, Holding
  <2>3. \A q \in Procs \ {Run} : pc[q] \in Holding => mine[q] # 1
    BY <1>1, <2>1 DEF OwnerInv, Holding
  <2>4. /\ Listed' \ {1} = Listed \ {1} /\ NoDuplicates' /\ (failed' => clients' = <<>>)
        /\ (pc'[Run] \in Holding => mine'[Run] = 1 /\ 1 \notin Listed')
        /\ (1 \in Listed' => conn'[1] = "up")
    BY <2>1, <2>a
  <2>5. /\ pc'[Run] = "handshake" <=> conn'[1] = "handshake"
        /\ pc'[Run] \in {"append", "close"} => conn'[1] = "up"
        /\ conn'[1] = "up" => 1 \in Listed' \/ pc'[Run] \in {"append", "close"}
    BY <2>1, <2>a DEF Holding
  <2> QED
    BY <2>1, <2>2, <2>3, <2>4, <2>5, Changes
<1>2. ASSUME EagerFails PROVE (OwnerInv /\ HostIsHonest)'
  <2>1. /\ pc[Run] \notin Holding /\ conn[1] = "unborn" /\ clients = <<>> /\ 1 \in Conns
        /\ Listed = {} /\ pc'[Run] \notin Holding
    BY <1>2, Sorts, Numbers DEF EagerFails, BootInv, SpawnInv, Holding, Listed
  <2>a. Listed' = {} /\ NoDuplicates' /\ clients' = <<>> /\ conn'[1] = "closed"
    BY <1>2, <2>1 DEF EagerFails, Listed, NoDuplicates, LinkTypes
  <2>2. /\ \A q \in Procs \ {Run} : pc'[q] = pc[q] /\ mine'[q] = mine[q]
        /\ \A j \in Conns \ {1} : conn'[j] = conn[j]
        /\ pc[Run] \in Holding => mine[Run] = 1
    BY <1>2, <2>1 DEF EagerFails, ProcTypes, LinkTypes, Holding
  <2>3. \A q \in Procs \ {Run} : pc[q] \in Holding => mine[q] # 1
    BY <1>2, <2>1 DEF OwnerInv, Holding
  <2>4. /\ Listed' \ {1} = Listed \ {1} /\ NoDuplicates' /\ (failed' => clients' = <<>>)
        /\ (pc'[Run] \in Holding => mine'[Run] = 1 /\ 1 \notin Listed')
        /\ (1 \in Listed' => conn'[1] = "up")
    BY <2>1, <2>a
  <2>5. /\ pc'[Run] = "handshake" <=> conn'[1] = "handshake"
        /\ pc'[Run] \in {"append", "close"} => conn'[1] = "up"
        /\ conn'[1] = "up" => 1 \in Listed' \/ pc'[Run] \in {"append", "close"}
    BY <2>1, <2>a DEF Holding
  <2> QED
    BY <2>1, <2>2, <2>3, <2>4, <2>5, Changes
<1>3. ASSUME Kick PROVE (OwnerInv /\ HostIsHonest)'
  <2>1. /\ {Run} \in SUBSET Procs /\ UNCHANGED <<clients, conn, failed>>
        /\ \A q \in {Run} : pc[q] \notin Holding /\ pc'[q] \notin Holding
        /\ \A q \in Procs \ {Run} : pc'[q] = pc[q] /\ mine'[q] = mine[q]
    BY <1>3 DEF Kick, Goto, BootInv, SpawnInv, Holding
  <2> QED
    BY <2>1, Moves
<1>4. ASSUME RegisterDeferred PROVE (OwnerInv /\ HostIsHonest)'
  <2>1. /\ {} \in SUBSET Procs /\ UNCHANGED <<clients, conn, failed>>
        /\ \A q \in {} : pc[q] \notin Holding /\ pc'[q] \notin Holding
        /\ \A q \in Procs \ {} : pc'[q] = pc[q] /\ mine'[q] = mine[q]
    BY <1>4 DEF RegisterDeferred, Placeheld, Holding
  <2> QED
    BY <2>1, Moves
<1>5. ASSUME NEW p \in Procs, AddRefused(p) PROVE (OwnerInv /\ HostIsHonest)'
  <2>1. /\ {p} \in SUBSET Procs /\ UNCHANGED <<clients, conn, failed>>
        /\ \A q \in {p} : pc[q] \notin Holding /\ pc'[q] \notin Holding
        /\ \A q \in Procs \ {p} : pc'[q] = pc[q] /\ mine'[q] = mine[q]
    BY <1>5 DEF AddRefused, AfterError, Goto, Holding
  <2> QED
    BY <2>1, Moves
<1>6. ASSUME NEW p \in Procs, AddStarts(p) PROVE (OwnerInv /\ HostIsHonest)'
  <2>1. PICK i \in Conns : /\ conn[i] = "unborn"
                         /\ conn' = [conn EXCEPT ![i] = "handshake"]
                         /\ mine' = [mine EXCEPT ![p] = i]
    BY <1>6 DEF AddStarts, Unborn
  <2>2. /\ \A q \in Procs \ {p} : pc'[q] = pc[q] /\ mine'[q] = mine[q]
        /\ \A j \in Conns \ {i} : conn'[j] = conn[j]
        /\ pc[p] \in Holding => mine[p] = i
    BY <1>6, <2>1 DEF AddStarts, Goto, ProcTypes, LinkTypes, Holding
  <2>3. \A q \in Procs \ {p} : pc[q] \in Holding => mine[q] # i
    BY <2>1, <2>2 DEF OwnerInv, Holding
  <2>4. /\ Listed' \ {i} = Listed \ {i} /\ NoDuplicates' /\ (failed' => clients' = <<>>)
        /\ (pc'[p] \in Holding => mine'[p] = i /\ i \notin Listed')
        /\ (i \in Listed' => conn'[i] = "up")
    BY <1>6, <2>1, ListedSame DEF AddStarts, Goto, Listed, NoDuplicates, ProcTypes
  <2>5. /\ pc'[p] = "handshake" <=> conn'[i] = "handshake"
        /\ pc'[p] \in {"append", "close"} => conn'[i] = "up"
        /\ conn'[i] = "up" => i \in Listed' \/ pc'[p] \in {"append", "close"}
    BY <1>6, <2>1 DEF AddStarts, Goto, ProcTypes, LinkTypes
  <2> QED
    BY <2>1, <2>2, <2>3, <2>4, <2>5, Changes
<1>7. ASSUME NEW p \in Procs, AddAppends(p) PROVE (OwnerInv /\ HostIsHonest)'
  <2>1. mine[p] \in Conns /\ mine[p] \notin Listed /\ conn[mine[p]] = "up"
    BY <1>7 DEF AddAppends, OwnerInv, Holding
  <2>a. /\ Listed' = Listed \cup {mine[p]} /\ NoDuplicates' /\ ~failed'
        /\ pc'[p] \notin Holding /\ conn' = conn
    BY <1>7, <2>1, ListedGrows
    DEF AddAppends, AfterAdd, ClearFailure, Goto, Holding, ProcTypes, LinkTypes, OwnerInv
  <2>2. /\ \A q \in Procs \ {p} : pc'[q] = pc[q] /\ mine'[q] = mine[q]
        /\ \A j \in Conns \ {mine[p]} : conn'[j] = conn[j]
        /\ pc[p] \in Holding => mine[p] = mine[p]
    BY <1>7, <2>1 DEF AddAppends, AfterAdd, Goto, ProcTypes, LinkTypes, Holding
  <2>3. \A q \in Procs \ {p} : pc[q] \in Holding => mine[q] # mine[p]
    BY <1>7, <2>1 DEF AddAppends, OwnerInv, Holding
  <2>4. /\ Listed' \ {mine[p]} = Listed \ {mine[p]} /\ NoDuplicates' /\ (failed' => clients' = <<>>)
        /\ (pc'[p] \in Holding => mine'[p] = mine[p] /\ mine[p] \notin Listed')
        /\ (mine[p] \in Listed' => conn'[mine[p]] = "up")
    BY <2>1, <2>a
  <2>5. /\ pc'[p] = "handshake" <=> conn'[mine[p]] = "handshake"
        /\ pc'[p] \in {"append", "close"} => conn'[mine[p]] = "up"
        /\ conn'[mine[p]] = "up" => mine[p] \in Listed' \/ pc'[p] \in {"append", "close"}
    BY <2>1, <2>a DEF Holding
  <2> QED
    BY <2>1, <2>2, <2>3, <2>4, <2>5, Changes
<1>8. ASSUME NEW p \in Procs, HandshakeFails(p)
      PROVE  (OwnerInv /\ HostIsHonest)'
  <2>1. mine[p] \in Conns /\ mine[p] \notin Listed /\ conn[mine[p]] = "handshake"
    BY <1>8 DEF HandshakeFails, OwnerInv, Holding
  <2>2. /\ \A q \in Procs \ {p} : pc'[q] = pc[q] /\ mine'[q] = mine[q]
        /\ \A j \in Conns \ {mine[p]} : conn'[j] = conn[j]
        /\ pc[p] \in Holding => mine[p] = mine[p]
    BY <1>8, <2>1 DEF HandshakeFails, CloseClient, AfterError, Goto, ProcTypes, LinkTypes, Holding
  <2>3. \A q \in Procs \ {p} : pc[q] \in Holding => mine[q] # mine[p]
    BY <1>8, <2>1 DEF HandshakeFails, OwnerInv, Holding
  <2>4. /\ Listed' \ {mine[p]} = Listed \ {mine[p]} /\ NoDuplicates' /\ (failed' => clients' = <<>>)
        /\ (pc'[p] \in Holding => mine'[p] = mine[p] /\ mine[p] \notin Listed')
        /\ (mine[p] \in Listed' => conn'[mine[p]] = "up")
    BY <1>8, <2>1, ListedSame DEF HandshakeFails, CloseClient, AfterError, Goto, NoDuplicates,
       OwnerInv, HostIsHonest, Holding, ProcTypes, LinkTypes
  <2>5. /\ pc'[p] = "handshake" <=> conn'[mine[p]] = "handshake"
        /\ pc'[p] \in {"append", "close"} => conn'[mine[p]] = "up"
        /\ conn'[mine[p]] = "up" => mine[p] \in Listed' \/ pc'[p] \in {"append", "close"}
    BY <1>8, <2>1 DEF HandshakeFails, CloseClient, AfterError, Goto, ProcTypes, LinkTypes
  <2> QED
    BY <2>1, <2>2, <2>3, <2>4, <2>5, Changes
<1>9. ASSUME NEW p \in Procs, HandshakeOk(p) PROVE (OwnerInv /\ HostIsHonest)'
  <2>1. mine[p] \in Conns /\ mine[p] \notin Listed /\ conn[mine[p]] = "handshake"
    BY <1>9 DEF HandshakeOk, OwnerInv, Holding
  <2>2. /\ \A q \in Procs \ {p} : pc'[q] = pc[q] /\ mine'[q] = mine[q]
        /\ \A j \in Conns \ {mine[p]} : conn'[j] = conn[j]
        /\ pc[p] \in Holding => mine[p] = mine[p]
    BY <1>9, <2>1 DEF HandshakeOk, Goto, ProcTypes, LinkTypes, Holding
  <2>3. \A q \in Procs \ {p} : pc[q] \in Holding => mine[q] # mine[p]
    BY <1>9, <2>1 DEF HandshakeOk, OwnerInv, Holding
  <2>4. /\ Listed' \ {mine[p]} = Listed \ {mine[p]} /\ NoDuplicates' /\ (failed' => clients' = <<>>)
        /\ (pc'[p] \in Holding => mine'[p] = mine[p] /\ mine[p] \notin Listed')
        /\ (mine[p] \in Listed' => conn'[mine[p]] = "up")
    BY <1>9, <2>1, ListedSame DEF HandshakeOk, Goto, NoDuplicates, OwnerInv, HostIsHonest,
       Holding, ProcTypes, LinkTypes
  <2>5. /\ pc'[p] = "handshake" <=> conn'[mine[p]] = "handshake"
        /\ pc'[p] \in {"append", "close"} => conn'[mine[p]] = "up"
        /\ conn'[mine[p]] = "up" => mine[p] \in Listed' \/ pc'[p] \in {"append", "close"}
    BY <1>9, <2>1 DEF HandshakeOk, Goto, ProcTypes, LinkTypes
  <2> QED
    BY <2>1, <2>2, <2>3, <2>4, <2>5, Changes
<1>10. ASSUME NEW p \in Procs, SpawnFailed(p) PROVE (OwnerInv /\ HostIsHonest)'
  <2>1. /\ {p} \in SUBSET Procs /\ UNCHANGED <<clients, conn, failed>>
        /\ \A q \in {p} : pc[q] \notin Holding /\ pc'[q] \notin Holding
        /\ \A q \in Procs \ {p} : pc'[q] = pc[q] /\ mine'[q] = mine[q]
    BY <1>10 DEF SpawnFailed, Goto, Holding
  <2> QED
    BY <2>1, Moves
<1>11. ASSUME NEW p \in Procs, Publish(p) PROVE (OwnerInv /\ HostIsHonest)'
  <2>1. /\ {p} \in SUBSET Procs /\ UNCHANGED <<clients, conn, failed>>
        /\ \A q \in {p} : pc[q] \notin Holding /\ pc'[q] \notin Holding
        /\ \A q \in Procs \ {p} : pc'[q] = pc[q] /\ mine'[q] = mine[q]
    BY <1>11 DEF Publish, RemovePrefix, Goto, Holding
  <2> QED
    BY <2>1, Moves
<1>12. ASSUME NEW p \in Procs, Swap(p) PROVE (OwnerInv /\ HostIsHonest)'
  <2>1. /\ {p} \in SUBSET Procs /\ UNCHANGED <<clients, conn, failed>>
        /\ \A q \in {p} : pc[q] \notin Holding /\ pc'[q] \notin Holding
        /\ \A q \in Procs \ {p} : pc'[q] = pc[q] /\ mine'[q] = mine[q]
    BY <1>12 DEF Swap, Installed, AddReal, Goto, Holding
  <2> QED
    BY <2>1, Moves
<1>13. ASSUME NEW i \in Conns, FetchDone(i) PROVE (OwnerInv /\ HostIsHonest)'
  <2>1. /\ {} \in SUBSET Procs /\ UNCHANGED <<clients, conn, failed>>
        /\ \A q \in {} : pc[q] \notin Holding /\ pc'[q] \notin Holding
        /\ \A q \in Procs \ {} : pc'[q] = pc[q] /\ mine'[q] = mine[q]
    BY <1>13 DEF FetchDone, Holding
  <2> QED
    BY <2>1, Moves
<1>14. ASSUME NEW e \in Execs, Lookup(e) PROVE (OwnerInv /\ HostIsHonest)'
  <2>1. /\ {e} \in SUBSET Procs /\ UNCHANGED <<clients, conn, failed>>
        /\ \A q \in {e} : pc[q] \notin Holding /\ pc'[q] \notin Holding
        /\ \A q \in Procs \ {e} : pc'[q] = pc[q] /\ mine'[q] = mine[q]
    BY <1>14 DEF Lookup, Goto, Holding
  <2> QED
    BY <2>1, Moves
<1>15. ASSUME NEW e \in Execs, Forward(e) PROVE (OwnerInv /\ HostIsHonest)'
  <2>1. /\ {e} \in SUBSET Procs /\ UNCHANGED <<clients, conn, failed>>
        /\ \A q \in {e} : pc[q] \notin Holding /\ pc'[q] \notin Holding
        /\ \A q \in Procs \ {e} : pc'[q] = pc[q] /\ mine'[q] = mine[q]
    BY <1>15 DEF Forward, Asks, Goto, Holding
  <2> QED
    BY <2>1, Moves
<1>16. ASSUME NEW e \in Execs, Refuse(e) PROVE (OwnerInv /\ HostIsHonest)'
  <2>1. /\ {e} \in SUBSET Procs /\ UNCHANGED <<clients, conn, failed>>
        /\ \A q \in {e} : pc[q] \notin Holding /\ pc'[q] \notin Holding
        /\ \A q \in Procs \ {e} : pc'[q] = pc[q] /\ mine'[q] = mine[q]
    BY <1>16 DEF Refuse, Asks, Goto, Holding
  <2> QED
    BY <2>1, Moves
<1>17. ASSUME NEW e \in Execs, SpawnAsync(e) PROVE (OwnerInv /\ HostIsHonest)'
  <2>1. /\ {e, Run} \in SUBSET Procs /\ UNCHANGED <<clients, conn, failed>>
        /\ \A q \in {e, Run} : pc[q] \notin Holding /\ pc'[q] \notin Holding
        /\ \A q \in Procs \ {e, Run} : pc'[q] = pc[q] /\ mine'[q] = mine[q]
    BY <1>17 DEF SpawnAsync, Asks, InFlight, SpawnInv, Holding
  <2> QED
    BY <2>1, Moves
<1>18. ASSUME NEW e \in Execs, SpawnHere(e) PROVE (OwnerInv /\ HostIsHonest)'
  <2>1. /\ {e} \in SUBSET Procs /\ UNCHANGED <<clients, conn, failed>>
        /\ \A q \in {e} : pc[q] \notin Holding /\ pc'[q] \notin Holding
        /\ \A q \in Procs \ {e} : pc'[q] = pc[q] /\ mine'[q] = mine[q]
    BY <1>18 DEF SpawnHere, Asks, InFlight, Goto, Holding
  <2> QED
    BY <2>1, Moves
<1>19. ASSUME NEW e \in Execs, RealReturns(e) PROVE (OwnerInv /\ HostIsHonest)'
  <2>1. /\ {e} \in SUBSET Procs /\ UNCHANGED <<clients, conn, failed>>
        /\ \A q \in {e} : pc[q] \notin Holding /\ pc'[q] \notin Holding
        /\ \A q \in Procs \ {e} : pc'[q] = pc[q] /\ mine'[q] = mine[q]
    BY <1>19 DEF RealReturns, Unlock, Goto, Holding
  <2> QED
    BY <2>1, Moves
<1>20. ASSUME NEW u \in Users, Connect(u) PROVE (OwnerInv /\ HostIsHonest)'
  <2>1. /\ {u} \in SUBSET Procs /\ UNCHANGED <<clients, conn, failed>>
        /\ \A q \in {u} : pc[q] \notin Holding /\ pc'[q] \notin Holding
        /\ \A q \in Procs \ {u} : pc'[q] = pc[q] /\ mine'[q] = mine[q]
    BY <1>20 DEF Connect, MayCommand, Goto, Holding
  <2> QED
    BY <2>1, Moves
<1>21. ASSUME NEW u \in Users, RemoveServer(u)
      PROVE  (OwnerInv /\ HostIsHonest)'
  <2>1. CASE clients # <<>>
    <3>1. /\ clients # <<>> /\ clients[1] \in Listed /\ clients[1] \in Conns
          /\ pc[u] \notin Holding /\ conn[clients[1]] = "up"
      BY <1>21, <2>1, ListedShrinks DEF RemoveServer, MayCommand, Holding, LinkTypes, HostIsHonest
    <3>a. /\ Listed' \cup {clients[1]} = Listed /\ clients[1] \notin Listed' /\ NoDuplicates'
          /\ ~failed' /\ conn' = conn /\ pc'[u] = "close" /\ mine'[u] = clients[1]
      BY <1>21, <3>1, ListedShrinks
      DEF RemoveServer, ClearFailure, Goto, ProcTypes, LinkTypes, OwnerInv
    <3>2. /\ \A q \in Procs \ {u} : pc'[q] = pc[q] /\ mine'[q] = mine[q]
          /\ \A j \in Conns \ {clients[1]} : conn'[j] = conn[j]
          /\ pc[u] \in Holding => mine[u] = clients[1]
      BY <1>21, <3>1 DEF RemoveServer, Goto, ProcTypes, LinkTypes, Holding
    <3>3. \A q \in Procs \ {u} : pc[q] \in Holding => mine[q] # clients[1]
      BY <3>1 DEF OwnerInv
    <3>4. /\ Listed' \ {clients[1]} = Listed \ {clients[1]} /\ NoDuplicates' /\
               (failed' => clients' = <<>>)
          /\ (pc'[u] \in Holding => mine'[u] = clients[1] /\ clients[1] \notin Listed')
          /\ (clients[1] \in Listed' => conn'[clients[1]] = "up")
      BY <3>1, <3>a
    <3>5. /\ pc'[u] = "handshake" <=> conn'[clients[1]] = "handshake"
          /\ pc'[u] \in {"append", "close"} => conn'[clients[1]] = "up"
          /\ conn'[clients[1]] = "up" => clients[1] \in Listed' \/ pc'[u] \in {"append", "close"}
      BY <3>1, <3>a
    <3> QED
      BY <3>1, <3>2, <3>3, <3>4, <3>5, Changes
  <2>2. CASE clients = <<>>
    <3>1. /\ {u} \in SUBSET Procs /\ UNCHANGED <<clients, conn, failed>>
          /\ \A q \in {u} : pc[q] \notin Holding /\ pc'[q] \notin Holding
          /\ \A q \in Procs \ {u} : pc'[q] = pc[q] /\ mine'[q] = mine[q]
      BY <1>21, <2>2 DEF RemoveServer, MayCommand, Goto, Holding
    <3> QED
      BY <3>1, Moves
  <2> QED
    BY <2>1, <2>2
<1>22. ASSUME NEW u \in Users, ConnectDrops(u)
      PROVE  (OwnerInv /\ HostIsHonest)'
  <2>1. /\ {u} \in SUBSET Procs /\ UNCHANGED <<clients, conn, failed>>
        /\ \A q \in {u} : pc[q] \notin Holding /\ pc'[q] \notin Holding
        /\ \A q \in Procs \ {u} : pc'[q] = pc[q] /\ mine'[q] = mine[q]
    BY <1>22 DEF ConnectDrops, RemovePrefix, Goto, Holding
  <2> QED
    BY <2>1, Moves
<1>23. ASSUME NEW u \in Users, ConnectAdds(u) PROVE (OwnerInv /\ HostIsHonest)'
  <2>1. /\ {u} \in SUBSET Procs /\ UNCHANGED <<clients, conn, failed>>
        /\ \A q \in {u} : pc[q] \notin Holding /\ pc'[q] \notin Holding
        /\ \A q \in Procs \ {u} : pc'[q] = pc[q] /\ mine'[q] = mine[q]
    BY <1>23 DEF ConnectAdds, AddReal, Goto, Holding
  <2> QED
    BY <2>1, Moves
<1>24. ASSUME NEW u \in Users, RemoveCloses(u)
      PROVE  (OwnerInv /\ HostIsHonest)'
  <2>1. mine[u] \in Conns /\ mine[u] \notin Listed /\ conn[mine[u]] = "up"
    BY <1>24 DEF RemoveCloses, OwnerInv, Holding
  <2>2. /\ \A q \in Procs \ {u} : pc'[q] = pc[q] /\ mine'[q] = mine[q]
        /\ \A j \in Conns \ {mine[u]} : conn'[j] = conn[j]
        /\ pc[u] \in Holding => mine[u] = mine[u]
    BY <1>24, <2>1 DEF RemoveCloses, CloseClient, Goto, ProcTypes, LinkTypes, Holding
  <2>3. \A q \in Procs \ {u} : pc[q] \in Holding => mine[q] # mine[u]
    BY <1>24, <2>1 DEF RemoveCloses, OwnerInv, Holding
  <2>4. /\ Listed' \ {mine[u]} = Listed \ {mine[u]} /\ NoDuplicates' /\ (failed' => clients' = <<>>)
        /\ (pc'[u] \in Holding => mine'[u] = mine[u] /\ mine[u] \notin Listed')
        /\ (mine[u] \in Listed' => conn'[mine[u]] = "up")
    BY <1>24, <2>1, ListedSame DEF RemoveCloses, CloseClient, Goto, NoDuplicates, OwnerInv,
       HostIsHonest, Holding, ProcTypes, LinkTypes
  <2>5. /\ pc'[u] = "handshake" <=> conn'[mine[u]] = "handshake"
        /\ pc'[u] \in {"append", "close"} => conn'[mine[u]] = "up"
        /\ conn'[mine[u]] = "up" => mine[u] \in Listed' \/ pc'[u] \in {"append", "close"}
    BY <1>24, <2>1 DEF RemoveCloses, CloseClient, Goto, ProcTypes, LinkTypes
  <2> QED
    BY <2>1, <2>2, <2>3, <2>4, <2>5, Changes
<1>25. ASSUME NEW u \in Users, RemoveUnregisters(u)
      PROVE  (OwnerInv /\ HostIsHonest)'
  <2>1. /\ {u} \in SUBSET Procs /\ UNCHANGED <<clients, conn, failed>>
        /\ \A q \in {u} : pc[q] \notin Holding /\ pc'[q] \notin Holding
        /\ \A q \in Procs \ {u} : pc'[q] = pc[q] /\ mine'[q] = mine[q]
    BY <1>25 DEF RemoveUnregisters, RemovePrefix, Goto, Holding
  <2> QED
    BY <2>1, Moves
<1>26. CASE UNCHANGED vars
  <2>1. /\ {} \in SUBSET Procs /\ UNCHANGED <<clients, conn, failed>>
        /\ \A q \in {} : pc[q] \notin Holding /\ pc'[q] \notin Holding
        /\ \A q \in Procs \ {} : pc'[q] = pc[q] /\ mine'[q] = mine[q]
    BY <1>26 DEF vars, Holding
  <2> QED
    BY <2>1, Moves
<1> HIDE DEF ProcTypes
<1> QED
  BY <1>1, <1>2, <1>3, <1>4, <1>5, <1>6, <1>7, <1>8, <1>9, <1>10, <1>11,
     <1>12, <1>13, <1>14, <1>15, <1>16, <1>17, <1>18, <1>19, <1>20, <1>21,
     <1>22, <1>23, <1>24, <1>25, <1>26
     DEF Next, Add, Handshake, Spawning, Ask, Commanding

LEMMA StepNoRemoval == IInv /\ [Next]_vars => NoRemoval'
<1> SUFFICES ASSUME IInv, [Next]_vars PROVE NoRemoval'
  OBVIOUS
<1> USE Sorts DEF NoRemoval, Unremoved, ProcTypes
<1> ProcTypes /\ PlaceInv /\ UseInv /\ BootInv
  BY DEF IInv, Types
<1> NoRemoval
  BY DEF UseInv
<1>1. ASSUME EagerUp PROVE NoRemoval'
  BY <1>1 DEF EagerUp, AddReal
<1>2. ASSUME EagerFails PROVE NoRemoval'
  BY <1>2 DEF EagerFails
<1>3. ASSUME Kick PROVE NoRemoval'
  <2>1. CASE tier = "background"
    BY <1>3, <2>1 DEF Kick, Goto
  <2>2. CASE tier # "background"
    BY <1>3, <2>2 DEF Kick
  <2> QED
    BY <2>1, <2>2
<1>4. ASSUME RegisterDeferred PROVE NoRemoval'
  BY <1>4 DEF RegisterDeferred, Placeheld
<1>5. ASSUME NEW p \in Procs, AddRefused(p) PROVE NoRemoval'
  BY <1>5 DEF AddRefused, AfterError, Goto
<1>6. ASSUME NEW p \in Procs, AddStarts(p) PROVE NoRemoval'
  BY <1>6 DEF AddStarts, Unborn, Goto
<1>7. ASSUME NEW p \in Procs, AddAppends(p) PROVE NoRemoval'
  BY <1>7 DEF AddAppends, AfterAdd, ClearFailure, Goto
<1>8. ASSUME NEW p \in Procs, HandshakeFails(p) PROVE NoRemoval'
  BY <1>8 DEF HandshakeFails, CloseClient, AfterError, Goto
<1>9. ASSUME NEW p \in Procs, HandshakeOk(p) PROVE NoRemoval'
  BY <1>9 DEF HandshakeOk, Goto
<1>10. ASSUME NEW p \in Procs, SpawnFailed(p) PROVE NoRemoval'
  BY <1>10 DEF SpawnFailed, Goto
<1>11. ASSUME NEW p \in Procs, Publish(p) PROVE NoRemoval'
  BY <1>11 DEF Publish, RemovePrefix, Goto
<1>12. ASSUME NEW p \in Procs, Swap(p) PROVE NoRemoval'
  BY <1>12 DEF Swap, Installed, AddReal, Goto
<1>13. ASSUME NEW i \in Conns, FetchDone(i) PROVE NoRemoval'
  BY <1>13 DEF FetchDone
<1>14. ASSUME NEW e \in Execs, Lookup(e) PROVE NoRemoval'
  BY <1>14 DEF Lookup, Goto
<1>15. ASSUME NEW e \in Execs, Forward(e) PROVE NoRemoval'
  BY <1>15 DEF Forward, Asks, Goto
<1>16. ASSUME NEW e \in Execs, Refuse(e) PROVE NoRemoval'
  BY <1>16 DEF Refuse, Asks, Goto
<1>17. ASSUME NEW e \in Execs, SpawnAsync(e) PROVE NoRemoval'
  BY <1>17 DEF SpawnAsync, Asks, InFlight
<1>18. ASSUME NEW e \in Execs, SpawnHere(e) PROVE NoRemoval'
  BY <1>18 DEF SpawnHere, Asks, InFlight, Goto
<1>19. ASSUME NEW e \in Execs, RealReturns(e) PROVE NoRemoval'
  BY <1>19 DEF RealReturns, Unlock, Goto
<1>20. ASSUME NEW u \in Users, Connect(u) PROVE NoRemoval'
  BY <1>20 DEF Connect, MayCommand, Goto
<1>21. ASSUME NEW u \in Users, RemoveServer(u) PROVE NoRemoval'
  BY <1>21 DEF RemoveServer, MayCommand, ClearFailure, Goto
<1>22. ASSUME NEW u \in Users, ConnectDrops(u) PROVE NoRemoval'
  BY <1>22 DEF ConnectDrops, RemovePrefix, Goto
<1>23. ASSUME NEW u \in Users, ConnectAdds(u) PROVE NoRemoval'
  BY <1>23 DEF ConnectAdds, AddReal, Goto
<1>24. ASSUME NEW u \in Users, RemoveCloses(u) PROVE NoRemoval'
  BY <1>24 DEF RemoveCloses, CloseClient, Goto
<1>25. ASSUME NEW u \in Users, RemoveUnregisters(u) PROVE NoRemoval'
  BY <1>25 DEF RemoveUnregisters, RemovePrefix, Goto
<1>26. CASE UNCHANGED vars
  BY <1>26 DEF vars
<1> HIDE DEF NoRemoval, Unremoved, ProcTypes
<1> QED
  BY <1>1, <1>2, <1>3, <1>4, <1>5, <1>6, <1>7, <1>8, <1>9, <1>10, <1>11,
     <1>12, <1>13, <1>14, <1>15, <1>16, <1>17, <1>18, <1>19, <1>20, <1>21,
     <1>22, <1>23, <1>24, <1>25, <1>26
     DEF Next, Add, Handshake, Spawning, Ask, Commanding

(* What is up stays up unless the user removes it.                         *)
LEMMA NothingCloses ==
  ASSUME ProcTypes, LinkTypes, PlaceInv, OwnerInv, BootInv, NoRemoval, [Next]_vars,
         Unremoved'
  PROVE  Unremoved /\ \A i \in Conns : conn[i] = "up" => conn'[i] = "up"
<1>1. Unremoved
  BY DEF Unremoved, Next, Add, Handshake, Spawning, Ask, Commanding, vars, EagerUp,
     EagerFails, Kick, RegisterDeferred, AddRefused, AddStarts, AddAppends, HandshakeFails,
     HandshakeOk, SpawnFailed, Publish, Swap, FetchDone, Lookup, Forward, Refuse, SpawnAsync,
     SpawnHere, RealReturns, Connect, RemoveServer, ConnectDrops, ConnectAdds, RemoveCloses,
     RemoveUnregisters
<1>2. \/ conn' = conn \/ EagerUp \/ EagerFails
      \/ \E p \in Procs : AddStarts(p) \/ HandshakeFails(p) \/ HandshakeOk(p)
      \/ \E u \in Users : RemoveCloses(u)
  BY DEF Next, Add, Handshake, Spawning, Ask, Commanding, vars,
     Kick, RegisterDeferred, AddRefused, AddAppends,
     SpawnFailed, Publish, Swap, FetchDone, Lookup, Forward, Refuse, SpawnAsync,
     SpawnHere, RealReturns, Connect, RemoveServer, ConnectDrops, ConnectAdds,
     RemoveUnregisters
<1> SUFFICES ASSUME NEW i \in Conns, conn[i] = "up" PROVE conn'[i] = "up"
  BY <1>1
<1>3. CASE EagerUp \/ EagerFails
  BY <1>3 DEF EagerUp, EagerFails, LinkTypes, BootInv
<1>4. ASSUME NEW p \in Procs, AddStarts(p) PROVE conn'[i] = "up"
  BY <1>4 DEF AddStarts, Unborn, LinkTypes
<1>5. ASSUME NEW p \in Procs, HandshakeFails(p) PROVE conn'[i] = "up"
  BY <1>5 DEF HandshakeFails, CloseClient, LinkTypes, OwnerInv
<1>6. ASSUME NEW p \in Procs, HandshakeOk(p) PROVE conn'[i] = "up"
  BY <1>6 DEF HandshakeOk, LinkTypes
<1>7. ASSUME NEW u \in Users PROVE ~RemoveCloses(u)
  BY <1>1, <1>7 DEF RemoveCloses, NoRemoval
<1> QED
  BY <1>2, <1>3, <1>4, <1>5, <1>6, <1>7

(* A step that leaves the registry and the spawn's outcome alone, of       *)
(* goroutines that see to nothing.                                         *)
LEMMA Leaves ==
  ASSUME Leads, NEW S \in SUBSET Procs, UNCHANGED reg, clients' = clients,
         state = "ready" => state' = "ready" /\ real' = real,
         Unremoved' => Unremoved /\ \A i \in Conns : conn[i] = "up" => conn'[i] = "up",
         \A q \in S : pc[q] \notin Settling, \A q \in Procs \ S : pc'[q] = pc[q]
  PROVE  Leads'
<1> SUFFICES ASSUME Unremoved', clients' # <<>>
             PROVE  Usable' \/ \E p \in Procs : pc'[p] \in Settling
  BY DEF Leads
<1>1. CASE Usable
  BY <1>1 DEF Usable, UpAt
<1>2. CASE \E p \in Procs : pc[p] \in Settling
  BY <1>2
<1> QED
  BY <1>1, <1>2 DEF Leads

LEMMA StepStaysUp == IInv /\ [Next]_vars => StaysUp'
<1> SUFFICES ASSUME IInv, [Next]_vars PROVE StaysUp'
  OBVIOUS
<1> USE Sorts
<1> ProcTypes /\ LinkTypes /\ NameTypes /\ PlaceInv /\ SpawnInv /\ OwnerInv /\ BootInv /\ UseInv
  BY DEF IInv, Types
<1> NoRemoval /\ StaysUp /\ Leads
  BY DEF UseInv
<1> SUFFICES ASSUME Unremoved' PROVE StaysUp'
  BY DEF StaysUp
<1> Unremoved /\ \A i : UpAt(i) => UpAt(i)'
  BY NothingCloses DEF UpAt
<1> \A p \in Procs : pc[p] \in {"publish", "drop", "add"} => UpAt(mine[p])
  BY DEF StaysUp
<1> state = "ready" => UpAt(real)
  BY DEF StaysUp
<1>1. ASSUME EagerUp PROVE StaysUp'
  <2>1. \A q \in Procs : pc'[q] \in {"publish", "drop", "add"} => UpAt(mine'[q])
    BY <1>1 DEF EagerUp, AddReal, ProcTypes
  <2>2. state' = "ready" => UpAt(real')
    BY <1>1 DEF EagerUp, AddReal
  <2> QED
    BY <2>1, <2>2 DEF StaysUp, UpAt
<1>2. ASSUME EagerFails PROVE StaysUp'
  <2>1. \A q \in Procs : pc'[q] \in {"publish", "drop", "add"} => UpAt(mine'[q])
    BY <1>2 DEF EagerFails, ProcTypes
  <2>2. state' = "ready" => UpAt(real')
    BY <1>2 DEF EagerFails
  <2> QED
    BY <2>1, <2>2 DEF StaysUp, UpAt
<1>3. ASSUME Kick PROVE StaysUp'
  <2>1. \A q \in Procs : pc'[q] \in {"publish", "drop", "add"} => UpAt(mine'[q])
    BY <1>3 DEF Kick, Goto, ProcTypes
  <2>2. state' = "ready" => UpAt(real')
    BY <1>3 DEF Kick, Goto
  <2> QED
    BY <2>1, <2>2 DEF StaysUp, UpAt
<1>4. ASSUME RegisterDeferred PROVE StaysUp'
  <2>1. \A q \in Procs : pc'[q] \in {"publish", "drop", "add"} => UpAt(mine'[q])
    BY <1>4 DEF RegisterDeferred, Placeheld, ProcTypes
  <2>2. state' = "ready" => UpAt(real')
    BY <1>4 DEF RegisterDeferred, Placeheld
  <2> QED
    BY <2>1, <2>2 DEF StaysUp, UpAt
<1>5. ASSUME NEW p \in Procs, AddRefused(p) PROVE StaysUp'
  <2>1. \A q \in Procs : pc'[q] \in {"publish", "drop", "add"} => UpAt(mine'[q])
    BY <1>5 DEF AddRefused, AfterError, Goto, ProcTypes
  <2>2. state' = "ready" => UpAt(real')
    BY <1>5 DEF AddRefused, AfterError, Goto
  <2> QED
    BY <2>1, <2>2 DEF StaysUp, UpAt
<1>6. ASSUME NEW p \in Procs, AddStarts(p) PROVE StaysUp'
  <2>1. \A q \in Procs : pc'[q] \in {"publish", "drop", "add"} => UpAt(mine'[q])
    BY <1>6 DEF AddStarts, Unborn, Goto, ProcTypes
  <2>2. state' = "ready" => UpAt(real')
    BY <1>6 DEF AddStarts, Unborn, Goto
  <2> QED
    BY <2>1, <2>2 DEF StaysUp, UpAt
<1>7. ASSUME NEW p \in Procs, AddAppends(p) PROVE StaysUp'
  <2>1. \A q \in Procs : pc'[q] \in {"publish", "drop", "add"} => UpAt(mine'[q])
    BY <1>7 DEF AddAppends, AfterAdd, ClearFailure, Goto, ProcTypes, OwnerInv, UpAt, PlaceInv
  <2>2. state' = "ready" => UpAt(real')
    BY <1>7 DEF AddAppends, AfterAdd, ClearFailure, Goto
  <2> QED
    BY <2>1, <2>2 DEF StaysUp, UpAt
<1>8. ASSUME NEW p \in Procs, HandshakeFails(p) PROVE StaysUp'
  <2>1. \A q \in Procs : pc'[q] \in {"publish", "drop", "add"} => UpAt(mine'[q])
    BY <1>8 DEF HandshakeFails, CloseClient, AfterError, Goto, ProcTypes
  <2>2. state' = "ready" => UpAt(real')
    BY <1>8 DEF HandshakeFails, CloseClient, AfterError, Goto
  <2> QED
    BY <2>1, <2>2 DEF StaysUp, UpAt
<1>9. ASSUME NEW p \in Procs, HandshakeOk(p) PROVE StaysUp'
  <2>1. \A q \in Procs : pc'[q] \in {"publish", "drop", "add"} => UpAt(mine'[q])
    BY <1>9 DEF HandshakeOk, Goto, ProcTypes
  <2>2. state' = "ready" => UpAt(real')
    BY <1>9 DEF HandshakeOk, Goto
  <2> QED
    BY <2>1, <2>2 DEF StaysUp, UpAt
<1>10. ASSUME NEW p \in Procs, SpawnFailed(p) PROVE StaysUp'
  <2>1. \A q \in Procs : pc'[q] \in {"publish", "drop", "add"} => UpAt(mine'[q])
    BY <1>10 DEF SpawnFailed, Goto, ProcTypes
  <2>2. state' = "ready" => UpAt(real')
    BY <1>10 DEF SpawnFailed, Goto
  <2> QED
    BY <2>1, <2>2 DEF StaysUp, UpAt
<1>11. ASSUME NEW p \in Procs, Publish(p) PROVE StaysUp'
  <2>1. \A q \in Procs : pc'[q] \in {"publish", "drop", "add"} => UpAt(mine'[q])
    BY <1>11 DEF Publish, RemovePrefix, Goto, ProcTypes
  <2>2. state' = "ready" => UpAt(real')
    BY <1>11 DEF Publish, RemovePrefix, Goto
  <2> QED
    BY <2>1, <2>2 DEF StaysUp, UpAt
<1>12. ASSUME NEW p \in Procs, Swap(p) PROVE StaysUp'
  <2>1. \A q \in Procs : pc'[q] \in {"publish", "drop", "add"} => UpAt(mine'[q])
    BY <1>12 DEF Swap, Installed, AddReal, Goto, ProcTypes
  <2>2. state' = "ready" => UpAt(real')
    BY <1>12 DEF Swap, Installed, AddReal, Goto
  <2> QED
    BY <2>1, <2>2 DEF StaysUp, UpAt
<1>13. ASSUME NEW i \in Conns, FetchDone(i) PROVE StaysUp'
  <2>1. \A q \in Procs : pc'[q] \in {"publish", "drop", "add"} => UpAt(mine'[q])
    BY <1>13 DEF FetchDone, ProcTypes
  <2>2. state' = "ready" => UpAt(real')
    BY <1>13 DEF FetchDone
  <2> QED
    BY <2>1, <2>2 DEF StaysUp, UpAt
<1>14. ASSUME NEW e \in Execs, Lookup(e) PROVE StaysUp'
  <2>1. \A q \in Procs : pc'[q] \in {"publish", "drop", "add"} => UpAt(mine'[q])
    BY <1>14 DEF Lookup, Goto, ProcTypes
  <2>2. state' = "ready" => UpAt(real')
    BY <1>14 DEF Lookup, Goto
  <2> QED
    BY <2>1, <2>2 DEF StaysUp, UpAt
<1>15. ASSUME NEW e \in Execs, Forward(e) PROVE StaysUp'
  <2>1. \A q \in Procs : pc'[q] \in {"publish", "drop", "add"} => UpAt(mine'[q])
    BY <1>15 DEF Forward, Asks, Goto, ProcTypes
  <2>2. state' = "ready" => UpAt(real')
    BY <1>15 DEF Forward, Asks, Goto
  <2> QED
    BY <2>1, <2>2 DEF StaysUp, UpAt
<1>16. ASSUME NEW e \in Execs, Refuse(e) PROVE StaysUp'
  <2>1. \A q \in Procs : pc'[q] \in {"publish", "drop", "add"} => UpAt(mine'[q])
    BY <1>16 DEF Refuse, Asks, Goto, ProcTypes
  <2>2. state' = "ready" => UpAt(real')
    BY <1>16 DEF Refuse, Asks, Goto
  <2> QED
    BY <2>1, <2>2 DEF StaysUp, UpAt
<1>17. ASSUME NEW e \in Execs, SpawnAsync(e) PROVE StaysUp'
  <2>1. \A q \in Procs : pc'[q] \in {"publish", "drop", "add"} => UpAt(mine'[q])
    BY <1>17 DEF SpawnAsync, Asks, InFlight, ProcTypes
  <2>2. state' = "ready" => UpAt(real')
    BY <1>17 DEF SpawnAsync, Asks, InFlight
  <2> QED
    BY <2>1, <2>2 DEF StaysUp, UpAt
<1>18. ASSUME NEW e \in Execs, SpawnHere(e) PROVE StaysUp'
  <2>1. \A q \in Procs : pc'[q] \in {"publish", "drop", "add"} => UpAt(mine'[q])
    BY <1>18 DEF SpawnHere, Asks, InFlight, Goto, ProcTypes
  <2>2. state' = "ready" => UpAt(real')
    BY <1>18 DEF SpawnHere, Asks, InFlight, Goto
  <2> QED
    BY <2>1, <2>2 DEF StaysUp, UpAt
<1>19. ASSUME NEW e \in Execs, RealReturns(e) PROVE StaysUp'
  <2>1. \A q \in Procs : pc'[q] \in {"publish", "drop", "add"} => UpAt(mine'[q])
    BY <1>19 DEF RealReturns, Unlock, Goto, ProcTypes
  <2>2. state' = "ready" => UpAt(real')
    BY <1>19 DEF RealReturns, Unlock, Goto
  <2> QED
    BY <2>1, <2>2 DEF StaysUp, UpAt
<1>20. ASSUME NEW u \in Users, Connect(u) PROVE StaysUp'
  <2>1. \A q \in Procs : pc'[q] \in {"publish", "drop", "add"} => UpAt(mine'[q])
    BY <1>20 DEF Connect, MayCommand, Goto, ProcTypes
  <2>2. state' = "ready" => UpAt(real')
    BY <1>20 DEF Connect, MayCommand, Goto
  <2> QED
    BY <2>1, <2>2 DEF StaysUp, UpAt
<1>21. ASSUME NEW u \in Users, RemoveServer(u) PROVE StaysUp'
  <2>1. \A q \in Procs : pc'[q] \in {"publish", "drop", "add"} => UpAt(mine'[q])
    BY <1>21 DEF RemoveServer, MayCommand, ClearFailure, Goto, ProcTypes
  <2>2. state' = "ready" => UpAt(real')
    BY <1>21 DEF RemoveServer, MayCommand, ClearFailure, Goto
  <2> QED
    BY <2>1, <2>2 DEF StaysUp, UpAt
<1>22. ASSUME NEW u \in Users, ConnectDrops(u) PROVE StaysUp'
  <2>1. \A q \in Procs : pc'[q] \in {"publish", "drop", "add"} => UpAt(mine'[q])
    BY <1>22 DEF ConnectDrops, RemovePrefix, Goto, ProcTypes
  <2>2. state' = "ready" => UpAt(real')
    BY <1>22 DEF ConnectDrops, RemovePrefix, Goto
  <2> QED
    BY <2>1, <2>2 DEF StaysUp, UpAt
<1>23. ASSUME NEW u \in Users, ConnectAdds(u) PROVE StaysUp'
  <2>1. \A q \in Procs : pc'[q] \in {"publish", "drop", "add"} => UpAt(mine'[q])
    BY <1>23 DEF ConnectAdds, AddReal, Goto, ProcTypes
  <2>2. state' = "ready" => UpAt(real')
    BY <1>23 DEF ConnectAdds, AddReal, Goto
  <2> QED
    BY <2>1, <2>2 DEF StaysUp, UpAt
<1>24. ASSUME NEW u \in Users, RemoveCloses(u) PROVE StaysUp'
  <2>1. \A q \in Procs : pc'[q] \in {"publish", "drop", "add"} => UpAt(mine'[q])
    BY <1>24 DEF RemoveCloses, CloseClient, Goto, ProcTypes
  <2>2. state' = "ready" => UpAt(real')
    BY <1>24 DEF RemoveCloses, CloseClient, Goto
  <2> QED
    BY <2>1, <2>2 DEF StaysUp, UpAt
<1>25. ASSUME NEW u \in Users, RemoveUnregisters(u) PROVE StaysUp'
  <2>1. \A q \in Procs : pc'[q] \in {"publish", "drop", "add"} => UpAt(mine'[q])
    BY <1>25 DEF RemoveUnregisters, RemovePrefix, Goto, ProcTypes
  <2>2. state' = "ready" => UpAt(real')
    BY <1>25 DEF RemoveUnregisters, RemovePrefix, Goto
  <2> QED
    BY <2>1, <2>2 DEF StaysUp, UpAt
<1>26. CASE UNCHANGED vars
  <2>1. \A q \in Procs : pc'[q] \in {"publish", "drop", "add"} => UpAt(mine'[q])
    BY <1>26 DEF vars, ProcTypes
  <2>2. state' = "ready" => UpAt(real')
    BY <1>26 DEF vars
  <2> QED
    BY <2>1, <2>2 DEF StaysUp, UpAt
<1> QED
  BY <1>1, <1>2, <1>3, <1>4, <1>5, <1>6, <1>7, <1>8, <1>9, <1>10, <1>11,
     <1>12, <1>13, <1>14, <1>15, <1>16, <1>17, <1>18, <1>19, <1>20, <1>21,
     <1>22, <1>23, <1>24, <1>25, <1>26
     DEF Next, Add, Handshake, Spawning, Ask, Commanding

LEMMA StepLeads == IInv /\ [Next]_vars => Leads'
<1> SUFFICES ASSUME IInv, [Next]_vars PROVE Leads'
  OBVIOUS
<1> USE Sorts DEF ProcTypes
<1> ProcTypes /\ LinkTypes /\ NameTypes /\ PlaceInv /\ SpawnInv /\ OwnerInv /\ BootInv /\ UseInv
  BY DEF IInv, Types
<1> NoRemoval /\ StaysUp /\ Leads
  BY DEF UseInv
<1> Unremoved' => Unremoved /\ \A i \in Conns : conn[i] = "up" => conn'[i] = "up"
  BY NothingCloses
<1>1. ASSUME EagerUp PROVE Leads'
  <2>1. reg'["call"] = 1 /\ UpAt(1)'
    BY <1>1, Numbers DEF EagerUp, AddReal, UpAt, LinkTypes, NameTypes, Tools
  <2> QED
    BY <2>1, Numbers DEF Leads, Usable, UpAt
<1>2. ASSUME EagerFails PROVE Leads'
  <2>1. /\ {} \in SUBSET Procs /\ UNCHANGED <<reg, clients>>
        /\ state = "ready" => state' = "ready" /\ real' = real
        /\ \A q \in {} : pc[q] \notin Settling
        /\ \A q \in Procs \ {} : pc'[q] = pc[q]
    BY <1>2 DEF EagerFails, Settling
  <2> QED
    BY <2>1, Leaves
<1>3. ASSUME Kick PROVE Leads'
  <2>1. /\ {Run} \in SUBSET Procs /\ UNCHANGED <<reg, clients>>
        /\ state = "ready" => state' = "ready" /\ real' = real
        /\ \A q \in {Run} : pc[q] \notin Settling
        /\ \A q \in Procs \ {Run} : pc'[q] = pc[q]
    BY <1>3 DEF Kick, Goto, BootInv, SpawnInv, Settling
  <2> QED
    BY <2>1, Leaves
<1>4. ASSUME RegisterDeferred PROVE Leads'
  <2>1. UNCHANGED <<clients, conn, state, real, pc, history>>
    BY <1>4 DEF RegisterDeferred
  <2>2. CASE Usable
    <3>1. reg["call"] = real /\ real \in Conns /\ state = "ready" /\ UpAt(real)
      BY <1>4, <2>2, Numbers DEF RegisterDeferred, BootInv, Usable
    <3>2. reg'["call"] \in {Placeholder, real}
      BY <1>4, <3>1 DEF RegisterDeferred, NameTypes, Tools
    <3> QED
      BY <2>1, <3>1, <3>2 DEF Leads, Usable, UpAt
  <2>3. CASE ~Usable
    BY <2>1, <2>3 DEF Leads, Unremoved
  <2> QED
    BY <2>2, <2>3
<1>5. ASSUME NEW p \in Procs, AddRefused(p) PROVE Leads'
  <2>1. /\ {p} \in SUBSET Procs /\ UNCHANGED <<reg, clients>>
        /\ state = "ready" => state' = "ready" /\ real' = real
        /\ \A q \in {p} : pc[q] \notin Settling
        /\ \A q \in Procs \ {p} : pc'[q] = pc[q]
    BY <1>5 DEF AddRefused, AfterError, Goto, Settling
  <2> QED
    BY <2>1, Leaves
<1>6. ASSUME NEW p \in Procs, AddStarts(p) PROVE Leads'
  <2>1. /\ {p} \in SUBSET Procs /\ UNCHANGED <<reg, clients>>
        /\ state = "ready" => state' = "ready" /\ real' = real
        /\ \A q \in {p} : pc[q] \notin Settling
        /\ \A q \in Procs \ {p} : pc'[q] = pc[q]
    BY <1>6 DEF AddStarts, Unborn, Goto, Settling
  <2> QED
    BY <2>1, Leaves
<1>7. ASSUME NEW p \in Procs, AddAppends(p) PROVE Leads'
  <2>1. pc'[p] \in Settling
    BY <1>7 DEF AddAppends, AfterAdd, Goto, Settling
  <2> QED
    BY <2>1 DEF Leads
<1>8. ASSUME NEW p \in Procs, HandshakeFails(p) PROVE Leads'
  <2>1. /\ {p} \in SUBSET Procs /\ UNCHANGED <<reg, clients>>
        /\ state = "ready" => state' = "ready" /\ real' = real
        /\ \A q \in {p} : pc[q] \notin Settling
        /\ \A q \in Procs \ {p} : pc'[q] = pc[q]
    BY <1>8 DEF HandshakeFails, CloseClient, AfterError, Goto, Settling
  <2> QED
    BY <2>1, Leaves
<1>9. ASSUME NEW p \in Procs, HandshakeOk(p) PROVE Leads'
  <2>1. /\ {p} \in SUBSET Procs /\ UNCHANGED <<reg, clients>>
        /\ state = "ready" => state' = "ready" /\ real' = real
        /\ \A q \in {p} : pc[q] \notin Settling
        /\ \A q \in Procs \ {p} : pc'[q] = pc[q]
    BY <1>9 DEF HandshakeOk, Goto, Settling
  <2> QED
    BY <2>1, Leaves
<1>10. ASSUME NEW p \in Procs, SpawnFailed(p) PROVE Leads'
  <2>1. /\ {p} \in SUBSET Procs /\ UNCHANGED <<reg, clients>>
        /\ state = "ready" => state' = "ready" /\ real' = real
        /\ \A q \in {p} : pc[q] \notin Settling
        /\ \A q \in Procs \ {p} : pc'[q] = pc[q]
    BY <1>10 DEF SpawnFailed, Goto, SpawnInv, PlaceInv, SpawnLabels, Settling
  <2> QED
    BY <2>1, Leaves
<1>11. ASSUME NEW p \in Procs, Publish(p) PROVE Leads'
  <2>1. pc'[p] \in Settling
    BY <1>11 DEF Publish, Goto, Settling
  <2> QED
    BY <2>1 DEF Leads
<1>12. ASSUME NEW p \in Procs, Swap(p) PROVE Leads'
  <2>1. reg'["call"] = real /\ real' = real /\ conn' = conn
    BY <1>12 DEF Swap, Installed, AddReal, NameTypes, Tools
  <2>2. Unremoved' => UpAt(real)
    BY <1>12 DEF Swap, SpawnInv, PlaceInv, StaysUp
  <2> QED
    BY <2>1, <2>2 DEF Leads, Usable, UpAt
<1>13. ASSUME NEW i \in Conns, FetchDone(i) PROVE Leads'
  <2>1. /\ {} \in SUBSET Procs /\ UNCHANGED <<reg, clients>>
        /\ state = "ready" => state' = "ready" /\ real' = real
        /\ \A q \in {} : pc[q] \notin Settling
        /\ \A q \in Procs \ {} : pc'[q] = pc[q]
    BY <1>13 DEF FetchDone, Settling
  <2> QED
    BY <2>1, Leaves
<1>14. ASSUME NEW e \in Execs, Lookup(e) PROVE Leads'
  <2>1. /\ {e} \in SUBSET Procs /\ UNCHANGED <<reg, clients>>
        /\ state = "ready" => state' = "ready" /\ real' = real
        /\ \A q \in {e} : pc[q] \notin Settling
        /\ \A q \in Procs \ {e} : pc'[q] = pc[q]
    BY <1>14 DEF Lookup, Goto, Settling
  <2> QED
    BY <2>1, Leaves
<1>15. ASSUME NEW e \in Execs, Forward(e) PROVE Leads'
  <2>1. /\ {e} \in SUBSET Procs /\ UNCHANGED <<reg, clients>>
        /\ state = "ready" => state' = "ready" /\ real' = real
        /\ \A q \in {e} : pc[q] \notin Settling
        /\ \A q \in Procs \ {e} : pc'[q] = pc[q]
    BY <1>15 DEF Forward, Asks, Goto, Settling
  <2> QED
    BY <2>1, Leaves
<1>16. ASSUME NEW e \in Execs, Refuse(e) PROVE Leads'
  <2>1. /\ {e} \in SUBSET Procs /\ UNCHANGED <<reg, clients>>
        /\ state = "ready" => state' = "ready" /\ real' = real
        /\ \A q \in {e} : pc[q] \notin Settling
        /\ \A q \in Procs \ {e} : pc'[q] = pc[q]
    BY <1>16 DEF Refuse, Asks, Goto, Settling
  <2> QED
    BY <2>1, Leaves
<1>17. ASSUME NEW e \in Execs, SpawnAsync(e) PROVE Leads'
  <2>1. /\ {e, Run} \in SUBSET Procs /\ UNCHANGED <<reg, clients>>
        /\ state = "ready" => state' = "ready" /\ real' = real
        /\ \A q \in {e, Run} : pc[q] \notin Settling
        /\ \A q \in Procs \ {e, Run} : pc'[q] = pc[q]
    BY <1>17 DEF SpawnAsync, Asks, InFlight, SpawnInv, Settling
  <2> QED
    BY <2>1, Leaves
<1>18. ASSUME NEW e \in Execs, SpawnHere(e) PROVE Leads'
  <2>1. /\ {e} \in SUBSET Procs /\ UNCHANGED <<reg, clients>>
        /\ state = "ready" => state' = "ready" /\ real' = real
        /\ \A q \in {e} : pc[q] \notin Settling
        /\ \A q \in Procs \ {e} : pc'[q] = pc[q]
    BY <1>18 DEF SpawnHere, Asks, InFlight, Goto, Settling
  <2> QED
    BY <2>1, Leaves
<1>19. ASSUME NEW e \in Execs, RealReturns(e) PROVE Leads'
  <2>1. /\ {e} \in SUBSET Procs /\ UNCHANGED <<reg, clients>>
        /\ state = "ready" => state' = "ready" /\ real' = real
        /\ \A q \in {e} : pc[q] \notin Settling
        /\ \A q \in Procs \ {e} : pc'[q] = pc[q]
    BY <1>19 DEF RealReturns, Unlock, Goto, Settling
  <2> QED
    BY <2>1, Leaves
<1>20. ASSUME NEW u \in Users, Connect(u) PROVE Leads'
  <2>1. /\ {u} \in SUBSET Procs /\ UNCHANGED <<reg, clients>>
        /\ state = "ready" => state' = "ready" /\ real' = real
        /\ \A q \in {u} : pc[q] \notin Settling
        /\ \A q \in Procs \ {u} : pc'[q] = pc[q]
    BY <1>20 DEF Connect, MayCommand, Goto, Settling
  <2> QED
    BY <2>1, Leaves
<1>21. ASSUME NEW u \in Users, RemoveServer(u) PROVE Leads'
  BY <1>21 DEF RemoveServer, Leads, Unremoved
<1>22. ASSUME NEW u \in Users, ConnectDrops(u) PROVE Leads'
  <2>1. pc'[u] \in Settling
    BY <1>22 DEF ConnectDrops, Goto, Settling
  <2> QED
    BY <2>1 DEF Leads
<1>23. ASSUME NEW u \in Users, ConnectAdds(u) PROVE Leads'
  <2>1. reg'["call"] = mine[u] /\ conn' = conn
    BY <1>23 DEF ConnectAdds, AddReal, NameTypes, Tools
  <2>2. Unremoved' => UpAt(mine[u])
    BY <1>23 DEF ConnectAdds, StaysUp
  <2> QED
    BY <2>1, <2>2 DEF Leads, Usable, UpAt
<1>24. ASSUME NEW u \in Users, RemoveCloses(u) PROVE Leads'
  BY <1>24 DEF RemoveCloses, Leads, NoRemoval
<1>25. ASSUME NEW u \in Users, RemoveUnregisters(u) PROVE Leads'
  BY <1>25 DEF RemoveUnregisters, Leads, NoRemoval
<1>26. CASE UNCHANGED vars
  <2>1. /\ {} \in SUBSET Procs /\ UNCHANGED <<reg, clients>>
        /\ state = "ready" => state' = "ready" /\ real' = real
        /\ \A q \in {} : pc[q] \notin Settling
        /\ \A q \in Procs \ {} : pc'[q] = pc[q]
    BY <1>26 DEF vars, Settling
  <2> QED
    BY <2>1, Leaves
<1> HIDE DEF ProcTypes
<1> QED
  BY <1>1, <1>2, <1>3, <1>4, <1>5, <1>6, <1>7, <1>8, <1>9, <1>10, <1>11,
     <1>12, <1>13, <1>14, <1>15, <1>16, <1>17, <1>18, <1>19, <1>20, <1>21,
     <1>22, <1>23, <1>24, <1>25, <1>26
     DEF Next, Add, Handshake, Spawning, Ask, Commanding

LEMMA InitInv == Init => IInv
<1> SUFFICES ASSUME Init PROVE IInv
  OBVIOUS
<1> USE Sorts, Numbers
<1>1. Types
  <2>0. MaxCommands \in Nat
    BY ConstantsAssumption
  <2>1. ScalarTypes
    <3>0. commands = 0
      BY DEF Init
    <3>1. commands \in 0..MaxCommands
      BY <2>0, <3>0
    <3> QED
      BY <3>1 DEF Init, ScalarTypes
  <2>2. ProcTypes
    BY DEF Init, ProcTypes, Labels
  <2>3. LinkTypes
    <3>1. clients \in Seq(Conns)
      BY EmptySeq DEF Init
    <3> QED
      BY <3>1 DEF Init, LinkTypes, Stages
  <2>4. NameTypes
    BY DEF Init, NameTypes
  <2> QED
    BY <2>1, <2>2, <2>3, <2>4 DEF Types
<1>2. PlaceInv
  BY DEF Init, PlaceInv
<1>3. SpawnInv
  BY DEF Init, SpawnInv, SpawnLabels
<1>4. BootInv
  BY DEF Init, BootInv, Tools
<1>5. OwnerInv /\ HostIsHonest
  <2>1. Listed = {} /\ NoDuplicates
    <3>1. clients = <<>>
      BY DEF Init
    <3> QED
      BY <3>1, EmptySeq, LenProperties DEF Listed, NoDuplicates
  <2> QED
    BY <2>1 DEF Init, OwnerInv, Holding, HostIsHonest
<1>6. UseInv
  BY DEF Init, UseInv, NoRemoval, StaysUp, Leads, Unremoved
<1> QED
  BY <1>1, <1>2, <1>3, <1>4, <1>5, <1>6 DEF IInv

(* The strengthened invariant holds throughout: types, who stands where,   *)
(* the spawn and its lock, boot, the owner of each connection, and whom    *)
(* the registry leads to (plugin.go Host.Add, Host.Remove; lazy.go         *)
(* lazySpawn.run, trySwap; controller.go connectMCPSpec).                  *)
THEOREM Invariance == Spec => []IInv
<1>1. IInv /\ [Next]_vars => IInv'
  BY StepScalars, StepProcs, StepLinks, StepNames, StepPlace, StepSpawn, StepBoot,
     StepOwner, StepNoRemoval, StepStaysUp, StepLeads DEF IInv, Types, UseInv
<1> QED
  BY InitInv, <1>1, PTL DEF Spec

(* Every variable has its type, whoever holds the lock of the spawn is     *)
(* swapping or runs the real tool, and at most one handshake ever begins   *)
(* however many calls race on the first use (lazy.go, spawnState).         *)
THEOREM TypeCorrect == Spec => []TypeOK
<1>1. IInv => TypeOK
  <2> SUFFICES ASSUME IInv PROVE TypeOK
    OBVIOUS
  <2>1. handshakes \in 0..1 /\ (spawnMu # Free => pc[spawnMu] \in {"swap", "real"})
    BY DEF IInv, SpawnInv
  <2>2. Types
    BY DEF IInv
  <2> QED
    BY <2>1, <2>2 DEF TypeOK, Types, ScalarTypes, ProcTypes, LinkTypes, NameTypes, Labels,
       Stages
<1> QED
  BY Invariance, <1>1, PTL

(* Whatever the host lists is up and stands beside no failure, and no      *)
(* subprocess is lost, however commands, the spawn and boot interleave     *)
(* (plugin.go Host.Add, Host.Remove, RecordFailure).                       *)
THEOREM HostStaysHonest == Spec => []HostIsHonest
<1>1. IInv => HostIsHonest
  BY DEF IInv
<1> QED
  BY Invariance, <1>1, PTL

(* When boot, the spawn and /mcp connect have raced and come to rest, the  *)
(* registry leads to a live connection if there is one (lazy.go trySwap,   *)
(* controller.go connectMCPSpec).                                          *)
THEOREM ServersUsable == Spec => []ServersAreUsable
<1>1. IInv => ConnectedIsUsable
  <2> SUFFICES ASSUME IInv, Quiet, Unremoved, clients # <<>> PROVE Usable
    BY DEF ConnectedIsUsable, Unremoved
  <2>1. \A p \in Procs : pc[p] \notin Settling
    BY DEF Quiet, Settling
  <2> QED
    BY <2>1 DEF IInv, UseInv, Leads
<1> QED
  BY Invariance, TypeCorrect, HostStaysHonest, <1>1, PTL DEF ServersAreUsable

-----------------------------------------------------------------------------
(* Conversations and their files (control/controller.go, agent/session.go). *)

Messages == Seq(SUBSET Nat)
Kept == 1..Len(log)
Orders == [op : Chat!All \cup {"none"}, step : 0..4, path : Nat, arg : Nat]

ChatTypes ==
  /\ used \in [{"ids", "passes", "folds", "commands"} -> Nat] /\ used.ids <= MaxIds
  /\ log \in Seq(Messages) /\ file \in Seq(Messages) /\ owns \in Seq(SUBSET Nat)
  /\ Len(log) \in 1..MaxSessions /\ Len(file) = Len(log) /\ Len(owns) = Len(log)
  /\ session \in Kept /\ path \in Kept /\ home \in Kept
  /\ turn \in {"idle", "running", "ending"} /\ started \in 0..MaxIds
  /\ cmd \in Orders
  /\ pass \in [at : {"off", "on", "save"}, read : Messages, path : Nat]
  /\ \A n \in Kept : Len(log[n]) <= used.ids /\ Len(file[n]) <= used.ids
                     /\ owns[n] \subseteq 1..used.ids

(* The user awaits a compaction and a turn, so that none of them, and no   *)
(* command, sees another one's half.                                       *)
ChatOrder ==
  /\ Gating = "patient"
  /\ cmd.op = "none" <=> cmd = Chat!NoCmd
  /\ cmd.step = 0 <=> cmd.op = "none"
  /\ cmd.op # "none" => turn = "idle" /\ pass.at = "off"
  /\ turn # "idle" => home = session /\ pass.at = "off"
  /\ cmd.step <= 3 => session = path
  /\ cmd.step = 2 => cmd.path = session
  /\ cmd.step = 4 => \/ cmd.op \in {"branch", "fork"} /\ session = Len(log)
                     \/ cmd.op = "switch" /\ session = cmd.arg
                     \/ cmd.op = "new"
  /\ cmd.op = "switch" => cmd.arg \in Kept
  /\ cmd.op = "fork" /\ cmd.step <= 3 => cmd.arg <= Len(log[session])
  /\ cmd.op \in {"new", "branch", "fork"} /\ cmd.step <= 3 => Len(log) < MaxSessions
  /\ turnPath = IF turn = "ending" THEN session ELSE 0
  /\ pass.at = "on" => pass.read = log[session] /\ Len(pass.read) >= 3
  /\ pass.at = "save" => pass.path = session

ChatOwns ==
  \A n \in Kept :
    /\ owns[n] = Chat!Ids(log[n]) /\ Chat!Ids(file[n]) \subseteq owns[n]
    /\ n # session \/ cmd.step >= 3 => owns[n] = Chat!Ids(file[n])

ChatInv == ChatTypes /\ ChatOrder /\ ChatOwns

LEMMA IdsAre ==
  ASSUME NEW m \in Messages
  PROVE  /\ \A x : x \in Chat!Ids(m) <=> \E i \in 1..Len(m) : x \in m[i]
         /\ Chat!Ids(m) \in SUBSET Nat
BY DEF Chat!Ids, Chat!Range, Messages

LEMMA IdsEmpty == Chat!Ids(<<>>) = {} /\ <<>> \in Messages
BY DEF Chat!Ids, Chat!Range, Messages

LEMMA IdsAppend ==
  ASSUME NEW m \in Messages, NEW s \in SUBSET Nat
  PROVE  /\ Append(m, s) \in Messages /\ Len(Append(m, s)) = Len(m) + 1
         /\ Chat!Ids(Append(m, s)) = Chat!Ids(m) \cup s
<1>1. Append(m, s) \in Messages /\ Len(Append(m, s)) = Len(m) + 1 /\ Len(m) \in Nat
  BY DEF Messages
<1>2. \A i \in 1..Len(m) + 1 : Append(m, s)[i] = IF i <= Len(m) THEN m[i] ELSE s
  BY DEF Messages
<1>3. ASSUME NEW x, x \in Chat!Ids(m) \cup s
      PROVE  x \in Chat!Ids(Append(m, s))
  <2>1. CASE x \in s
    <3>1. Append(m, s)[Len(m) + 1] = s /\ Len(m) + 1 \in 1..Len(Append(m, s))
      BY <1>1, <1>2
    <3> QED
      BY <1>1, <2>1, <3>1, IdsAre
  <2>2. CASE x \in Chat!Ids(m)
    <3>1. PICK i \in 1..Len(m) : x \in m[i]
      BY <2>2, IdsAre
    <3>2. i \in 1..Len(Append(m, s)) /\ Append(m, s)[i] = m[i]
      BY <1>1, <1>2
    <3> QED
      BY <1>1, <3>1, <3>2, IdsAre
  <2> QED
    BY <1>3, <2>1, <2>2
<1>4. ASSUME NEW x \in Chat!Ids(Append(m, s))
      PROVE  x \in Chat!Ids(m) \cup s
  <2>1. PICK i \in 1..Len(m) + 1 : x \in Append(m, s)[i]
    BY <1>1, IdsAre
  <2> QED
    BY <1>1, <1>2, <2>1, IdsAre
<1> QED
  BY <1>1, <1>3, <1>4

(* A compaction keeps every id, in the summary or after it.                *)
LEMMA IdsFolded ==
  ASSUME NEW m \in Messages, Len(m) >= 3
  PROVE  /\ Chat!Compaction(m, 1) \in Messages /\ Len(Chat!Compaction(m, 1)) <= Len(m)
         /\ Chat!Ids(Chat!Compaction(m, 1)) = Chat!Ids(m)
<1> DEFINE k == Len(m) - 1
           first == SubSeq(m, 1, k)
           f == Chat!Compaction(m, 1)
<1>1. Len(m) \in Nat /\ k \in 1..Len(m) /\ k + 1 = Len(m)
  BY DEF Messages
<1>2. first \in Messages /\ Len(first) = k /\ \A i \in 1..k : first[i] = m[i]
  BY <1>1 DEF Messages
<1>3. SubSeq(m, k + 1, Len(m)) = <<m[Len(m)]>> /\ m[Len(m)] \in SUBSET Nat
  <2>1. SubSeq(m, k + 1, Len(m)) \in Messages /\ Len(SubSeq(m, k + 1, Len(m))) = 1
        /\ SubSeq(m, k + 1, Len(m))[1] = m[Len(m)]
    BY <1>1 DEF Messages
  <2>2. m[Len(m)] \in SUBSET Nat
    BY <1>1 DEF Messages
  <2>3. \A s \in Messages : Len(s) = 1 => s = <<s[1]>>
    BY SeqEqual DEF Messages
  <2> QED
    BY <2>1, <2>2, <2>3
<1>4. Chat!Ids(first) \in SUBSET Nat
  BY <1>2, IdsAre
<1>5. f = <<Chat!Ids(first)>> \o <<m[Len(m)]>>
  BY <1>1, <1>3 DEF Chat!Compaction, Chat!Folded
<1>6. f = <<Chat!Ids(first), m[Len(m)]>>
  BY <1>5
<1>7. f \in Messages /\ Len(f) = 2 /\ f[1] = Chat!Ids(first) /\ f[2] = m[Len(m)]
  <2> HIDE DEF f, first
  <2>1. \A a, b \in SUBSET Nat : <<a, b>> \in Messages
    BY DEF Messages
  <2> QED
    BY <1>3, <1>4, <1>6, <2>1
<1>8. ASSUME NEW x \in Chat!Ids(m)
      PROVE  x \in Chat!Ids(f)
  <2>1. PICK i \in 1..Len(m) : x \in m[i]
    BY IdsAre
  <2>2. i \in 1..k => x \in Chat!Ids(first)
    BY <1>2, <2>1, IdsAre
  <2>3. x \in f[1] \/ x \in f[2]
    BY <1>1, <1>7, <2>1, <2>2
  <2> QED
    BY <1>7, <2>3, IdsAre
<1>9. ASSUME NEW x \in Chat!Ids(f)
      PROVE  x \in Chat!Ids(m)
  <2>1. x \in Chat!Ids(first) \/ x \in m[Len(m)]
    BY <1>7, IdsAre
  <2>2. ASSUME x \in Chat!Ids(first)
        PROVE  \E i \in 1..k : x \in m[i]
    <3> HIDE DEF first
    <3>1. PICK i \in 1..Len(first) : x \in first[i]
      BY <1>2, <2>2, IdsAre
    <3> QED
      BY <1>2, <3>1
  <2> QED
    BY <1>1, <2>1, <2>2, IdsAre
<1> QED
  BY <1>1, <1>7, <1>8, <1>9

LEMMA MinOfTwo ==
  ASSUME NEW a \in Nat, NEW b \in Nat, a <= b
  PROVE  Chat!Min({a, b}) = a
BY DEF Chat!Min

LEMMA OrderSteps ==
  ASSUME NEW c \in Orders, NEW s \in 0..4
  PROVE  /\ [c EXCEPT !.step = s] \in Orders /\ [c EXCEPT !.step = s].op = c.op
         /\ [c EXCEPT !.step = s].step = s /\ [c EXCEPT !.step = s].path = c.path
         /\ [c EXCEPT !.step = s].arg = c.arg
BY DEF Orders

LEMMA ChatBounds == MaxSessions \in Nat \ {0} /\ MaxIds \in Nat
BY StoresAssumption

LEMMA ChatReads ==
  ASSUME ChatTypes, NEW n \in Kept
  PROVE  /\ log[n] \in Messages /\ file[n] \in Messages /\ owns[n] \in SUBSET Nat
         /\ Len(log[n]) \in 0..used.ids /\ used.ids \in 0..MaxIds
<1>1. log[n] \in Messages /\ file[n] \in Messages /\ owns[n] \in SUBSET Nat
  BY DEF ChatTypes, Kept
<1>2. used.ids \in 0..MaxIds
  BY ChatBounds DEF ChatTypes
<1>3. Len(log[n]) \in Nat
  BY <1>1 DEF Messages
<1> QED
  BY <1>1, <1>2, <1>3 DEF ChatTypes

LEMMA ChatInit == Chat!Init /\ Gating = "patient" => ChatInv
<1> SUFFICES ASSUME Chat!Init, Gating = "patient" PROVE ChatInv
  OBVIOUS
<1> USE ChatBounds
<1>1. <<>> \in Messages /\ {} \in SUBSET Nat
  BY IdsEmpty
<1>2. <<(<<>>)>> \in Seq(Messages) /\ <<{}>> \in Seq(SUBSET Nat)
  BY <1>1
<1>3. ChatTypes
  BY <1>1, <1>2 DEF Chat!Init, ChatTypes, Kept, Orders, Chat!NoCmd, Chat!NoPass
<1>4. ChatOrder
  BY DEF Chat!Init, ChatOrder, Chat!NoCmd, Chat!NoPass, Kept
<1>5. ChatOwns
  <2>1. \A n \in Kept : log[n] = <<>> /\ file[n] = <<>> /\ owns[n] = {}
    BY DEF Chat!Init, Kept
  <2> QED
    BY <2>1, IdsEmpty DEF ChatOwns
<1> QED
  BY <1>3, <1>4, <1>5 DEF ChatInv

(* A save replaces the file by what the conversation holds.                *)
LEMMA ChatStored ==
  ASSUME ChatInv, Chat!Store(log[session], session)
  PROVE  /\ file' \in Seq(Messages) /\ Len(file') = Len(file)
         /\ \A n \in Kept : n # session => file'[n] = file[n]
         /\ Len(file'[session]) <= used.ids
         /\ Chat!Ids(file'[session]) = owns[session]
<1> USE DEF ChatInv, ChatTypes, ChatOwns, Kept
<1>1. CASE log[session] = <<>>
  <2>1. file' = file
    BY <1>1 DEF Chat!Store, Chat!HasContent
  <2>2. owns[session] = {}
    BY <1>1, IdsEmpty
  <2> QED
    BY <2>1, <2>2
<1>2. CASE log[session] # <<>>
  <2>1. file' = [file EXCEPT ![session] = log[session]]
    BY <1>2 DEF Chat!Store, Chat!HasContent
  <2> QED
    BY <2>1
<1> QED
  BY <1>1, <1>2

(* The pieces of ChatInv that a step leaves alone.                         *)
LEMMA ChatOwnsSame ==
  ChatOwns /\ UNCHANGED <<log, file, owns, session>> /\ (cmd'.step >= 3 => cmd.step >= 3) => ChatOwns'
BY DEF ChatOwns, Kept

LEMMA ChatSaves ==
  ASSUME ChatInv, Chat!Store(log[session], session), UNCHANGED <<log, owns, session, used>>
  PROVE  /\ file' \in Seq(Messages) /\ Len(file') = Len(log')
         /\ \A n \in Kept : Len(file'[n]) <= used.ids
         /\ ChatOwns'
<1> USE ChatStored DEF ChatInv, ChatTypes, ChatOwns, Kept
<1> QED
  OBVIOUS

LEMMA ChatTurn ==
  ASSUME ChatInv, Chat!StartTurn \/ Chat!Add \/ Chat!Fold \/ Chat!EndTurn \/ Chat!SaveTurn
  PROVE  ChatInv'
<1> USE ChatBounds
<1>1. CASE Chat!StartTurn
  <2> USE <1>1 DEF Chat!StartTurn
  <2>1. ChatTypes'
    BY ChatReads DEF ChatInv, ChatTypes, Kept
  <2>2. ChatOrder'
    BY DEF ChatInv, ChatOrder, Kept, Chat!running, Chat!Rested, Chat!NoPass, Chat!Quiet,
       Chat!NoCmd
  <2>3. ChatOwns'
    BY ChatOwnsSame DEF ChatInv
  <2> QED
    BY <2>1, <2>2, <2>3 DEF ChatInv
<1>2. CASE Chat!Add
  <2> DEFINE id == used.ids + 1
  <2>1. /\ turn = "running" /\ home = session /\ used.ids < MaxIds /\ session \in Kept
        /\ cmd.op = "none" /\ cmd.step = 0 /\ pass.at = "off"
    BY <1>2 DEF Chat!Add, ChatInv, ChatOrder, ChatTypes
  <2>2. /\ used' = [used EXCEPT !["ids"] = @ + 1]
        /\ log' = [log EXCEPT ![session] = Append(@, {id})]
        /\ owns' = [owns EXCEPT ![session] = @ \cup {id}]
        /\ UNCHANGED <<file, session, path, turn, started, turnPath, cmd, pass, home>>
    BY <1>2, <2>1 DEF Chat!Add, Chat!Spend, Chat!turnVars
  <2>3. id \in Nat /\ used'.ids = id /\ id <= MaxIds /\
          used' \in [{"ids", "passes", "folds", "commands"} -> Nat]
    BY <2>1, <2>2 DEF ChatInv, ChatTypes
  <2> HIDE DEF id
  <2>4. /\ Append(log[session], {id}) \in Messages
        /\ Len(Append(log[session], {id})) = Len(log[session]) + 1
        /\ Chat!Ids(Append(log[session], {id})) = Chat!Ids(log[session]) \cup {id}
    BY <2>1, <2>3, IdsAppend, ChatReads DEF ChatInv
  <2>5. /\ log' \in Seq(Messages) /\ Len(log') = Len(log)
        /\ owns' \in Seq(SUBSET Nat) /\ Len(owns') = Len(owns)
        /\ log'[session] = Append(log[session], {id}) /\ owns'[session] = owns[session] \cup {id}
        /\ \A n \in Kept : n # session => log'[n] = log[n] /\ owns'[n] = owns[n]
    BY <2>1, <2>2, <2>3, <2>4, ChatReads DEF ChatInv, ChatTypes, Kept
  <2>a. \A n \in Kept : /\ Len(log'[n]) <= id /\ Len(file[n]) <= id
                        /\ owns'[n] \subseteq 1..id
    <3> SUFFICES ASSUME NEW n \in Kept
                 PROVE  /\ Len(log'[n]) <= id /\ Len(file[n]) <= id
                        /\ owns'[n] \subseteq 1..id
      OBVIOUS
    <3>1. /\ Len(log[n]) <= used.ids /\ Len(file[n]) <= used.ids
          /\ owns[n] \subseteq 1..used.ids
      BY DEF ChatInv, ChatTypes
    <3>2. Len(log[n]) \in Nat /\ Len(file[n]) \in Nat /\ used.ids \in Nat /\ id = used.ids + 1
      BY ChatReads DEF ChatInv, Messages, id
    <3>3. 1..used.ids \cup {id} \subseteq 1..id
      BY <3>2
    <3> QED
      BY <2>4, <2>5, <3>1, <3>2, <3>3
  <2>6. ChatTypes'
    BY <2>1, <2>2, <2>3, <2>5, <2>a DEF ChatInv, ChatTypes, Kept
  <2>7. ChatOrder'
    BY <2>1, <2>2, <2>5 DEF ChatInv, ChatOrder, Kept, Chat!NoCmd
  <2>8. ChatOwns'
    <3> SUFFICES ASSUME NEW n \in Kept
                 PROVE  /\ owns'[n] = Chat!Ids(log'[n]) /\ Chat!Ids(file[n]) \subseteq owns'[n]
                        /\ n # session => owns'[n] = Chat!Ids(file[n])
      <4>1. ~(cmd'.step >= 3) /\ session' = session /\ file' = file /\ Kept' = Kept
        BY <2>1, <2>2, <2>5 DEF Kept
      <4> QED
        BY <4>1 DEF ChatOwns
    <3>1. /\ owns[n] = Chat!Ids(log[n]) /\ Chat!Ids(file[n]) \subseteq owns[n]
          /\ n # session => owns[n] = Chat!Ids(file[n])
      BY DEF ChatInv, ChatOwns
    <3>2. CASE n = session
      BY <2>4, <2>5, <3>1, <3>2
    <3>3. CASE n # session
      BY <2>5, <3>1, <3>3
    <3> QED
      BY <3>2, <3>3
  <2> QED
    BY <2>6, <2>7, <2>8 DEF ChatInv
<1>3. CASE Chat!Fold
  <2> DEFINE new == Chat!Compaction(log[session], 1)
  <2>1. /\ turn = "running" /\ session \in Kept /\ Len(log[session]) >= 3
        /\ cmd.op = "none" /\ cmd.step = 0 /\ pass.at = "off"
    BY <1>3 DEF Chat!Fold, ChatInv, ChatOrder, ChatTypes
  <2>2. /\ used' = [used EXCEPT !["folds"] = @ + 1]
        /\ log' = [log EXCEPT ![session] = new]
        /\ UNCHANGED <<file, session, path, turn, started, turnPath, cmd, pass, home, owns>>
    BY <1>3 DEF Chat!Fold, Chat!Spend, Chat!turnVars, Chat!Calm
  <2>3. used'.ids = used.ids /\ used' \in [{"ids", "passes", "folds", "commands"} -> Nat]
    BY <2>2 DEF ChatInv, ChatTypes
  <2>4. /\ new \in Messages /\ Len(new) <= Len(log[session])
        /\ Chat!Ids(new) = Chat!Ids(log[session])
    BY <2>1, IdsFolded, ChatReads DEF ChatInv
  <2> HIDE DEF new
  <2>5. /\ log' \in Seq(Messages) /\ Len(log') = Len(log) /\ log'[session] = new
        /\ \A n \in Kept : n # session => log'[n] = log[n]
        /\ Len(new) <= used.ids
    BY <2>1, <2>2, <2>4, ChatReads DEF ChatInv, ChatTypes, Kept, Messages
  <2>6. ChatTypes'
    BY <2>1, <2>2, <2>3, <2>4, <2>5 DEF ChatInv, ChatTypes, Kept
  <2>7. ChatOrder'
    BY <2>1, <2>2, <2>5 DEF ChatInv, ChatOrder, Kept, Chat!NoCmd
  <2>8. ChatOwns'
    BY <2>1, <2>2, <2>4, <2>5 DEF ChatInv, ChatTypes, ChatOwns, Kept
  <2> QED
    BY <2>6, <2>7, <2>8 DEF ChatInv
<1>4. CASE Chat!EndTurn
  <2> USE <1>4 DEF Chat!EndTurn, Chat!Calm
  <2>1. ChatTypes'
    BY DEF ChatInv, ChatTypes, Kept
  <2>2. ChatOrder'
    BY DEF ChatInv, ChatOrder, Kept, Chat!NoCmd
  <2>3. ChatOwns'
    BY ChatOwnsSame DEF ChatInv
  <2> QED
    BY <2>1, <2>2, <2>3 DEF ChatInv
<1>5. CASE Chat!SaveTurn
  <2>1. turn = "ending" /\ turnPath = session /\ turn' = "idle" /\ turnPath' = 0
        /\ UNCHANGED <<log, session, path, started, cmd, pass, used, home, owns>>
    BY <1>5 DEF Chat!SaveTurn, Chat!Calm, ChatInv, ChatOrder
  <2>2. Chat!Store(log[session], session)
    BY <1>5, <2>1 DEF Chat!SaveTurn
  <2>3. /\ file' \in Seq(Messages) /\ Len(file') = Len(log')
        /\ \A n \in Kept : Len(file'[n]) <= used.ids
        /\ ChatOwns'
    BY <2>1, <2>2, ChatSaves
  <2>4. ChatTypes'
    BY <2>1, <2>3 DEF ChatInv, ChatTypes, Kept
  <2>5. ChatOrder'
    BY <2>1 DEF ChatInv, ChatOrder, Kept, Chat!NoCmd
  <2> QED
    BY <2>3, <2>4, <2>5 DEF ChatInv
<1> QED
  BY <1>1, <1>2, <1>3, <1>4, <1>5

LEMMA ChatPass ==
  ASSUME ChatInv, Chat!PassStarts \/ Chat!PassReplaces \/ Chat!PassFails \/ Chat!PassSaves
  PROVE  ChatInv'
<1> USE ChatBounds
<1>1. CASE Chat!PassStarts
  <2>1. /\ turn = "idle" /\ cmd.op = "none" /\ cmd.step = 0 /\ Len(log[session]) >= 3
        /\ used' = [used EXCEPT !["passes"] = @ + 1]
        /\ pass' = [at |-> "on", read |-> log[session], path |-> 0]
        /\ UNCHANGED <<log, file, session, path, turn, started, turnPath, cmd, home, owns>>
    BY <1>1 DEF Chat!PassStarts, Chat!Spend, Chat!turnVars, Chat!Calm, Chat!Quiet, Chat!running,
                ChatInv, ChatOrder, ChatTypes, Chat!NoCmd
  <2>2. used'.ids = used.ids /\ used' \in [{"ids", "passes", "folds", "commands"} -> Nat]
    BY <2>1 DEF ChatInv, ChatTypes
  <2>3. log[session] \in Messages
    BY ChatReads DEF ChatInv, ChatTypes
  <2>4. ChatTypes'
    BY <2>1, <2>2, <2>3 DEF ChatInv, ChatTypes, Kept
  <2>5. ChatOrder'
    BY <2>1 DEF ChatInv, ChatOrder, Kept
  <2>6. ChatOwns'
    BY <2>1, ChatOwnsSame DEF ChatInv
  <2> QED
    BY <2>4, <2>5, <2>6 DEF ChatInv
<1>2. CASE Chat!PassReplaces
  <2> DEFINE new == Chat!Compaction(log[session], 1)
  <2>1. /\ pass.at = "on" /\ session \in Kept /\ Len(log[session]) >= 3 /\ pass.read = log[session]
        /\ turn = "idle" /\ cmd.op = "none" /\ cmd.step = 0 /\ session = path
    BY <1>2 DEF Chat!PassReplaces, ChatInv, ChatOrder, ChatTypes
  <2>2. /\ log' = [log EXCEPT ![session] = new]
        /\ pass' = [at |-> "save", read |-> <<>>, path |-> path]
        /\ UNCHANGED <<file, session, path, turn, started, turnPath, cmd, used, home, owns>>
    BY <1>2, <2>1 DEF Chat!PassReplaces, Chat!turnVars, Chat!Calm
  <2>3. pass' \in [at : {"off", "on", "save"}, read : Messages, path : Nat]
    BY <2>1, <2>2, IdsEmpty DEF Kept
  <2>4. /\ new \in Messages /\ Len(new) <= Len(log[session])
        /\ Chat!Ids(new) = Chat!Ids(log[session])
    BY <2>1, IdsFolded, ChatReads DEF ChatInv
  <2> HIDE DEF new
  <2>5. /\ log' \in Seq(Messages) /\ Len(log') = Len(log) /\ log'[session] = new
        /\ \A n \in Kept : n # session => log'[n] = log[n]
        /\ Len(new) <= used.ids
    BY <2>1, <2>2, <2>4, ChatReads DEF ChatInv, ChatTypes, Kept, Messages
  <2>6. ChatTypes'
    BY <2>1, <2>2, <2>3, <2>4, <2>5 DEF ChatInv, ChatTypes, Kept
  <2>7. ChatOrder'
    BY <2>1, <2>2, <2>5 DEF ChatInv, ChatOrder, Kept, Chat!NoCmd
  <2>8. ChatOwns'
    BY <2>1, <2>2, <2>4, <2>5 DEF ChatInv, ChatTypes, ChatOwns, Kept
  <2> QED
    BY <2>6, <2>7, <2>8 DEF ChatInv
<1>3. CASE Chat!PassFails
  <2> USE <1>3 DEF Chat!PassFails, Chat!Calm, Chat!NoPass
  <2>1. ChatTypes'
    BY IdsEmpty DEF ChatInv, ChatTypes, Kept, Chat!turnVars
  <2>2. ChatOrder'
    BY DEF ChatInv, ChatOrder, Kept, Chat!NoCmd, Chat!turnVars
  <2>3. ChatOwns'
    BY ChatOwnsSame DEF ChatInv
  <2> QED
    BY <2>1, <2>2, <2>3 DEF ChatInv
<1>4. CASE Chat!PassSaves
  <2>1. /\ pass.at = "save" /\ pass.path = session /\ pass' = Chat!NoPass
        /\ UNCHANGED <<log, session, path, turn, started, turnPath, cmd, used, home, owns>>
    BY <1>4 DEF Chat!PassSaves, Chat!Calm, Chat!turnVars, ChatInv, ChatOrder
  <2>2. Chat!Store(log[session], session)
    BY <1>4, <2>1 DEF Chat!PassSaves
  <2>3. /\ file' \in Seq(Messages) /\ Len(file') = Len(log')
        /\ \A n \in Kept : Len(file'[n]) <= used.ids
        /\ ChatOwns'
    BY <2>1, <2>2, ChatSaves
  <2>4. ChatTypes'
    BY <2>1, <2>3, IdsEmpty DEF ChatInv, ChatTypes, Kept, Chat!NoPass
  <2>5. ChatOrder'
    BY <2>1 DEF ChatInv, ChatOrder, Kept, Chat!NoPass, Chat!NoCmd
  <2> QED
    BY <2>3, <2>4, <2>5 DEF ChatInv
<1> QED
  BY <1>1, <1>2, <1>3, <1>4

LEMMA ChatSnapshots ==
  ASSUME ChatInv,
         \/ \E o \in Chat!All, arg \in 0 .. MaxIds : Chat!Begin(o, arg)
         \/ Chat!SnapshotPath \/ Chat!SnapshotSave
  PROVE  ChatInv'
<1> USE ChatBounds
<1>1. ASSUME NEW o \in Chat!All, NEW arg \in 0 .. MaxIds, Chat!Begin(o, arg)
      PROVE  ChatInv'
  <2>1. /\ cmd.op = "none" /\ cmd.step = 0 /\ turn = "idle" /\ pass.at = "off"
        /\ o \in {"new", "branch", "fork"} => Len(log) < MaxSessions
        /\ o = "switch" => arg \in Kept
        /\ o = "fork" => arg \in 0 .. Len(log[session]) - 1
        /\ used' = [used EXCEPT !["commands"] = @ + 1]
        /\ cmd' = [op |-> o, step |-> 1, path |-> 0, arg |-> arg]
        /\ UNCHANGED <<log, file, session, path, turn, started, turnPath, pass, home, owns>>
    <3>1. cmd = Chat!NoCmd /\ pass = Chat!NoPass /\ turn = "idle"
      BY <1>1 DEF Chat!Begin, Chat!Quiet, Chat!Rested, Chat!Gate, Chat!WhileIdle, Chat!running,
                  ChatInv, ChatOrder
    <3>2. o = "switch" => arg \in DOMAIN log
      BY <1>1 DEF Chat!Begin, Chat!Sessions
    <3> QED
      BY <1>1, <3>1, <3>2 DEF Chat!Begin, Chat!Spend, Chat!turnVars, Chat!Calm, Chat!NoCmd,
         Chat!NoPass,
                  ChatInv, ChatTypes, Kept
  <2>2. used'.ids = used.ids /\ used' \in [{"ids", "passes", "folds", "commands"} -> Nat]
    BY <2>1 DEF ChatInv, ChatTypes
  <2>3. o # "none" /\ arg \in Nat
    BY DEF Chat!All
  <2>4. cmd' \in Orders
    BY <2>1, <2>3 DEF Orders
  <2>8. ChatTypes'
    BY <2>1, <2>2, <2>4 DEF ChatInv, ChatTypes, Kept
  <2>5. Len(log[session]) \in Nat
    BY ChatReads DEF ChatInv, ChatTypes, Messages
  <2>6. ChatOrder'
    BY <2>1, <2>3, <2>5 DEF ChatInv, ChatOrder, Kept, Chat!NoCmd
  <2>7. ChatOwns'
    BY <2>1, ChatOwnsSame DEF ChatInv
  <2> QED
    BY <2>8, <2>6, <2>7 DEF ChatInv
<1>2. CASE Chat!SnapshotPath
  <2>1. /\ cmd.op \in Chat!All /\ cmd.op # "none" /\ cmd.step = 1
        /\ cmd' = [cmd EXCEPT !.step = 2, !.path = path]
        /\ UNCHANGED <<log, file, session, path, turn, started, turnPath, pass, used, home, owns>>
    BY <1>2 DEF Chat!SnapshotPath, Chat!At, Chat!Calm, Chat!turnVars, Chat!All
  <2>2. /\ cmd' \in Orders
        /\ cmd'.op = cmd.op /\ cmd'.step = 2 /\ cmd'.path = path /\ cmd'.arg = cmd.arg
    <3>1. cmd \in Orders /\ path \in Nat /\ 2 \in 0..4
      BY DEF ChatInv, ChatTypes, Kept
    <3>2. cmd' = [cmd EXCEPT !.step = 2, !.path = path]
      BY <2>1
    <3> QED
      BY <3>1, <3>2 DEF Orders
  <2>3. ChatTypes'
    BY <2>1, <2>2 DEF ChatInv, ChatTypes, Kept
  <2>4. ChatOrder'
    <3>1. /\ cmd.op # "none" /\ cmd.step = 1 /\ cmd'.op = cmd.op /\ cmd'.step = 2
          /\ cmd'.path = path /\ cmd'.arg = cmd.arg
          /\ UNCHANGED <<log, session, path, turn, turnPath, pass, home>>
      BY <2>1, <2>2
    <3>2. cmd' # Chat!NoCmd
      BY <3>1 DEF Chat!NoCmd
    <3> QED
      BY <3>1, <3>2 DEF ChatInv, ChatOrder, Kept
  <2>5. ChatOwns'
    BY <2>1, <2>2, ChatOwnsSame DEF ChatInv
  <2> QED
    BY <2>3, <2>4, <2>5 DEF ChatInv
<1>3. CASE Chat!SnapshotSave
  <2>1. /\ cmd.op \in Chat!All /\ cmd.op # "none" /\ cmd.step = 2 /\ cmd.path = session
        /\ cmd' = [cmd EXCEPT !.step = 3]
        /\ UNCHANGED <<log, session, path, turn, started, turnPath, pass, used, home, owns>>
        /\ Chat!Store(log[session], session)
    BY <1>3 DEF Chat!SnapshotSave, Chat!SaveLeft, Chat!Step, Chat!At, Chat!Calm, Chat!turnVars,
       Chat!All,
                ChatInv, ChatOrder
  <2>2. /\ cmd' \in Orders
        /\ cmd'.op = cmd.op /\ cmd'.step = 3 /\ cmd'.arg = cmd.arg
    <3>1. cmd \in Orders /\ 3 \in 0..4
      BY DEF ChatInv, ChatTypes
    <3> QED
      BY <2>1, <3>1, OrderSteps
  <2>3. /\ file' \in Seq(Messages) /\ Len(file') = Len(log')
        /\ \A n \in Kept : Len(file'[n]) <= used.ids
        /\ ChatOwns'
    BY <2>1, ChatSaves
  <2>4. ChatTypes'
    BY <2>1, <2>2, <2>3 DEF ChatInv, ChatTypes, Kept
  <2>5. ChatOrder'
    BY <2>1, <2>2 DEF ChatInv, ChatOrder, Kept, Chat!NoCmd
  <2> QED
    BY <2>3, <2>4, <2>5 DEF ChatInv
<1> QED
  BY <1>1, <1>2, <1>3

(* A new conversation takes the next number; the others keep theirs.       *)
LEMMA ChatMinted ==
  ASSUME ChatInv, NEW m \in Messages, NEW f \in Messages, Chat!Mint(m, f), Len(log) < MaxSessions,
         Len(m) <= used.ids, Len(f) <= used.ids, Chat!Ids(m) \subseteq 1..used.ids
  PROVE  /\ log' \in Seq(Messages) /\ file' \in Seq(Messages) /\ owns' \in Seq(SUBSET Nat)
         /\ Len(log') = Len(log) + 1 /\ Len(file') = Len(log') /\ Len(owns') = Len(log')
         /\ Len(log') \in 1..MaxSessions
         /\ \A n \in Kept : log'[n] = log[n] /\ file'[n] = file[n] /\ owns'[n] = owns[n]
         /\ log'[Len(log) + 1] = m /\ file'[Len(log) + 1] = f /\ owns'[Len(log) + 1] = Chat!Ids(m)
         /\ Kept' = Kept \cup {Len(log) + 1} /\ Len(log) \in Nat
         /\ \A n \in Kept' : /\ Len(log'[n]) <= used.ids /\ Len(file'[n]) <= used.ids
                             /\ owns'[n] \subseteq 1..used.ids
<1>1. Len(log) \in Nat /\ Len(file) = Len(log) /\ Len(owns) = Len(log) /\ Len(log) >= 1
  BY DEF ChatInv, ChatTypes
<1>2. Chat!Ids(m) \in SUBSET Nat
  BY IdsAre
<1>3. /\ log' \in Seq(Messages) /\ Len(log') = Len(log) + 1
      /\ \A n \in Kept : log'[n] = log[n]
      /\ log'[Len(log) + 1] = m
  BY <1>1 DEF ChatInv, ChatTypes, Chat!Mint, Kept
<1>4. /\ file' \in Seq(Messages) /\ Len(file') = Len(log) + 1
      /\ \A n \in Kept : file'[n] = file[n]
      /\ file'[Len(log) + 1] = f
  BY <1>1 DEF ChatInv, ChatTypes, Chat!Mint, Kept
<1>5. /\ owns' \in Seq(SUBSET Nat) /\ Len(owns') = Len(log) + 1
      /\ \A n \in Kept : owns'[n] = owns[n]
      /\ owns'[Len(log) + 1] = Chat!Ids(m)
  <2>1. owns \in Seq(SUBSET Nat) /\ owns' = Append(owns, Chat!Ids(m))
    BY DEF ChatInv, ChatTypes, Chat!Mint
  <2> QED
    BY <1>1, <1>2, <2>1 DEF Kept
<1>6. Kept' = Kept \cup {Len(log) + 1}
  BY <1>1, <1>3 DEF Kept
<1>7. Len(log') \in 1..MaxSessions
  BY <1>1, <1>3, ChatBounds
<1>8. \A n \in Kept : /\ Len(log[n]) <= used.ids /\ Len(file[n]) <= used.ids
                     /\ owns[n] \subseteq 1..used.ids
  BY DEF ChatInv, ChatTypes
<1>9. \A n \in Kept' : /\ Len(log'[n]) <= used.ids /\ Len(file'[n]) <= used.ids
                      /\ owns'[n] \subseteq 1..used.ids
  BY <1>3, <1>4, <1>5, <1>6, <1>8
<1> QED
  BY <1>1, <1>3, <1>4, <1>5, <1>6, <1>7, <1>9

LEMMA ChatNew == ASSUME ChatInv, Chat!NewPath \/ Chat!NewSet PROVE ChatInv'
<1>1. CASE Chat!NewPath
  <2>1. /\ cmd.op = "new" /\ cmd.step = 3 /\ session = path /\ Len(log) < MaxSessions
        /\ cmd' = [cmd EXCEPT !.step = 4] /\ path' = Len(log) + 1
        /\ Chat!Mint(<<>>, <<>>)
        /\ UNCHANGED <<session, turn, started, turnPath, pass, used, home>>
    BY <1>1 DEF Chat!NewPath, Chat!At, Chat!Step, Chat!turnVars, ChatInv, ChatOrder
  <2>2. /\ cmd' \in Orders /\ cmd'.op = "new" /\ cmd'.step = 4 /\ cmd'.arg = cmd.arg
    <3>1. cmd \in Orders /\ 4 \in 0..4
      BY DEF ChatInv, ChatTypes
    <3> QED
      BY <2>1, <3>1, OrderSteps
  <2>3. /\ log' \in Seq(Messages) /\ file' \in Seq(Messages) /\ owns' \in Seq(SUBSET Nat)
        /\ Len(log') = Len(log) + 1 /\ Len(file') = Len(log') /\ Len(owns') = Len(log')
        /\ Len(log') \in 1..MaxSessions
        /\ \A n \in Kept : log'[n] = log[n] /\ file'[n] = file[n] /\ owns'[n] = owns[n]
        /\ log'[Len(log) + 1] = <<>> /\ file'[Len(log) + 1] = <<>> /\ owns'[Len(log) + 1] = {}
        /\ Kept' = Kept \cup {Len(log) + 1} /\ Len(log) \in Nat
        /\ \A n \in Kept' : /\ Len(log'[n]) <= used.ids /\ Len(file'[n]) <= used.ids
                            /\ owns'[n] \subseteq 1..used.ids
    <3>1. Len(<<>>) <= used.ids /\ Chat!Ids(<<>>) \subseteq 1..used.ids
      BY IdsEmpty DEF ChatInv, ChatTypes
    <3> QED
      BY <2>1, <3>1, IdsEmpty, ChatMinted
  <2>4. ChatTypes'
    BY <2>1, <2>2, <2>3 DEF ChatInv, ChatTypes
  <2>5. ChatOrder'
    <3>1. cmd' # Chat!NoCmd
      BY <2>2 DEF Chat!NoCmd
    <3>2. cmd.op # "none"
      BY <2>1
    <3>3. turn = "idle" /\ pass.at = "off" /\ turnPath = 0
      BY <3>2 DEF ChatInv, ChatOrder
    <3> QED
      BY <2>1, <2>2, <3>1, <3>3 DEF ChatInv, ChatOrder
  <2>6. ChatOwns'
    <3>1. \A n \in Kept : owns[n] = Chat!Ids(log[n]) /\ owns[n] = Chat!Ids(file[n])
      BY <2>1 DEF ChatInv, ChatOwns
    <3>2. \A n \in Kept' : owns'[n] = Chat!Ids(log'[n]) /\ owns'[n] = Chat!Ids(file'[n])
      BY <2>3, <3>1, IdsEmpty
    <3> QED
      BY <3>2 DEF ChatOwns
  <2> QED
    BY <2>4, <2>5, <2>6 DEF ChatInv
<1>2. CASE Chat!NewSet
  <2>1. /\ cmd.op = "new" /\ cmd.step = 4 /\ session' = path /\ cmd' = Chat!NoCmd
        /\ UNCHANGED <<log, file, path, turn, started, turnPath, pass, used, home, owns>>
    BY <1>2 DEF Chat!NewSet, Chat!At, Chat!Calm, Chat!turnVars
  <2>2. turn = "idle" /\ pass.at = "off" /\ turnPath = 0
    BY <2>1 DEF ChatInv, ChatOrder
  <2>3. Chat!NoCmd \in Orders /\ Chat!NoCmd.op = "none" /\ Chat!NoCmd.step = 0
    BY DEF Chat!NoCmd, Orders
  <2>4. ChatTypes'
    BY <2>1, <2>3 DEF ChatInv, ChatTypes, Kept
  <2>5. ChatOrder'
    BY <2>1, <2>2, <2>3 DEF ChatInv, ChatOrder
  <2>6. ChatOwns'
    BY <2>1, <2>3 DEF ChatInv, ChatOwns, Kept
  <2> QED
    BY <2>4, <2>5, <2>6 DEF ChatInv
<1> QED
  BY <1>1, <1>2

LEMMA ChatFork == ASSUME ChatInv, Chat!Fork \/ Chat!ForkPath PROVE ChatInv'
<1>1. CASE Chat!Fork
  <2> DEFINE m == Chat!Copied
  <2>1. /\ cmd.op \in {"branch", "fork"} /\ cmd.step = 3 /\ session = path /\ Len(log) < MaxSessions
        /\ cmd' = [cmd EXCEPT !.step = 4] /\ session' = Len(log) + 1
        /\ Chat!Mint(m, m)
        /\ UNCHANGED <<path, turn, started, turnPath, pass, used, home>>
    BY <1>1 DEF Chat!Fork, Chat!At, Chat!Step, Chat!turnVars, ChatInv, ChatOrder
  <2>2. /\ cmd' \in Orders /\ cmd'.op = cmd.op /\ cmd'.step = 4 /\ cmd'.arg = cmd.arg
    <3>1. cmd \in Orders /\ 4 \in 0..4
      BY DEF ChatInv, ChatTypes
    <3> QED
      BY <2>1, <3>1, OrderSteps
  <2>3. m \in Messages /\ Len(m) <= used.ids /\ Chat!Ids(m) \subseteq 1..used.ids
    <3>1. /\ log[session] \in Messages /\ Len(log[session]) \in 0..used.ids
          /\ Chat!Ids(log[session]) \subseteq 1..used.ids /\ used.ids \in Nat
      BY ChatReads DEF ChatInv, ChatTypes, ChatOwns
    <3>2. CASE cmd.op = "branch"
      BY <3>1, <3>2 DEF Chat!Copied
    <3>3. CASE cmd.op = "fork"
      <4>1. cmd.arg \in 0..Len(log[session])
        BY <2>1, <3>1, <3>3 DEF ChatInv, ChatOrder, ChatTypes, Orders
      <4>2. m = SubSeq(log[session], 1, cmd.arg)
        BY <3>1, <3>3, <4>1, MinOfTwo DEF Chat!Copied
      <4> HIDE DEF m
      <4>3. /\ m \in Messages /\ Len(m) = cmd.arg
            /\ \A i \in 1..Len(m) : m[i] = log[session][i] /\ i \in 1..Len(log[session])
        BY <3>1, <4>1, <4>2 DEF Messages
      <4>4. Chat!Ids(m) \subseteq Chat!Ids(log[session])
        <5> SUFFICES ASSUME NEW x \in Chat!Ids(m)
                     PROVE  x \in Chat!Ids(log[session])
          OBVIOUS
        <5>1. PICK i \in 1..Len(m) : x \in m[i]
          BY <4>3, IdsAre
        <5> QED
          BY <3>1, <4>3, <5>1, IdsAre
      <4> QED
        BY <3>1, <4>1, <4>3, <4>4
    <3> QED
      BY <2>1, <3>2, <3>3
  <2> HIDE DEF m
  <2>4. /\ log' \in Seq(Messages) /\ file' \in Seq(Messages) /\ owns' \in Seq(SUBSET Nat)
        /\ Len(log') = Len(log) + 1 /\ Len(file') = Len(log') /\ Len(owns') = Len(log')
        /\ Len(log') \in 1..MaxSessions
        /\ \A n \in Kept : log'[n] = log[n] /\ file'[n] = file[n] /\ owns'[n] = owns[n]
        /\ log'[Len(log) + 1] = m /\ file'[Len(log) + 1] = m /\ owns'[Len(log) + 1] = Chat!Ids(m)
        /\ Kept' = Kept \cup {Len(log) + 1} /\ Len(log) \in Nat
        /\ \A n \in Kept' : /\ Len(log'[n]) <= used.ids /\ Len(file'[n]) <= used.ids
                            /\ owns'[n] \subseteq 1..used.ids
    BY <2>1, <2>3, ChatMinted
  <2>5. ChatTypes'
    BY <2>1, <2>2, <2>4 DEF ChatInv, ChatTypes
  <2>6. ChatOrder'
    <3>1. cmd' # Chat!NoCmd
      BY <2>1, <2>2 DEF Chat!NoCmd
    <3>2. turn = "idle" /\ pass.at = "off" /\ turnPath = 0
      BY <2>1 DEF ChatInv, ChatOrder
    <3>3. /\ cmd'.op \in {"branch", "fork"} /\ cmd'.step = 4 /\ session' = Len(log')
          /\ UNCHANGED <<turn, turnPath, pass, home>>
      BY <2>1, <2>2, <2>4
    <3>4. Gating = "patient"
      BY DEF ChatInv, ChatOrder
    <3> QED
      BY <3>1, <3>2, <3>3, <3>4 DEF ChatOrder
  <2>7. ChatOwns'
    <3>1. \A n \in Kept : owns[n] = Chat!Ids(log[n]) /\ owns[n] = Chat!Ids(file[n])
      BY <2>1 DEF ChatInv, ChatOwns
    <3>2. \A n \in Kept' : owns'[n] = Chat!Ids(log'[n]) /\ owns'[n] = Chat!Ids(file'[n])
      BY <2>4, <3>1
    <3> QED
      BY <3>2 DEF ChatOwns
  <2> QED
    BY <2>5, <2>6, <2>7 DEF ChatInv
<1>2. CASE Chat!ForkPath
  <2>1. /\ cmd.op \in {"branch", "fork"} /\ cmd.step = 4 /\ path' = Len(log) /\ cmd' = Chat!NoCmd
        /\ UNCHANGED <<log, file, session, turn, started, turnPath, pass, used, home, owns>>
    BY <1>2 DEF Chat!ForkPath, Chat!At, Chat!Calm, Chat!turnVars
  <2>2. turn = "idle" /\ pass.at = "off" /\ turnPath = 0 /\ session = Len(log)
    BY <2>1 DEF ChatInv, ChatOrder
  <2>3. Chat!NoCmd \in Orders /\ Chat!NoCmd.op = "none" /\ Chat!NoCmd.step = 0
    BY DEF Chat!NoCmd, Orders
  <2>4. ChatTypes'
    BY <2>1, <2>2, <2>3 DEF ChatInv, ChatTypes, Kept
  <2>5. ChatOrder'
    BY <2>1, <2>2, <2>3 DEF ChatInv, ChatOrder
  <2>6. ChatOwns'
    BY <2>1, <2>3 DEF ChatInv, ChatOwns, Kept
  <2> QED
    BY <2>4, <2>5, <2>6 DEF ChatInv
<1> QED
  BY <1>1, <1>2

LEMMA ChatSwitch == ASSUME ChatInv, Chat!Switch \/ Chat!SwitchPath PROVE ChatInv'
<1>1. CASE Chat!Switch
  <2>1. /\ cmd.op = "switch" /\ cmd.step = 3 /\ session = path /\ cmd.arg \in Kept
        /\ cmd' = [cmd EXCEPT !.step = 4] /\ session' = cmd.arg
        /\ log' = [log EXCEPT ![cmd.arg] = file[cmd.arg]]
        /\ UNCHANGED <<file, path, turn, started, turnPath, pass, used, home, owns>>
    BY <1>1 DEF Chat!Switch, Chat!Loaded, Chat!At, Chat!Step, Chat!Calm, Chat!turnVars, ChatInv,
       ChatOrder
  <2>2. /\ cmd' \in Orders /\ cmd'.op = "switch" /\ cmd'.step = 4 /\ cmd'.arg = cmd.arg
    <3>1. cmd \in Orders /\ 4 \in 0..4
      BY DEF ChatInv, ChatTypes
    <3> QED
      BY <2>1, <3>1, OrderSteps
  <2>3. /\ log' \in Seq(Messages) /\ Len(log') = Len(log) /\ log'[cmd.arg] = file[cmd.arg]
        /\ \A n \in Kept : n # cmd.arg => log'[n] = log[n]
    BY <2>1 DEF ChatInv, ChatTypes, Kept
  <2>4. ChatTypes'
    BY <2>1, <2>2, <2>3 DEF ChatInv, ChatTypes, Kept
  <2>5. ChatOrder'
    <3>1. cmd' # Chat!NoCmd
      BY <2>2 DEF Chat!NoCmd
    <3>2. turn = "idle" /\ pass.at = "off" /\ turnPath = 0
      BY <2>1 DEF ChatInv, ChatOrder
    <3> QED
      BY <2>1, <2>2, <2>3, <3>1, <3>2 DEF ChatInv, ChatOrder, Kept
  <2>6. ChatOwns'
    <3>1. \A n \in Kept : owns[n] = Chat!Ids(log[n]) /\ owns[n] = Chat!Ids(file[n])
      BY <2>1 DEF ChatInv, ChatOwns
    <3>2. \A n \in Kept : owns[n] = Chat!Ids(log'[n]) /\ owns[n] = Chat!Ids(file[n])
      BY <2>3, <3>1
    <3> QED
      BY <2>1, <2>3, <3>2 DEF ChatOwns, Kept
  <2> QED
    BY <2>4, <2>5, <2>6 DEF ChatInv
<1>2. CASE Chat!SwitchPath
  <2>1. /\ cmd.op = "switch" /\ cmd.step = 4 /\ path' = cmd.arg /\ cmd' = Chat!NoCmd
        /\ UNCHANGED <<log, file, session, turn, started, turnPath, pass, used, home, owns>>
    BY <1>2 DEF Chat!SwitchPath, Chat!At, Chat!Calm, Chat!turnVars
  <2>2. turn = "idle" /\ pass.at = "off" /\ turnPath = 0 /\ session = cmd.arg
    BY <2>1 DEF ChatInv, ChatOrder
  <2>3. Chat!NoCmd \in Orders /\ Chat!NoCmd.op = "none" /\ Chat!NoCmd.step = 0
    BY DEF Chat!NoCmd, Orders
  <2>4. ChatTypes'
    BY <2>1, <2>2, <2>3 DEF ChatInv, ChatTypes, Kept
  <2>5. ChatOrder'
    BY <2>1, <2>2, <2>3 DEF ChatInv, ChatOrder
  <2>6. ChatOwns'
    BY <2>1, <2>3 DEF ChatInv, ChatOwns, Kept
  <2> QED
    BY <2>4, <2>5, <2>6 DEF ChatInv
<1> QED
  BY <1>1, <1>2

LEMMA ChatStep == ChatInv /\ [Chat!Next]_(Chat!vars) => ChatInv'
<1> SUFFICES ASSUME ChatInv, [Chat!Next]_(Chat!vars)
             PROVE  ChatInv'
  OBVIOUS
<1>1. CASE UNCHANGED Chat!vars
  BY <1>1 DEF ChatInv, ChatTypes, ChatOrder, ChatOwns, Kept, Chat!vars, Chat!turnVars
<1> QED
  BY <1>1, ChatTurn, ChatPass, ChatSnapshots, ChatNew, ChatFork, ChatSwitch DEF Chat!Next

LEMMA ChatHolds == ChatInv => Chat!TypeOK /\ Chat!OwnConversation /\ Chat!NothingLost
<1> SUFFICES ASSUME ChatInv
             PROVE  Chat!TypeOK /\ Chat!OwnConversation /\ Chat!NothingLost
  OBVIOUS
<1>1. DOMAIN log = Kept /\ Chat!Sessions = Kept
  BY DEF ChatInv, ChatTypes, Kept, Chat!Sessions
<1>2. Chat!OwnConversation
  BY <1>1 DEF ChatInv, ChatOwns, Chat!OwnConversation
<1>3. Chat!NothingLost
  <2>1. Chat!NothingForgotten
    BY <1>1 DEF ChatInv, ChatOwns, Chat!NothingForgotten
  <2>2. Chat!LeftIsSaved
    BY <1>1 DEF ChatInv, ChatOwns, Chat!LeftIsSaved
  <2> QED
    BY <2>1, <2>2 DEF Chat!NothingLost
<1>4. Chat!TypeOK
  <2>1. \A n \in Kept : Chat!Ids(log[n]) \cup Chat!Ids(file[n]) \subseteq 1..used.ids
    BY DEF ChatInv, ChatTypes, ChatOwns
  <2>2. /\ cmd.op \in Chat!All \cup {"none"} /\ cmd.step \in 0..4
        /\ pass.at \in {"off", "on", "save"}
    BY DEF ChatInv, ChatTypes, Orders
  <2>3. turnPath \in Kept \cup {0} /\ (turnPath # 0 <=> turn = "ending")
    BY DEF ChatInv, ChatTypes, ChatOrder, Kept
  <2> QED
    BY <1>1, <2>1, <2>2, <2>3 DEF ChatInv, ChatTypes, Chat!TypeOK
<1> QED
  BY <1>2, <1>3, <1>4

-----------------------------------------------------------------------------
(* Saved facts, their index and the notes (memory/store.go, control).      *)

Issued == 1..mVersion
Entries == [stem : Facts, name : Facts, ver : Issued]
Revisions == [kind : {"none", "save", "delete"}, name : Facts \cup {"none"}, ver : Nat,
              link : Facts \cup {"none"}]
\* The line of every fact of a set.
Lines(names) == {[stem |-> n, name |-> n, ver |-> mFiles[n]] : n \in {m \in names : mFiles[m] # 0}}
Others(w) == Facts \ {op[w].name}

MemTypes ==
  /\ mVersion \in Nat /\ mFiles \in [Facts -> {0} \cup Issued]
  /\ mAt \in [Writers -> {"idle", "file", "read", "flush", "note"}]
  /\ op \in [Writers -> Revisions]
  /\ \A w \in Writers : mAt[w] # "idle" =>
       op[w].name \in Facts /\ op[w].ver \in Issued /\ op[w].kind \in {"save", "delete"}
  /\ index \subseteq Entries /\ kept \in [Writers -> SUBSET Entries]
  /\ pending \in Seq(Issued) /\ told \subseteq Issued /\ mSession \subseteq Issued

(* A change alone, from the index that follows the files to the next.      *)
AloneInv ==
  ~rivals =>
    /\ \A v, w \in Memory!Busy : v = w
    /\ Memory!Busy = {} => index = Lines(Facts)
    /\ \A w \in Memory!Busy :
         /\ op[w].link = "none"
         /\ mAt[w] = "file" => index = Lines(Facts)
         /\ mAt[w] \in {"read", "flush"} =>
              {l \in index : l.stem # op[w].name} = Lines(Others(w))
         /\ mAt[w] \in {"read", "flush", "note"} =>
              mFiles[op[w].name] = IF op[w].kind = "save" THEN op[w].ver ELSE 0
         /\ mAt[w] = "flush" => kept[w] = Lines(Others(w))
         /\ mAt[w] = "note" => index = Lines(Facts)

(* A version is one change's, and waits, is told or refused once.          *)
NotesInv ==
  /\ \A v, w \in Memory!Busy : op[v].ver = op[w].ver => v = w
  /\ \A w \in Memory!Busy : op[w].ver \notin Memory!ToSet(pending) \cup told
  /\ mSession \subseteq told \cup Memory!ToSet(pending) \cup refused
  /\ IsFiniteSet(Memory!ToSet(pending)) /\ Cardinality(Memory!ToSet(pending)) = Len(pending)
  /\ Memory!ToSet(pending) \cap told = {}

MemInv == MemTypes /\ AloneInv /\ NotesInv

LEMMA MemCounts == \A S : Memory!Cardinality(S) = Cardinality(S)
BY DEF Cardinality, Memory!Cardinality

LEMMA SeqGrows == ASSUME NEW S, NEW T, S \subseteq T, NEW s \in Seq(S) PROVE s \in Seq(T)
OBVIOUS

LEMMA MemInit == Memory!Init => MemInv
<1> SUFFICES ASSUME Memory!Init PROVE MemInv
  OBVIOUS
<1>1. Memory!Busy = {} /\ Memory!ToSet(pending) = {}
  BY DEF Memory!Init, Memory!Busy, Memory!ToSet
<1>2. MemTypes
  BY DEF Memory!Init, MemTypes, Issued, Entries, Revisions, Memory!NoOp
<1>3. AloneInv
  BY <1>1 DEF Memory!Init, AloneInv, Lines
<1>4. NotesInv
  BY <1>1, FS_EmptySet DEF Memory!Init, NotesInv
<1> QED
  BY <1>2, <1>3, <1>4 DEF MemInv

LEMMA MemBegin == ASSUME MemInv, NEW w \in Writers, Memory!Begin(w) PROVE MemInv'
<1>1. PICK n \in Facts, k \in {"save", "delete"}, l \in Facts \cup {"none"} :
        op' = [op EXCEPT ![w] = [kind |-> k, name |-> n, ver |-> mVersion + 1, link |-> l]]
  BY DEF Memory!Begin
<1>2. /\ mAt[w] = "idle" /\ mVersion' = mVersion + 1 /\ mAt' = [mAt EXCEPT ![w] = "file"]
      /\ rivals' = (rivals \/ Memory!Busy # {} \/ op'[w].link # "none")
      /\ UNCHANGED <<mFiles, index, kept, pending, told, mSession, refused>>
  BY DEF Memory!Begin, Memory!Goto, Memory!disk
<1>3. op'[w] = [kind |-> k, name |-> n, ver |-> mVersion + 1, link |-> l]
      /\ \A v \in Writers : v # w => op'[v] = op[v] /\ mAt'[v] = mAt[v]
  BY <1>1, <1>2 DEF MemInv, MemTypes
<1>4. Memory!Busy' = Memory!Busy \cup {w} /\ w \notin Memory!Busy /\ mAt'[w] = "file"
  BY <1>2 DEF MemInv, MemTypes, Memory!Busy
<1>5. Issued \subseteq Issued' /\ mVersion' \in Issued' /\ mVersion' \notin Issued /\
        mVersion' \in Nat
  BY <1>2 DEF MemInv, MemTypes, Issued
<1>6. MemTypes'
  <2>1. op' \in [Writers -> Revisions]
    <3>1. [kind |-> k, name |-> n, ver |-> mVersion + 1, link |-> l] \in Revisions
      BY <1>2, <1>5 DEF Revisions
    <3> QED
      BY <1>1, <3>1 DEF MemInv, MemTypes
  <2>2. pending \in Seq(Issued')
    BY <1>5, SeqGrows DEF MemInv, MemTypes
  <2>3. mFiles \in [Facts -> {0} \cup Issued'] /\ told \subseteq Issued' /\ mSession \subseteq Issued'
    BY <1>5 DEF MemInv, MemTypes
  <2>4. \A v \in Writers : mAt'[v] # "idle" =>
          op'[v].name \in Facts /\ op'[v].ver \in Issued' /\ op'[v].kind \in {"save", "delete"}
    <3> SUFFICES ASSUME NEW v \in Writers, mAt'[v] # "idle"
                 PROVE  op'[v].name \in Facts /\ op'[v].ver \in Issued' /\
                          op'[v].kind \in {"save", "delete"}
      OBVIOUS
    <3>1. CASE v = w
      BY <1>2, <1>3, <1>5, <3>1
    <3>2. CASE v # w
      BY <1>3, <1>5, <3>2 DEF MemInv, MemTypes
    <3> QED
      BY <3>1, <3>2
  <2>5. index \subseteq Entries' /\ kept \in [Writers -> SUBSET Entries']
    <3>1. Entries \subseteq Entries'
      BY <1>5 DEF Entries
    <3> QED
      BY <3>1 DEF MemInv, MemTypes
  <2>6. mAt' \in [Writers -> {"idle", "file", "read", "flush", "note"}]
    BY <1>2 DEF MemInv, MemTypes
  <2> QED
    BY <1>2, <1>5, <2>1, <2>2, <2>3, <2>4, <2>5, <2>6 DEF MemTypes
<1>7. AloneInv'
  <2> SUFFICES ASSUME ~rivals', ~rivals, Memory!Busy = {}, l = "none"
               PROVE  AloneInv'
    <3>1. op'[w].link = l
      BY <1>3
    <3>2. ~rivals' => ~rivals /\ Memory!Busy = {} /\ l = "none"
      BY <1>2, <3>1, Zenon
    <3> QED
      BY <3>2 DEF AloneInv
  <2>1. index = Lines(Facts) /\ Lines(Facts)' = Lines(Facts)
    BY <1>2 DEF MemInv, AloneInv, Lines
  <2> QED
    BY <1>2, <1>3, <1>4, <2>1 DEF AloneInv
<1>8. NotesInv'
  <2>1. \A v \in Memory!Busy : op[v].ver \in Issued /\ op'[v] = op[v] /\ v # w
    BY <1>3, <1>4 DEF MemInv, MemTypes, Memory!Busy
  <2>2. Memory!ToSet(pending) \subseteq Issued /\ told \subseteq Issued /\ op'[w].ver = mVersion'
    BY <1>2, <1>3 DEF MemInv, MemTypes, Memory!ToSet
  <2>3. UNCHANGED Memory!ToSet(pending)
    BY <1>2 DEF Memory!ToSet
  <2> QED
    BY <1>2, <1>4, <1>5, <2>1, <2>2, <2>3 DEF MemInv, NotesInv
<1> QED
  BY <1>6, <1>7, <1>8 DEF MemInv

LEMMA MemAlone ==
  ASSUME MemInv, ~rivals, NEW w \in Writers, mAt[w] # "idle"
  PROVE  /\ Memory!Busy = {w} /\ op[w].link = "none"
         /\ op[w].name \in Facts /\ op[w].ver \in Issued /\ op[w].ver # 0
         /\ op[w].kind \in {"save", "delete"}
BY DEF MemInv, MemTypes, AloneInv, Memory!Busy, Issued

(* A step of a writer that changes no note.                                *)
LEMMA MemNotesSame ==
  ASSUME MemInv, NEW w \in Writers, mAt[w] # "idle", NEW l, l # "idle", mAt' = [mAt EXCEPT ![w] = l],
         UNCHANGED <<op, mVersion, pending, told, mSession, refused>>
  PROVE  /\ Memory!Busy' = Memory!Busy /\ NotesInv'
         /\ mAt'[w] = l /\ \A v \in Writers : v # w => mAt'[v] = mAt[v]
<1>1. mAt'[w] = l /\ \A v \in Writers : v # w => mAt'[v] = mAt[v]
  BY DEF MemInv, MemTypes
<1>2. Memory!Busy' = Memory!Busy
  BY <1>1 DEF Memory!Busy
<1> QED
  BY <1>1, <1>2 DEF MemInv, NotesInv, Memory!ToSet

LEMMA MemFile == ASSUME MemInv, NEW w \in Writers, Memory!File(w) PROVE MemInv'
<1> DEFINE new == IF op[w].kind = "save" THEN op[w].ver ELSE 0
<1>1. /\ mAt[w] = "file" /\ mAt' = [mAt EXCEPT ![w] = "read"]
      /\ mFiles' = [mFiles EXCEPT ![op[w].name] = new]
      /\ UNCHANGED <<index, op, kept, mVersion, pending, told, mSession, rivals, refused>>
  BY DEF Memory!File, Memory!Goto
<1>2. Memory!Busy' = Memory!Busy /\ NotesInv' /\ mAt'[w] = "read"
      /\ \A v \in Writers : v # w => mAt'[v] = mAt[v]
  BY <1>1, MemNotesSame
<1>3. op[w].name \in Facts /\ new \in {0} \cup Issued
  BY <1>1 DEF MemInv, MemTypes
<1>4. MemTypes'
  BY <1>1, <1>2, <1>3 DEF MemInv, MemTypes, Issued, Entries
<1>5. AloneInv'
  <2> SUFFICES ASSUME ~rivals
               PROVE  AloneInv'
    BY <1>1 DEF AloneInv
  <2>1. Memory!Busy = {w} /\ op[w].link = "none"
    BY <1>1, MemAlone
  <2>2. index = Lines(Facts)
    BY <1>1, <2>1 DEF MemInv, AloneInv
  <2>3. {l \in index : l.stem # op[w].name} = Lines(Others(w))'
    BY <1>1, <1>3, <2>2 DEF Lines, Others, MemInv, MemTypes
  <2>4. mFiles'[op[w].name] = new
    BY <1>1, <1>3 DEF MemInv, MemTypes
  <2> QED
    BY <1>1, <1>2, <2>1, <2>3, <2>4 DEF AloneInv
<1> QED
  BY <1>2, <1>4, <1>5 DEF MemInv

LEMMA MemRead == ASSUME MemInv, NEW w \in Writers, Memory!Read(w) PROVE MemInv'
<1>1. /\ mAt[w] = "read" /\ mAt' = [mAt EXCEPT ![w] = "flush"]
      /\ UNCHANGED <<mFiles, index, op, mVersion, pending, told, mSession, rivals, refused>>
  BY DEF Memory!Read, Memory!Goto, Memory!disk
<1>2. Memory!Busy' = Memory!Busy /\ NotesInv' /\ mAt'[w] = "flush"
      /\ \A v \in Writers : v # w => mAt'[v] = mAt[v]
  BY <1>1, MemNotesSame
<1>3. PICK k \in SUBSET Memory!IndexLinesExcept(w) :
        /\ {l.stem : l \in k} = {l.stem : l \in Memory!IndexLinesExcept(w)}
        /\ kept' = [kept EXCEPT ![w] = k]
  BY DEF Memory!Read
<1>4. k \in SUBSET Entries
  BY DEF Memory!IndexLinesExcept, MemInv, MemTypes
<1>5. kept' \in [Writers -> SUBSET Entries] /\ kept'[w] = k
  BY <1>3, <1>4 DEF MemInv, MemTypes
<1>6. MemTypes'
  BY <1>1, <1>2, <1>5 DEF MemInv, MemTypes, Issued, Entries
<1>7. AloneInv'
  <2> SUFFICES ASSUME ~rivals
               PROVE  AloneInv'
    BY <1>1 DEF AloneInv
  <2>1. Memory!Busy = {w} /\ op[w].link = "none"
    BY <1>1, MemAlone
  <2>2. /\ Memory!IndexLinesExcept(w) = Lines(Others(w))
        /\ mFiles[op[w].name] = IF op[w].kind = "save" THEN op[w].ver ELSE 0
    BY <1>1, <2>1 DEF MemInv, AloneInv, Memory!IndexLinesExcept
  <2>3. \A l, m \in Lines(Others(w)) : l.stem = m.stem => l = m
    BY DEF Lines
  <2>4. k = Lines(Others(w))
    <3> SUFFICES ASSUME NEW l \in Lines(Others(w))
                 PROVE  l \in k
      BY <1>3, <2>2
    <3>1. PICK m \in k : m.stem = l.stem
      BY <1>3, <2>2
    <3> QED
      BY <1>3, <2>2, <2>3, <3>1
  <2>5. UNCHANGED Lines(Others(w)) /\ {l \in index : l.stem # op[w].name} = Lines(Others(w))
    BY <1>1, <2>2 DEF Lines, Others, Memory!IndexLinesExcept
  <2> QED
    BY <1>1, <1>2, <1>5, <2>1, <2>2, <2>4, <2>5 DEF AloneInv
<1> QED
  BY <1>2, <1>6, <1>7 DEF MemInv

LEMMA MemFlush == ASSUME MemInv, NEW w \in Writers, Memory!FlushIndex(w) PROVE MemInv'
<1> DEFINE line == Memory!Line(op[w])
<1>1. /\ mAt[w] = "flush" /\ mAt' = [mAt EXCEPT ![w] = "note"]
      /\ index' = IF op[w].kind = "delete" THEN kept[w] ELSE kept[w] \cup {line}
      /\ UNCHANGED <<mFiles, op, kept, mVersion, pending, told, mSession, rivals, refused>>
  BY DEF Memory!FlushIndex, Memory!Goto
<1>2. Memory!Busy' = Memory!Busy /\ NotesInv' /\ mAt'[w] = "note"
      /\ \A v \in Writers : v # w => mAt'[v] = mAt[v]
  BY <1>1, MemNotesSame
<1>3. line \in Entries
  BY <1>1 DEF MemInv, MemTypes, Revisions, Entries, Memory!Line, Memory!StemOf
<1>4. index' \subseteq Entries
  BY <1>1, <1>3 DEF MemInv, MemTypes
<1>5. MemTypes'
  BY <1>1, <1>2, <1>4 DEF MemInv, MemTypes, Issued, Entries
<1>6. AloneInv'
  <2> SUFFICES ASSUME ~rivals
               PROVE  AloneInv'
    BY <1>1 DEF AloneInv
  <2>1. /\ Memory!Busy = {w} /\ op[w].link = "none" /\ op[w].name \in Facts /\ op[w].ver # 0
        /\ op[w].kind \in {"save", "delete"}
    BY <1>1, MemAlone
  <2>2. /\ kept[w] = Lines(Others(w))
        /\ mFiles[op[w].name] = IF op[w].kind = "save" THEN op[w].ver ELSE 0
    BY <1>1, <2>1 DEF MemInv, AloneInv
  <2>3. line = [stem |-> op[w].name, name |-> op[w].name, ver |-> op[w].ver]
    BY <2>1 DEF Memory!Line, Memory!StemOf
  <2>4. index' = Lines(Facts)
    <3>1. CASE op[w].kind = "delete"
      <4>1. index' = Lines(Others(w)) /\ mFiles[op[w].name] = 0
        BY <1>1, <2>2, <3>1
      <4> QED
        BY <4>1 DEF Lines, Others
    <3>2. CASE op[w].kind = "save"
      <4>1. index' = Lines(Others(w)) \cup {line} /\ mFiles[op[w].name] = op[w].ver
        BY <1>1, <2>2, <3>2
      <4> QED
        BY <2>1, <2>3, <4>1 DEF Lines, Others
    <3> QED
      BY <2>1, <3>1, <3>2
  <2>5. UNCHANGED Lines(Facts)
    BY <1>1 DEF Lines
  <2> QED
    BY <1>1, <1>2, <2>1, <2>2, <2>4, <2>5 DEF AloneInv
<1> QED
  BY <1>2, <1>5, <1>6 DEF MemInv

(* A writer that is done, or gives up, keeps nothing.                      *)
LEMMA MemIdle ==
  ASSUME MemInv, NEW w \in Writers, mAt[w] # "idle", mAt' = [mAt EXCEPT ![w] = "idle"],
         op' = [op EXCEPT ![w] = Memory!NoOp], kept' = [kept EXCEPT ![w] = {}]
  PROVE  /\ mAt' \in [Writers -> {"idle", "file", "read", "flush", "note"}]
         /\ op' \in [Writers -> Revisions] /\ kept' \in [Writers -> SUBSET Entries]
         /\ mAt'[w] = "idle"
         /\ \A v \in Writers : v # w => mAt'[v] = mAt[v] /\ op'[v] = op[v] /\ kept'[v] = kept[v]
         /\ Memory!Busy' = Memory!Busy \ {w}
<1>1. Memory!NoOp \in Revisions
  BY DEF Memory!NoOp, Revisions
<1>2. /\ mAt'[w] = "idle" /\ kept' \in [Writers -> SUBSET Entries] /\ op' \in [Writers -> Revisions]
      /\ mAt' \in [Writers -> {"idle", "file", "read", "flush", "note"}]
      /\ \A v \in Writers : v # w => mAt'[v] = mAt[v] /\ op'[v] = op[v] /\ kept'[v] = kept[v]
  BY <1>1 DEF MemInv, MemTypes
<1> QED
  BY <1>2 DEF Memory!Busy

LEMMA MemQueue == ASSUME MemInv, NEW w \in Writers, Memory!QueueMemory(w) PROVE MemInv'
<1> DEFINE v0 == op[w].ver
<1>1. /\ mAt[w] = "note" /\ mAt' = [mAt EXCEPT ![w] = "idle"]
      /\ pending' = pending \o <<v0>> /\ mSession' = mSession \cup {v0}
      /\ op' = [op EXCEPT ![w] = Memory!NoOp] /\ kept' = [kept EXCEPT ![w] = {}]
      /\ UNCHANGED <<mFiles, index, mVersion, told, rivals, refused>>
  BY DEF Memory!QueueMemory, Memory!Goto, Memory!Note, Memory!disk
<1>2. /\ mAt' \in [Writers -> {"idle", "file", "read", "flush", "note"}]
      /\ op' \in [Writers -> Revisions] /\ kept' \in [Writers -> SUBSET Entries]
      /\ mAt'[w] = "idle"
      /\ \A v \in Writers : v # w => mAt'[v] = mAt[v] /\ op'[v] = op[v] /\ kept'[v] = kept[v]
      /\ Memory!Busy' = Memory!Busy \ {w}
  BY <1>1, MemIdle
<1>3. v0 \in Issued /\ w \in Memory!Busy
  BY <1>1 DEF MemInv, MemTypes, Memory!Busy
<1> HIDE DEF v0
<1>4. pending' \in Seq(Issued) /\ Len(pending') = Len(pending) + 1 /\ Len(pending) \in Nat
      /\ \A i \in 1..Len(pending') : pending'[i] = IF i <= Len(pending) THEN pending[i] ELSE v0
  BY <1>1, <1>3 DEF MemInv, MemTypes
<1>5. Memory!ToSet(pending)' = Memory!ToSet(pending) \cup {v0}
  <2>1. \A s \in Seq(Issued) : Memory!ToSet(s) = {s[i] : i \in 1..Len(s)}
    BY DEF Memory!ToSet
  <2>2. pending \in Seq(Issued) /\ pending' \in Seq(Issued)
    BY <1>4 DEF MemInv, MemTypes
  <2>3. Memory!ToSet(pending)' = {pending'[i] : i \in 1..Len(pending) + 1}
    BY <1>4, <2>1, <2>2 DEF Memory!ToSet
  <2>4. Memory!ToSet(pending) = {pending[i] : i \in 1..Len(pending)}
    BY <2>1, <2>2
  <2> QED
    BY <1>4, <2>3, <2>4
<1>6. MemTypes'
  BY <1>1, <1>2, <1>3, <1>4 DEF MemInv, MemTypes, Issued, Entries
<1>7. AloneInv'
  <2> SUFFICES ASSUME ~rivals
               PROVE  AloneInv'
    BY <1>1 DEF AloneInv
  <2>1. Memory!Busy = {w}
    BY <1>1, MemAlone
  <2>2. Memory!Busy' = {} /\ index = Lines(Facts) /\ UNCHANGED Lines(Facts)
    BY <1>1, <1>2, <2>1 DEF MemInv, AloneInv, Lines
  <2> QED
    BY <1>1, <2>2 DEF AloneInv
<1>8. NotesInv'
  <2>1. v0 \notin Memory!ToSet(pending) \cup told
    BY <1>3 DEF MemInv, NotesInv, v0
  <2>2. /\ IsFiniteSet(Memory!ToSet(pending)')
        /\ Cardinality(Memory!ToSet(pending)') = Len(pending')
    <3>1. /\ IsFiniteSet(Memory!ToSet(pending)) /\ v0 \notin Memory!ToSet(pending)
          /\ Cardinality(Memory!ToSet(pending)) = Len(pending)
      BY <2>1 DEF MemInv, NotesInv
    <3>2. /\ IsFiniteSet(Memory!ToSet(pending) \cup {v0})
          /\ Cardinality(Memory!ToSet(pending) \cup {v0}) = Len(pending) + 1
      BY <3>1, FS_AddElement
    <3>3. Len(pending') = Len(pending) + 1
      BY <1>4
    <3> QED
      BY <1>5, <3>2, <3>3
  <2>3. \A v \in Memory!Busy' : v \in Memory!Busy /\ op'[v] = op[v] /\ op[v].ver # v0
    BY <1>2, <1>3 DEF MemInv, NotesInv, v0, Memory!Busy
  <2> QED
    BY <1>1, <1>5, <2>1, <2>2, <2>3 DEF MemInv, NotesInv
<1> QED
  BY <1>6, <1>7, <1>8 DEF MemInv

LEMMA MemFail == ASSUME MemInv, NEW w \in Writers, Memory!Fail(w) PROVE MemInv'
<1>1. /\ mAt[w] # "idle" /\ mAt' = [mAt EXCEPT ![w] = "idle"] /\ rivals' = TRUE
      /\ op' = [op EXCEPT ![w] = Memory!NoOp] /\ kept' = [kept EXCEPT ![w] = {}]
      /\ UNCHANGED <<mFiles, index, mVersion, pending, told, mSession, refused>>
  BY DEF Memory!Fail, Memory!Goto, Memory!disk
<1>2. /\ mAt' \in [Writers -> {"idle", "file", "read", "flush", "note"}]
      /\ op' \in [Writers -> Revisions] /\ kept' \in [Writers -> SUBSET Entries]
      /\ mAt'[w] = "idle"
      /\ \A v \in Writers : v # w => mAt'[v] = mAt[v] /\ op'[v] = op[v] /\ kept'[v] = kept[v]
      /\ Memory!Busy' = Memory!Busy \ {w}
  BY <1>1, MemIdle
<1>3. MemTypes'
  BY <1>1, <1>2 DEF MemInv, MemTypes, Issued, Entries
<1>4. AloneInv'
  BY <1>1 DEF AloneInv
<1>5. NotesInv'
  <2>1. \A v \in Memory!Busy' : v \in Memory!Busy /\ op'[v] = op[v]
    BY <1>2 DEF Memory!Busy
  <2>2. UNCHANGED Memory!ToSet(pending)
    BY <1>1 DEF Memory!ToSet
  <2> QED
    BY <1>1, <2>1, <2>2 DEF MemInv, NotesInv
<1> QED
  BY <1>3, <1>4, <1>5 DEF MemInv

LEMMA MemNoNotes ==
  <<>> \in Seq(Issued) /\ Memory!ToSet(<<>>) = {} /\ Cardinality({}) = 0 /\
  IsFiniteSet({})
BY FS_EmptySet DEF Memory!ToSet

LEMMA MemCompose == ASSUME MemInv, Memory!Compose PROVE MemInv'
<1>1. /\ pending' = <<>>
      /\ \/ told' = told \cup Memory!ToSet(pending) /\ UNCHANGED refused
         \/ refused' = refused \cup Memory!ToSet(pending) /\ UNCHANGED told
      /\ UNCHANGED <<mFiles, index, mAt, op, kept, mVersion, mSession, rivals>>
  BY DEF Memory!Compose, Memory!Drained, Memory!disk, Memory!writer
<1>2. Memory!ToSet(pending) \subseteq Issued
  BY DEF MemInv, MemTypes, Memory!ToSet
<1>3. MemTypes'
  BY <1>1, <1>2, MemNoNotes DEF MemInv, MemTypes, Issued, Entries
<1>4. AloneInv'
  BY <1>1 DEF MemInv, AloneInv, Lines, Others, Memory!Busy
<1>5. NotesInv'
  <2>1. Memory!ToSet(pending)' = {} /\ Len(pending') = 0
    BY <1>1, MemNoNotes
  <2>2. Memory!Busy' = Memory!Busy
    BY <1>1 DEF Memory!Busy
  <2> QED
    BY <1>1, <2>1, <2>2, MemNoNotes DEF MemInv, NotesInv
<1> QED
  BY <1>3, <1>4, <1>5 DEF MemInv

LEMMA MemSession == ASSUME MemInv, Memory!NewSession PROVE MemInv'
<1>1. /\ Memory!Busy = {} /\ told' = told \cup {l.ver : l \in index}
      /\ pending' = <<>> /\ mSession' = {} /\ refused' = {}
      /\ UNCHANGED <<mFiles, index, mAt, op, kept, mVersion, rivals>>
  BY DEF Memory!NewSession, Memory!disk, Memory!writer
<1>2. {l.ver : l \in index} \subseteq Issued
  BY DEF MemInv, MemTypes, Entries
<1>3. MemTypes'
  BY <1>1, <1>2, MemNoNotes DEF MemInv, MemTypes, Issued, Entries
<1>4. AloneInv'
  BY <1>1 DEF MemInv, AloneInv, Lines, Others, Memory!Busy
<1>5. NotesInv'
  <2>1. Memory!ToSet(pending)' = {} /\ Len(pending') = 0
    BY <1>1, MemNoNotes
  <2>2. Memory!Busy' = {}
    BY <1>1 DEF Memory!Busy
  <2> QED
    BY <1>1, <2>1, <2>2, MemNoNotes DEF NotesInv
<1> QED
  BY <1>3, <1>4, <1>5 DEF MemInv

LEMMA MemStep == MemInv /\ [Memory!Next]_(Memory!vars) => MemInv'
<1> SUFFICES ASSUME MemInv, [Memory!Next]_(Memory!vars)
             PROVE  MemInv'
  OBVIOUS
<1>1. CASE UNCHANGED Memory!vars
  BY <1>1 DEF Memory!vars, Memory!disk, Memory!writer, MemInv, MemTypes, AloneInv, NotesInv,
              Issued, Entries, Lines, Others, Memory!Busy, Memory!ToSet
<1> QED
  BY <1>1, MemBegin, MemFile, MemRead, MemFlush, MemQueue, MemFail, MemCompose, MemSession
     DEF Memory!Next

LEMMA MemHolds == MemInv => Memory!IndexFollows /\ Memory!ChangesReach
<1> SUFFICES ASSUME MemInv
             PROVE  Memory!IndexFollows /\ Memory!ChangesReach
  OBVIOUS
<1>1. Memory!IndexFollows
  <2> SUFFICES ASSUME Memory!Busy = {}, ~rivals
               PROVE  {<<l.name, l.ver>> : l \in index}
                        = {<<n, mFiles[n]>> : n \in {m \in Facts : mFiles[m] # 0}}
    BY DEF Memory!IndexFollows
  <2>1. index = Lines(Facts)
    BY DEF MemInv, AloneInv
  <2>2. ASSUME NEW l \in index
        PROVE  \E n \in Facts : mFiles[n] # 0 /\ l.name = n /\ l.ver = mFiles[n]
    BY <2>1 DEF Lines
  <2>3. ASSUME NEW n \in Facts, mFiles[n] # 0
        PROVE  \E l \in index : l.name = n /\ l.ver = mFiles[n]
    <3>1. [stem |-> n, name |-> n, ver |-> mFiles[n]] \in index
      BY <2>1, <2>3 DEF Lines
    <3> QED
      BY <3>1
  <2> QED
    BY <2>2, <2>3
<1>2. Memory!ChangesReach
  BY MemCounts DEF MemInv, NotesInv, Memory!ChangesReach
<1> QED
  BY <1>1, <1>2

-----------------------------------------------------------------------------
(* Sessions assembled one after the other (boot/boot.go).                  *)

Eagers(d) == {n \in Servers : Tier[n] = "eager"} \ d
AssemblyInv ==
  /\ gen \in Nat /\ open \in 0..gen /\ retired \subseteq 1..gen
  /\ step \in {"none", "batch", "assemble"} /\ (step # "none" => open # gen)
  /\ front \in {"terminal", "server"} /\ (front = "server" => retired = {})
  /\ alive \subseteq (1..gen) \X Servers
  /\ hs \in [Servers -> {"none", "queued", "starting", "ok", "failed"}]
  /\ placed \in [Servers -> [as : {"nowhere", "ok", "failed", "placeholder"},
                             schema : {Boots!NoSchema} \cup {<<n, built[n]>> : n \in Servers}]]
  /\ \A n \in Servers \ {"codegraph"} :
       step = "batch" => (hs[n] # "none" <=> n \in Eagers(demoted))
  /\ \A n \in Servers : placed[n].as = "placeholder" => hs[n] = "none"
  /\ \A n \in Servers : placed[n].as = "placeholder" =>
       placed[n].schema \in {Boots!NoSchema, <<n, built[n]>>}
  /\ Boots!NoOrphans
  /\ Boots!AllAccounted

LEMMA AssemblyInit == Boots!Init => AssemblyInv
BY DEF Boots!Init, AssemblyInv, Boots!NoOrphans, Boots!AllAccounted, Boots!Nowhere, Boots!Placed

LEMMA AssemblyStep == AssemblyInv /\ [Boots!Next]_(Boots!vars) => AssemblyInv'
<1> SUFFICES ASSUME AssemblyInv, [Boots!Next]_(Boots!vars)
             PROVE  AssemblyInv'
  OBVIOUS
<1> USE DEF AssemblyInv, Boots!NoOrphans, Boots!AllAccounted, Boots!files, Boots!batch,
      Boots!ends, Boots!procs
<1>1. CASE Boots!Begin
  BY <1>1 DEF Boots!Begin, Boots!Eager, Eagers, Boots!Nowhere, Boots!Placed
<1>2. ASSUME NEW n \in Servers, Boots!Start(n)
      PROVE  AssemblyInv'
  BY <1>2 DEF Boots!Start
<1>3. ASSUME NEW n \in Servers, NEW ok \in BOOLEAN, NEW s \in {"under", "over"},
               Boots!Handshake(n, ok, s)
      PROVE  AssemblyInv'
  BY <1>3 DEF Boots!Handshake, Boots!Closed
<1>4. CASE Boots!Register
  <2> DEFINE kicked == {<<gen, n>> : n \in {m \in Servers :
                                             Tier[m] = "background" /\ Boots!Deferred(m)}}
  <2>1. /\ step = "batch" /\ step' = "assemble" /\ alive' = alive \cup kicked
        /\ placed' = [n \in Servers |->
             IF hs[n] # "none" THEN Boots!Placed(hs[n], Boots!NoSchema)
             ELSE IF Boots!Deferred(n) THEN Boots!Placed("placeholder", Boots!LoadCachedSchema(n))
             ELSE Boots!Nowhere]
        /\ UNCHANGED <<gen, open, front, retired, hs, built, demoted, unowned>>
    BY <1>4 DEF Boots!Register
  <2>2. \A n \in Servers : hs[n] \notin {"queued", "starting"}
    BY <1>4 DEF Boots!Register, Boots!In
  <2>3. ASSUME NEW n \in Servers
        PROVE  /\ placed'[n] \in [as : {"nowhere", "ok", "failed", "placeholder"},
                                  schema : {Boots!NoSchema} \cup {<<m, built[m]>> : m \in Servers}]
               /\ placed'[n].as = "placeholder" =>
                    hs[n] = "none" /\ placed'[n].schema \in {Boots!NoSchema, <<n, built[n]>>}
               /\ n # "codegraph" => placed'[n].as # "nowhere"
    <3>1. CASE hs[n] # "none"
      BY <2>1, <2>2, <3>1 DEF Boots!Placed
    <3>2. CASE hs[n] = "none" /\ Boots!Deferred(n)
      <4>1. placed'[n] = Boots!Placed("placeholder", Boots!LoadCachedSchema(n))
        BY <2>1, <3>2
      <4>2. Boots!LoadCachedSchema(n) \in {Boots!NoSchema, <<n, built[n]>>}
        BY DEF Boots!LoadCachedSchema
      <4> QED
        BY <3>2, <4>1, <4>2 DEF Boots!Placed
    <3>3. CASE hs[n] = "none" /\ ~Boots!Deferred(n)
      <4>1. placed'[n] = Boots!Nowhere /\ n = "codegraph"
        BY <2>1, <3>3 DEF Boots!Deferred, Eagers
      <4> QED
        BY <4>1 DEF Boots!Nowhere, Boots!Placed
    <3> QED
      BY <3>1, <3>2, <3>3
  <2>4. \A p \in kicked : p \in (1..gen) \X Servers /\ p[1] = gen /\ hs[p[2]] = "none"
    BY <2>1 DEF Boots!Deferred, Eagers
  <2> HIDE DEF kicked
  <2>5. /\ placed' \in [Servers -> [as : {"nowhere", "ok", "failed", "placeholder"},
                                   schema : {Boots!NoSchema} \cup {<<m, built[m]>> : m \in Servers}]]
        /\ \A n \in Servers \ {"codegraph"} : placed'[n].as # "nowhere"
    BY <2>1, <2>3
  <2>6. Boots!NoOrphans' /\ alive' \subseteq (1..gen) \X Servers
    BY <2>1, <2>4
  <2> QED
    BY <2>1, <2>3, <2>5, <2>6
<1>5. CASE Boots!PlannerFails
  BY <1>5 DEF Boots!PlannerFails, Boots!Of
<1>6. CASE Boots!Swap
  <2>1. /\ step = "assemble" /\ step' = "none" /\ open' = gen
        /\ UNCHANGED <<gen, front, placed, hs, built, demoted, spawning>>
    BY <1>6 DEF Boots!Swap
  <2>2. CASE front = "server"
    <3>1. UNCHANGED retired /\ Boots!Close({open})
      BY <1>6, <2>2 DEF Boots!Swap
    <3>2. alive' \subseteq alive
      BY <3>1 DEF Boots!Close
    <3>3. ASSUME NEW p \in alive, p \in alive', p[1] = open
          PROVE  p \in unowned'
      BY <3>1, <3>3 DEF Boots!Close, Boots!Of
    <3>4. unowned \subseteq unowned'
      BY <3>1 DEF Boots!Close
    <3>5. Boots!NoOrphans'
      BY <2>1, <3>1, <3>2, <3>3, <3>4
    <3> QED
      BY <2>1, <3>1, <3>2, <3>5
  <2>3. CASE front # "server"
    <3>1. retired' = retired \cup ({open} \ {0}) /\ UNCHANGED <<alive, unowned>>
      BY <1>6, <2>3 DEF Boots!Swap
    <3>2. \A p \in alive : p[1] \in 1..gen
      OBVIOUS
    <3>3. Boots!NoOrphans'
      BY <2>1, <3>1, <3>2
    <3> QED
      BY <2>1, <2>3, <3>1, <3>3
  <2> QED
    BY <2>2, <2>3
<1>7. CASE Boots!Install
  BY <1>7 DEF Boots!Install
<1>8. CASE Boots!Exit
  BY <1>8 DEF Boots!Exit, Boots!Close, Boots!Of, Boots!AtExit
<1>9. ASSUME NEW n \in Servers, Boots!Use(n) \/ Boots!Edit(n)
      PROVE  AssemblyInv'
  <2>1. CASE Boots!Edit(n)
    BY <2>1 DEF Boots!Edit
  <2>2. CASE Boots!Use(n)
    <3>1. /\ step = "none" /\ open = gen /\ open # 0 /\ hs[n] = "none"
          /\ alive' = alive \cup {<<gen, n>>}
          /\ UNCHANGED <<step, gen, open, front, retired, placed, hs, built, demoted, unowned>>
      BY <2>2 DEF Boots!Use
    <3>2. <<gen, n>> \in (1..gen) \X Servers
      BY <3>1
    <3> QED
      BY <3>1, <3>2
  <2> QED
    BY <1>9, <2>1, <2>2
<1>10. ASSUME NEW p \in spawning, Boots!Spawned(p)
       PROVE  AssemblyInv'
  BY <1>10 DEF Boots!Spawned
<1>11. ASSUME NEW r \in records, Boots!Record(r)
       PROVE  AssemblyInv'
  BY <1>11 DEF Boots!Record
<1>12. CASE UNCHANGED Boots!vars
  BY <1>12 DEF Boots!vars
<1> QED
  BY <1>1, <1>2, <1>3, <1>4, <1>5, <1>6, <1>7, <1>8, <1>9, <1>10, <1>11, <1>12 DEF Boots!Next,
     Boots!Building

-----------------------------------------------------------------------------
(* The three parts about which there is a proof, each on its own.          *)
LEMMA StoresParts ==
  MCSpec => /\ Chat!Init /\ [][Chat!Next]_(Chat!vars)
            /\ Memory!Init /\ [][Memory!Next]_(Memory!vars)
            /\ Boots!Init /\ [][Boots!Next]_(Boots!vars)
<1>1. MCInit => Chat!Init /\ Memory!Init /\ Boots!Init
  BY DEF MCInit
<1>2. [MCNext]_mcVars => [Chat!Next]_(Chat!vars)
  BY DEF MCNext, mcVars, chatVars, Chat!vars, Chat!turnVars
<1>3. [MCNext]_mcVars => [Memory!Next]_(Memory!vars)
  BY DEF MCNext, mcVars, memoryVars, Memory!vars, Memory!disk, Memory!writer
<1>4. [MCNext]_mcVars => [Boots!Next]_(Boots!vars)
  BY DEF MCNext, mcVars, bootVars, Boots!vars, Boots!files, Boots!batch, Boots!ends, Boots!procs
<1> QED
  BY <1>1, <1>2, <1>3, <1>4, PTL DEF MCSpec

LEMMA AssemblyAlways == MCSpec => []AssemblyInv
BY StoresParts, AssemblyInit, AssemblyStep, PTL

LEMMA ChatAlways == MCSpec /\ Gating = "patient" => []ChatInv
BY StoresParts, ChatInit, ChatStep, PTL

LEMMA MemAlways == MCSpec => []MemInv
BY StoresParts, MemInit, MemStep, PTL

(* Whatever orders of /new, /branch, forks, /switch, turns and compactions *)
(* a user gives who awaits each of them, for any number of them, every     *)
(* conversation holds and writes only what was said in it (controller.go   *)
(* NewSession, Branch, ForkNamed, SwitchBranch, Snapshot; agent/compact.go *)
(* compact); and whatever the servers of a session do while it is built,   *)
(* fails or is replaced, only a session's own servers are open, and a tool *)
(* that waits for its server has the schema of that server under the       *)
(* configuration the build took (boot/boot.go Build, plugin/cache.go).     *)
THEOREM SessionsKeptApart == MCSpec /\ Gating = "patient" => []KeptApart
<1>1. ChatInv /\ AssemblyInv => KeptApart
  BY ChatHolds DEF KeptApart, AssemblyInv, Boots!SchemaFits
<1> QED
  BY <1>1, ChatAlways, AssemblyAlways, PTL

(* For such a user no message is lost: one that was said stays in the log  *)
(* of its conversation, in full or in a summary, and is in the file of a   *)
(* conversation that was left (agent/compact.go, control/controller.go     *)
(* Snapshot).  For any number of facts, writers and changes the index      *)
(* names the facts there are, as long as no two changes met and none was   *)
(* cut short, and each change of a session is told to the model once or    *)
(* waits to be (memory/store.go Save, Delete; controller.go QueueMemory,   *)
(* Compose).  Every server of a session that is built is connected,        *)
(* reported as failed or held by a placeholder (boot/boot.go Build).       *)
THEOREM NothingIsMissing == MCSpec /\ Gating = "patient" => []NothingMissing
<1>1. ChatInv /\ MemInv /\ AssemblyInv => NothingMissing
  BY ChatHolds, MemHolds DEF NothingMissing, AssemblyInv
<1> QED
  BY <1>1, ChatAlways, MemAlways, AssemblyAlways, PTL
=============================================================================
