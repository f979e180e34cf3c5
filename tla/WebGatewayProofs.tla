-------------------------- MODULE WebGatewayProofs --------------------------
(***************************************************************************)
(* Proofs about the web gateway: what it does to the registered groups is  *)
(* something the registry's own commands could do, so that the registry's  *)
(* theorems hold with the gateway running, and connected users are served. *)
(***************************************************************************)
EXTENDS WebGateway, GroupRegistryProofs

(* The sockets, as far as serving them depends on it: a process that is    *)
(* down has none.                                                          *)
WebInv == RegInv /\ (~up => subscribers = {}) /\ SessionIsServed

(* Registering a user's group is the main group's /register-group.         *)
LEMMA ConnectIsCommand ==
  ASSUME up, NEW g \in Range(UserOf), EnsureRegistered(g), UNCHANGED <<up, jobs>>
  PROVE  \/ MainCommand(Control)
         \/ Known(g) /\ UNCHANGED regVars
<1>1. g \in Groups /\ Control \in Groups
  BY RegistryAssumption, GatewayAssumption DEF Range
<1>2. CASE ~Known(g)
  <2>1. IsMain(Control) /\ WebFolder[g] # Invalid /\ Change /\ Register(g, WebFolder[g], TRUE)
    BY <1>2 DEF EnsureRegistered
  <2>2. WebFolder[g] \in Folders
    BY <2>1, GatewayAssumption
  <2>3. RegisterCommand
    BY <1>1, <2>1, <2>2 DEF RegisterCommand
  <2> QED BY <2>1, <2>3 DEF MainCommand
<1>3. CASE Known(g)
  BY <1>3 DEF EnsureRegistered, regVars
<1> QED BY <1>2, <1>3

LEMMA UsersHaveGroups ==
  ASSUME NEW s \in Sockets PROVE UserOf[s] \in Range(UserOf) /\ UserOf[s] \in Groups
  BY GatewayAssumption DEF Range

LEMMA WebStepIsRegStep ==
  ASSUME [WebNext]_allVars
  PROVE  [RegNext]_regVars
<1>1. Control \in Groups
  BY RegistryAssumption
<1>2. ASSUME NEW s \in Sockets, Connect(s) PROVE [RegNext]_regVars
  <2>1. up /\ EnsureRegistered(UserOf[s]) /\ UNCHANGED <<up, jobs>>
    BY <1>2 DEF Connect
  <2> QED BY <1>1, <2>1, UsersHaveGroups, ConnectIsCommand DEF RegNext
<1> QED BY <1>2 DEF WebNext, RegistryMoves, Accept, SocketCloses, Stop, GatewayStop, Exit, Crash, Gone, RegNext, allVars

(* Nothing but the end of the process takes a group from the memory.       *)
LEMMA MemoryGrows ==
  ASSUME RegInv, [RegNext]_regVars, up, up'
  PROVE  DOMAIN registeredGroups \subseteq DOMAIN registeredGroups'
<1>1. table \in Tables /\ registeredGroups \in Tables
  BY DEF RegInv, RegTypeOK
<1>2. ASSUME NEW rows \in Tables, registeredGroups' = Synced(registeredGroups, rows)
      PROVE  DOMAIN registeredGroups \subseteq DOMAIN registeredGroups'
  BY <1>1, <1>2, SyncedFacts
<1>3. ASSUME RegisterCommand, UNCHANGED up
      PROVE  DOMAIN registeredGroups \subseteq DOMAIN registeredGroups'
  <2>1. PICK g \in Groups, folder \in Folders, open \in BOOLEAN : Register(g, folder, open) /\ UNCHANGED jobs
    BY <1>3 DEF RegisterCommand
  <2> QED BY <1>3, <2>1, RegisterKeeps
<1>4. ASSUME NEW g \in DOMAIN table, NEW row \in Registration, NEW h \in Groups,
             WriteAndSync(h, Put(table, g, row))
      PROVE  DOMAIN registeredGroups \subseteq DOMAIN registeredGroups'
  <2>1. g \in Groups
    BY <1>1, TablesDef
  <2>2. Put(table, g, row) \in Tables
    BY <1>1, <2>1, PutFacts
  <2> QED BY <1>2, <1>4, <2>2 DEF WriteAndSync
<1>5. CASE Sync
  BY <1>1, <1>2, <1>5 DEF Sync
<1>6. ASSUME NEW g \in Groups, MainCommand(g)
      PROVE  DOMAIN registeredGroups \subseteq DOMAIN registeredGroups'
  <2>1. CASE SetModel
    <3>1. PICK h \in DOMAIN table : WriteAndSync(h, Put(table, h, [table[h] EXCEPT !.model = TRUE]))
      BY <2>1 DEF SetModel
    <3>2. h \in Groups
      BY <1>1, TablesDef
    <3> QED BY <1>4, <3>1, <3>2, RowChanges
  <2> QED BY <1>3, <1>6, <2>1 DEF MainCommand
<1>7. ASSUME NEW g \in Groups, ToolRequest(g)
      PROVE  DOMAIN registeredGroups \subseteq DOMAIN registeredGroups'
  <2>1. CASE UpdateGroupMounts(g)
    <3>1. PICK h \in Groups, m \in MountResults(g) :
            /\ h \in DOMAIN table
            /\ WriteAndSync(h, Put(table, h, [table[h] EXCEPT !.mounts = m]))
      BY <2>1 DEF UpdateGroupMounts
    <3>2. m \in {None, "readonly", "writable"}
      BY <3>1 DEF MountResults, MountResult
    <3>3. [table[h] EXCEPT !.mounts = m] \in Registration
      BY <3>1, <3>2, RowChanges
    <3> QED BY <1>4, <3>1, <3>3
  <2> QED BY <1>3, <1>7, <2>1 DEF ToolRequest, ToolRegisterGroup, ScheduleTask, ChangeTask
<1> QED BY <1>5, <1>6, <1>7 DEF RegNext, Boot, Down, OtherStarts, OtherCommand, Foreign, regVars

LEMMA WebStep ==
  ASSUME WebInv, [WebNext]_allVars
  PROVE  WebInv'
<1>1. RegInv' /\ [RegNext]_regVars
  BY WebStepIsRegStep, RegStep DEF WebInv
<1>2. ASSUME up => up', subscribers' \subseteq subscribers, outside' = outside,
             ~up => subscribers' = {}
      PROVE  WebInv'
  BY <1>1, <1>2, MemoryGrows DEF WebInv, SessionIsServed
<1>3. ASSUME NEW s \in Sockets, Connect(s) PROVE WebInv'
  <2>1. /\ up /\ up' /\ UNCHANGED <<up, jobs>> /\ EnsureRegistered(UserOf[s])
        /\ subscribers' = subscribers \cup {s}
        /\ outside' = IF UserOf[s] \in foreign THEN outside \cup {s} ELSE outside \ {s}
    BY <1>3 DEF Connect
  <2>2. UserOf[s] \in foreign \/ UserOf[s] \in DOMAIN registeredGroups'
    <3>1. CASE Known(UserOf[s]) /\ UNCHANGED regVars
      <4>1. UserOf[s] \in DOMAIN registeredGroups \cup DOMAIN table
        BY <3>1 DEF Known, Visible, Over
      <4> QED BY <2>1, <3>1, <4>1 DEF WebInv, RegInv, MemoryFollowsTable, regVars
    <3>2. CASE ~Known(UserOf[s])
      <4>1. Register(UserOf[s], WebFolder[UserOf[s]], TRUE) /\ WebFolder[UserOf[s]] \in Folders
        BY <2>1, <3>2, UsersHaveGroups, GatewayAssumption DEF EnsureRegistered
      <4> QED BY <2>1, <4>1, UsersHaveGroups, RegisterKeeps DEF WebInv
    <3> QED BY <2>1, <3>1, <3>2 DEF EnsureRegistered, regVars
  <2>3. DOMAIN registeredGroups \subseteq DOMAIN registeredGroups'
    BY <1>1, <2>1, MemoryGrows DEF WebInv
  <2> QED BY <1>1, <2>1, <2>2, <2>3 DEF WebInv, SessionIsServed
<1>4. ASSUME NEW s \in Sockets, SocketCloses(s) PROVE WebInv'
  BY <1>2, <1>4 DEF SocketCloses, regVars, WebInv
<1>5. CASE RegistryMoves
  <2>1. subscribers' = subscribers /\ outside' = outside
    BY <1>5 DEF RegistryMoves, webVars
  <2>2. up' = TRUE \/ up' = up
    <3>1. CASE Boot \/ Sync
      BY <3>1 DEF Boot, Sync
    <3>2. CASE OtherStarts \/ OtherCommand
      BY <3>2 DEF OtherStarts, OtherCommand, Foreign
    <3>3. CASE \E g \in Groups : MainCommand(g) \/ ToolRequest(g)
      BY <3>3 DEF MainCommand, ToolRequest
    <3> QED BY <1>5, <3>1, <3>2, <3>3 DEF RegistryMoves
  <2> QED BY <1>2, <2>1, <2>2 DEF WebInv
<1>6. CASE Gone
  BY <1>1, <1>6 DEF Gone, Down, WebInv, SessionIsServed
<1> QED BY <1>2, <1>3, <1>4, <1>5, <1>6
        DEF WebNext, Accept, Stop, GatewayStop, Exit, Crash, allVars, webVars, regVars, WebInv

(* What the gateway does to the groups is what the registry allows: the    *)
(* theorems about RegSpec hold with it.                                    *)
THEOREM GatewayRespectsRegistry == WebSpec => RegSpec
<1>1. WebInit => RegInit
  BY DEF WebInit
<1> QED BY <1>1, WebStepIsRegStep, PTL DEF WebSpec, RegSpec

(* A connected user's group is in memory, except for one another process   *)
(* had changed unseen.                                                     *)
THEOREM UsersAreServed == WebSpec => []SessionIsServed
<1>1. WebInit => WebInv
  BY RegInit_RegInv DEF WebInit, WebInv, SessionIsServed
<1>2. WebInv => SessionIsServed
  BY DEF WebInv
<1> QED BY <1>1, <1>2, WebStep, PTL DEF WebSpec
=============================================================================
