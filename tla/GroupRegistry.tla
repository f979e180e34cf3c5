--------------------------- MODULE GroupRegistry ----------------------------
(***************************************************************************)
(* The registered groups (src/src/orchestrator.ts, src/src/db.ts,          *)
(* src/src/runner/tool-handler.ts).  A group has a row in the table        *)
(* registered_groups and an entry in the orchestrator's registeredGroups;  *)
(* the table outlives the process, the entries are what messages are       *)
(* routed and requests authorized by.  The folder of a row is unique, and  *)
(* a row is written with INSERT OR REPLACE: it takes the place of the row  *)
(* of its own group and of the row with its folder, whoever's that is.     *)
(*                                                                         *)
(* Groups change by commands in the main group, by requests of agents'     *)
(* tools, by web users who connect, and by other processes on the same     *)
(* database (the command line's send runs an orchestrator of its own).     *)
(***************************************************************************)
EXTENDS Integers, FiniteSets, Functions

CONSTANTS
  Groups,        (* chat ids                                               *)
  Folders,       (* valid folder names                                     *)
  Defaults,      (* groups every start registers if they are missing       *)
  Control,       (* the main group among them, main-local:control          *)
  HomeFolder,    (* folder of each default group                           *)
  Jobs,          (* ids of scheduled tasks                                 *)
  MaxChanges     (* bound of the model: registrations and other changes    *)

None == "none"

ASSUME RegistryAssumption ==
  /\ Defaults \subseteq Groups /\ Control \in Defaults
  /\ HomeFolder \in [Defaults -> Folders]
  /\ IsInjective(HomeFolder)
  /\ None \notin Groups
  /\ MaxChanges \in Nat

VARIABLES
  table,             (* the rows: a function on the groups that have one   *)
  registeredGroups,  (* the entries in the server's memory, likewise       *)
  up,                (* the server runs                                    *)
  foreign,           (* groups another process changed since the last sync *)
  jobs,              (* scheduled tasks: whose they are, and their status  *)
  changes

regVars == <<table, registeredGroups, up, foreign, jobs, changes>>

(* mounts: additional directories, none, read-only or writable.            *)
Registration == [folder : Folders, isMain : BOOLEAN, requiresTrigger : BOOLEAN,
                 mounts : {None, "readonly", "writable"}, model : BOOLEAN]
Tables == UNION {[D -> Registration] : D \in SUBSET Groups}
NoJob == [group |-> None, status |-> "absent"]

RegInit ==
  /\ table = [g \in {} |-> None]
  /\ registeredGroups = [g \in {} |-> None]
  /\ up = FALSE
  /\ foreign = {}
  /\ jobs = [j \in Jobs |-> NoJob]
  /\ changes = 0

Change == changes < MaxChanges /\ changes' = changes + 1

(***************************************************************************)
(* The table and the memory as values.                                     *)
(***************************************************************************)

(* f where it is defined, else r.                                          *)
Over(f, r) == [g \in DOMAIN f \cup DOMAIN r |-> IF g \in DOMAIN f THEN f[g] ELSE r[g]]

(* setRegisteredGroup.                                                     *)
Put(rows, g, row) ==
  Over([h \in {g} |-> row], Restrict(rows, {h \in DOMAIN rows : rows[h].folder # row.folder}))

(* What registerGroup makes of its arguments; nothing of an earlier        *)
(* registration is kept.  Mutant: every group is registered as main.       *)
FreshAsMain(folder, isMain) ==
  [folder |-> folder, isMain |-> TRUE, requiresTrigger |-> ~isMain,
   mounts |-> None, model |-> FALSE]
Fresh(folder, isMain) ==
  [folder |-> folder, isMain |-> isMain, requiresTrigger |-> ~isMain,
   mounts |-> None, model |-> FALSE]

(* compatGroupById: the memory first, then the table.                      *)
Visible == Over(registeredGroups, table)
Known(g) == g \in DOMAIN Visible
IsMain(g) == Known(g) /\ Visible[g].isMain

(* syncRegisteredGroups, when the table is `rows`: the table wins, and no  *)
(* entry is ever removed.  Mutants: the memory wins; only unknown rows.    *)
SyncedKeeping(entries, rows) == Over(entries, rows)
Synced(entries, rows) == Over(rows, entries)

(* A write of this process, without and with a sync after it.              *)
(* Mutant: the sync is forgotten.                                          *)
WriteUnsynced(g, rows) ==
  /\ table' = rows
  /\ UNCHANGED <<registeredGroups, foreign>>
WriteAndSync(g, rows) ==
  /\ table' = rows
  /\ registeredGroups' = Synced(registeredGroups, rows)
  /\ foreign' = {}

(* registerGroup, and for a group that needs no trigger the second write   *)
(* and the sync its callers add.                                           *)
Register(g, folder, open) ==
  LET row == Fresh(folder, FALSE)
      entries == Over([h \in {g} |-> row], registeredGroups)
      rows == Put(table, g, row)
      opened == Put(rows, g, [row EXCEPT !.requiresTrigger = FALSE]) IN
  IF open
  THEN /\ table' = opened
       /\ registeredGroups' = Synced(entries, opened)
       /\ foreign' = {}
  ELSE /\ table' = rows
       /\ registeredGroups' = entries
       /\ foreign' = foreign \ {g}

(***************************************************************************)
(* The life of the process.                                                *)
(***************************************************************************)

(* The rows after those of `groups` that have no row are registered.       *)
WithMissing(rows, groups) ==
  LET missing == groups \ DOMAIN rows
      kept == {h \in DOMAIN rows : \A d \in missing : rows[h].folder # HomeFolder[d]} IN
  Over([d \in missing |-> Fresh(HomeFolder[d], d = Control)], Restrict(rows, kept))

(* createOrchestrator looks for the main group last: it registers it also  *)
(* when the registration before it has just taken its row.  The memory is  *)
(* empty then, so only the rows tell which groups are there.               *)
WithDefaults(rows) == WithMissing(WithMissing(rows, Defaults \ {Control}), {Control})

Boot ==
  /\ ~up
  /\ up' = TRUE
  /\ table' = WithDefaults(table)
  /\ registeredGroups' = table'
  /\ foreign' = {}
  /\ UNCHANGED <<jobs, changes>>

(* A crash or the end of a stopped server.                                 *)
Down ==
  /\ up
  /\ up' = FALSE
  /\ registeredGroups' = [g \in {} |-> None]
  /\ foreign' = {}
  /\ UNCHANGED <<table, jobs, changes>>

(* start(), every handled message and every listing of the groups.         *)
Sync ==
  /\ up
  /\ registeredGroups' = Synced(registeredGroups, table)
  /\ foreign' = {}
  /\ UNCHANGED <<table, up, jobs, changes>>

(***************************************************************************)
(* Commands in a main group.                                               *)
(***************************************************************************)

RegisterCommand ==
  \E g \in Groups, folder \in Folders, open \in BOOLEAN : Register(g, folder, open) /\ UNCHANGED jobs

(* /set-model reads the row, not the memory; without one it fails.         *)
SetModel ==
  \E g \in DOMAIN table :
    /\ WriteAndSync(g, Put(table, g, [table[g] EXCEPT !.model = TRUE]))
    /\ UNCHANGED jobs

MainCommand(g) ==
  /\ up /\ IsMain(g)
  /\ Change
  /\ RegisterCommand \/ SetModel
  /\ UNCHANGED up

(***************************************************************************)
(* Requests of agents.  The source is the group of the request's execution *)
(* record.                                                                 *)
(***************************************************************************)

(* ensureAuthorizedTargetGroup.  Mutant: only the target is looked up.     *)
AuthorizedIfKnown(source, target) == Known(source) /\ Known(target)
Authorized(source, target) ==
  /\ Known(source) /\ Known(target)
  /\ IsMain(source) \/ source = target

ToolRegisterGroup(source) == IsMain(source) /\ RegisterCommand

(* validateMount for a directory under an allowed root: whether it is      *)
(* asked for as writable, whether the root is, and whether the allow list  *)
(* lets only the main group write.  Any other directory is refused.        *)
MountResult(source, writable, allowReadWrite, nonMainReadOnly) ==
  IF ~writable \/ (nonMainReadOnly /\ ~IsMain(source)) THEN "readonly"
  ELSE IF allowReadWrite THEN "writable" ELSE "refused"
MountResults(source) ==
  {None} \cup ({MountResult(source, writable, allowReadWrite, nonMainReadOnly) :
                  writable, allowReadWrite, nonMainReadOnly \in BOOLEAN} \ {"refused"})

(* updateGroupMounts changes the row as it is in the table; a group that   *)
(* lost its row gets an error.                                             *)
UpdateGroupMounts(source) ==
  \E g \in Groups, mounts \in MountResults(source) :
    /\ Authorized(source, g) /\ g \in DOMAIN table
    /\ WriteAndSync(g, Put(table, g, [table[g] EXCEPT !.mounts = mounts]))
    /\ UNCHANGED jobs

ScheduleTask(source) ==
  \E j \in Jobs, g \in Groups :
    /\ jobs[j] = NoJob
    /\ Authorized(source, g)
    /\ jobs' = [jobs EXCEPT ![j] = [group |-> g, status |-> "active"]]
    /\ UNCHANGED <<table, registeredGroups, foreign>>

(* pauseTask, resumeTask, cancelTask.                                      *)
ChangeTask(source) ==
  \E j \in Jobs, status \in {"active", "paused", "absent"} :
    /\ jobs[j] # NoJob
    /\ Authorized(source, jobs[j].group)
    /\ jobs' = [jobs EXCEPT ![j] = IF status = "absent" THEN NoJob ELSE [@ EXCEPT !.status = status]]
    /\ UNCHANGED <<table, registeredGroups, foreign>>

ToolRequest(source) ==
  /\ up /\ Known(source)
  /\ Change
  /\ \/ ToolRegisterGroup(source) \/ UpdateGroupMounts(source)
     \/ ScheduleTask(source) \/ ChangeTask(source)
  /\ UNCHANGED up

(***************************************************************************)
(* Another process on the same database: it starts, which registers the    *)
(* missing default groups, and carries out a command of its main group,    *)
(* which it may still have in memory when the table has it no more.        *)
(***************************************************************************)

Foreign(rows) ==
  /\ Change
  /\ table' = rows
  /\ foreign' = IF up
                THEN foreign \cup {g \in Groups : g \in DOMAIN rows \cup DOMAIN table /\
                       ~(g \in DOMAIN rows /\ g \in DOMAIN table /\ rows[g] = table[g])}
                ELSE {}
  /\ UNCHANGED <<registeredGroups, up, jobs>>

OtherStarts == table # WithDefaults(table) /\ Foreign(WithDefaults(table))
OtherCommand ==
  /\ DOMAIN table # {}
  /\ \/ \E g \in Groups, folder \in Folders : Foreign(Put(table, g, Fresh(folder, FALSE)))
     \/ \E g \in DOMAIN table : Foreign(Put(table, g, [table[g] EXCEPT !.model = TRUE]))

RegNext ==
  \/ Boot \/ Down \/ Sync \/ OtherStarts \/ OtherCommand
  \/ \E g \in Groups : MainCommand(g) \/ ToolRequest(g)
RegSpec == RegInit /\ [][RegNext]_regVars
-----------------------------------------------------------------------------

(* The table's rows and the memory's entries are registrations.            *)
RegTypeOK ==
  /\ table \in Tables /\ registeredGroups \in Tables
  /\ up \in BOOLEAN
  /\ foreign \subseteq Groups
  /\ jobs \in [Jobs -> [group : Groups \cup {None}, status : {"absent", "active", "paused"}]]

(* However registrations, changes of models and mounts, and syncs follow   *)
(* each other, the memory has every row as it is in the table, except for  *)
(* what another process changed since the last sync.                       *)
MemoryFollowsTable ==
  up => \A g \in DOMAIN table \ foreign :
          g \in DOMAIN registeredGroups /\ registeredGroups[g] = table[g]

(* Groups that share a folder in memory are a group and others whose rows  *)
(* its registration took away: at most one of them is still in the table,  *)
(* so that the next start separates them.                                  *)
SharersLostTheirRow ==
  \A g, h \in DOMAIN registeredGroups :
    g # h /\ registeredGroups[g].folder = registeredGroups[h].folder =>
      ~{g, h} \subseteq DOMAIN table \/ {g, h} \cap foreign # {}

(* An agent outside the main group changes nobody's registration but its   *)
(* own and nobody's tasks but its own group's, although its folder may     *)
(* meanwhile be another group's and its entry in memory stale.             *)
OrdinaryGroupsTouchOnlyThemselves ==
  [][\A g \in Groups : ToolRequest(g) /\ ~IsMain(g) =>
       /\ \A h \in Groups \ {g} : /\ h \in DOMAIN table' <=> h \in DOMAIN table
                                  /\ h \in DOMAIN table => table'[h] = table[h]
       /\ \A j \in Jobs : jobs'[j] # jobs[j] => g \in {jobs[j].group, jobs'[j].group}]_regVars

(* No chain of registrations gives a second group the main group's rights. *)
OnlyControlIsMain ==
  \A rows \in {table, registeredGroups} : \A g \in DOMAIN rows : rows[g].isMain => g = Control

(* The main group, which acts as the control plane, stays one.             *)
ControlStaysMain == up => IsMain(Control)
(* Groups do not share folders.                                            *)
FoldersAreSeparate == IsInjective([g \in DOMAIN registeredGroups |-> registeredGroups[g].folder])
=============================================================================
