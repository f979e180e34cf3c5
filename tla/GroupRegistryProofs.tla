------------------------- MODULE GroupRegistryProofs ------------------------
(***************************************************************************)
(* Proofs about the registered groups, for any groups, folders and number  *)
(* of changes.                                                             *)
(*                                                                         *)
(* Everything rests on two facts that hold together: folders are unique in *)
(* the table (FoldersUnique), which the order of deletions and writes in   *)
(* Put and WithMissing keeps, and the memory  has the table's rows         *)
(* (MemoryFollowsTable).                                                   *)
(***************************************************************************)
EXTENDS GroupRegistry, TLAPS

(* No two rows of the table have the same folder.                          *)
UniqueIn(rows) == \A g, h \in DOMAIN rows : rows[g].folder = rows[h].folder => g = h
FoldersUnique == UniqueIn(table)

MainIn(rows) == \A g \in DOMAIN rows : rows[g].isMain => g = Control
DownForgets == ~up => DOMAIN registeredGroups = {}

RegInv ==
  /\ RegTypeOK /\ FoldersUnique /\ MemoryFollowsTable /\ DownForgets
  /\ MainIn(table) /\ MainIn(registeredGroups)
-----------------------------------------------------------------------------

(* The set of tables, without the union.                                   *)
LEMMA TablesDef ==
  ASSUME NEW f
  PROVE  f \in Tables <=> DOMAIN f \subseteq Groups /\ f \in [DOMAIN f -> Registration]
  BY DEF Tables

(* What Over takes from which of its arguments.                            *)
LEMMA OverFacts ==
  ASSUME NEW f \in Tables, NEW r \in Tables
  PROVE  /\ Over(f, r) \in Tables
         /\ DOMAIN Over(f, r) = DOMAIN f \cup DOMAIN r
         /\ \A g \in DOMAIN f : Over(f, r)[g] = f[g]
         /\ \A g \in DOMAIN r \ DOMAIN f : Over(f, r)[g] = r[g]
  BY TablesDef DEF Over

(* INSERT OR REPLACE: the row is there, and of the other rows those with   *)
(* another folder.                                                         *)
LEMMA PutFacts ==
  ASSUME NEW rows \in Tables, NEW g \in Groups, NEW row \in Registration
  PROVE  /\ Put(rows, g, row) \in Tables
         /\ g \in DOMAIN Put(rows, g, row) /\ Put(rows, g, row)[g] = row
         /\ \A h \in Groups \ {g} :
              /\ h \in DOMAIN Put(rows, g, row) <=> h \in DOMAIN rows /\ rows[h].folder # row.folder
              /\ h \in DOMAIN Put(rows, g, row) => Put(rows, g, row)[h] = rows[h]
<1> DEFINE one == [h \in {g} |-> row]
           rest == Restrict(rows, {h \in DOMAIN rows : rows[h].folder # row.folder})
<1>1. one \in Tables /\ DOMAIN one = {g} /\ one[g] = row
  BY TablesDef
<1>2. /\ DOMAIN rest = {h \in DOMAIN rows : rows[h].folder # row.folder}
      /\ \A h \in DOMAIN rest : rest[h] = rows[h]
  BY DEF Restrict
<1>3. rest \in Tables
  <2>1. rest \in [DOMAIN rest -> Registration]
    BY <1>2, TablesDef DEF Restrict
  <2> QED BY <1>2, <2>1, TablesDef
<1>4. Put(rows, g, row) = Over(one, rest)
  BY DEF Put
<1> HIDE DEF one, rest
<1>5. rows \in [DOMAIN rows -> Registration] /\ DOMAIN rows \subseteq Groups
  BY TablesDef
<1>6. /\ Over(one, rest) \in Tables
      /\ DOMAIN Over(one, rest) = {g} \cup DOMAIN rest
      /\ Over(one, rest)[g] = row
      /\ \A h \in DOMAIN rest \ {g} : Over(one, rest)[h] = rest[h]
  <2>1. /\ Over(one, rest) \in Tables
        /\ DOMAIN Over(one, rest) = DOMAIN one \cup DOMAIN rest
        /\ \A h \in DOMAIN one : Over(one, rest)[h] = one[h]
        /\ \A h \in DOMAIN rest \ DOMAIN one : Over(one, rest)[h] = rest[h]
    BY <1>1, <1>3, OverFacts
  <2> QED BY <1>1, <2>1
<1> QED BY <1>2, <1>4, <1>6

(* A write keeps folders unique, and gives nobody the main group's rights  *)
(* that its row does not have.                                             *)
LEMMA PutKeeps ==
  ASSUME NEW rows \in Tables, NEW g \in Groups, NEW row \in Registration
  PROVE  /\ UniqueIn(rows) => UniqueIn(Put(rows, g, row))
         /\ MainIn(rows) /\ (row.isMain => g = Control) => MainIn(Put(rows, g, row))
<1>1. DOMAIN Put(rows, g, row) \subseteq Groups
  BY PutFacts, TablesDef
<1> QED BY <1>1, PutFacts DEF UniqueIn, MainIn

LEMMA OverKeepsMain ==
  ASSUME NEW f \in Tables, NEW r \in Tables, MainIn(f), MainIn(r)
  PROVE  MainIn(Over(f, r))
<1>1. \A g \in DOMAIN Over(f, r) :
        \/ g \in DOMAIN f /\ Over(f, r)[g] = f[g]
        \/ g \in DOMAIN r /\ Over(f, r)[g] = r[g]
  <2>1. /\ DOMAIN Over(f, r) = DOMAIN f \cup DOMAIN r
        /\ \A g \in DOMAIN f : Over(f, r)[g] = f[g]
        /\ \A g \in DOMAIN r \ DOMAIN f : Over(f, r)[g] = r[g]
    BY OverFacts
  <2> QED BY <2>1
<1> QED BY <1>1 DEF MainIn

LEMMA FreshType ==
  ASSUME NEW folder \in Folders, NEW b \in BOOLEAN
  PROVE  /\ Fresh(folder, b) \in Registration
         /\ Fresh(folder, b).isMain = b /\ Fresh(folder, b).folder = folder
  BY DEF Fresh, Registration

(* The registration of those of some default groups that are missing.      *)
LEMMA MissingKeep ==
  ASSUME NEW rows \in Tables, NEW groups \in SUBSET Defaults
  PROVE  /\ WithMissing(rows, groups) \in Tables
         /\ UniqueIn(rows) => UniqueIn(WithMissing(rows, groups))
         /\ MainIn(rows) => MainIn(WithMissing(rows, groups))
<1> DEFINE missing == groups \ DOMAIN rows
           added == [d \in missing |-> Fresh(HomeFolder[d], d = Control)]
           kept == {h \in DOMAIN rows : \A d \in missing : rows[h].folder # HomeFolder[d]}
           rest == Restrict(rows, kept)
<1>1. /\ missing \subseteq Groups /\ \A d \in missing : HomeFolder[d] \in Folders
      /\ \A d, e \in missing : HomeFolder[d] = HomeFolder[e] => d = e
  BY RegistryAssumption DEF IsInjective
<1>2. /\ added \in Tables /\ DOMAIN added = missing
      /\ \A d \in missing : added[d].folder = HomeFolder[d] /\ added[d].isMain = (d = Control)
  BY <1>1, FreshType, TablesDef
<1>3. DOMAIN rest = kept /\ \A h \in kept : rest[h] = rows[h]
  BY DEF Restrict
<1>4. rest \in Tables
  <2>1. rest \in [DOMAIN rest -> Registration]
    BY <1>3, TablesDef DEF Restrict
  <2> QED BY <1>3, <2>1, TablesDef
<1>5. WithMissing(rows, groups) = Over(added, rest)
  BY DEF WithMissing
<1>6. \A h \in kept : h \in DOMAIN rows /\ \A d \in missing : rows[h].folder # HomeFolder[d]
  OBVIOUS
<1> HIDE DEF added, rest, kept, missing
<1>8. /\ Over(added, rest) \in Tables /\ DOMAIN Over(added, rest) = DOMAIN added \cup DOMAIN rest
      /\ \A g \in DOMAIN added : Over(added, rest)[g] = added[g]
      /\ \A g \in DOMAIN rest \ DOMAIN added : Over(added, rest)[g] = rest[g]
  BY <1>2, <1>4, OverFacts
<1>7. \A g \in DOMAIN Over(added, rest) :
        \/ g \in missing /\ Over(added, rest)[g] = added[g]
        \/ g \in kept /\ g \notin missing /\ Over(added, rest)[g] = rows[g]
  BY <1>2, <1>3, <1>8
<1>9. UniqueIn(rows) => UniqueIn(Over(added, rest))
  BY <1>1, <1>2, <1>6, <1>7, <1>8 DEF UniqueIn
<1>10. MainIn(rows) => MainIn(Over(added, rest))
  BY <1>2, <1>6, <1>7, <1>8 DEF MainIn
<1> QED BY <1>5, <1>8, <1>9, <1>10

(* createOrchestrator's registration of the missing default groups.        *)
LEMMA DefaultsKeep ==
  ASSUME NEW rows \in Tables
  PROVE  /\ WithDefaults(rows) \in Tables
         /\ UniqueIn(rows) => UniqueIn(WithDefaults(rows))
         /\ MainIn(rows) => MainIn(WithDefaults(rows))
<1> DEFINE others == WithMissing(rows, Defaults \ {Control})
<1>1. /\ others \in Tables
      /\ UniqueIn(rows) => UniqueIn(others)
      /\ MainIn(rows) => MainIn(others)
  BY MissingKeep
<1>2. {Control} \in SUBSET Defaults /\ WithDefaults(rows) = WithMissing(others, {Control})
  BY RegistryAssumption DEF WithDefaults
<1> HIDE DEF others
<1> QED BY <1>1, <1>2, MissingKeep
-----------------------------------------------------------------------------

(* syncRegisteredGroups: the rows are in the memory.                       *)
LEMMA SyncedFacts ==
  ASSUME NEW entries \in Tables, NEW rows \in Tables
  PROVE  /\ Synced(entries, rows) \in Tables
         /\ \A g \in DOMAIN rows : g \in DOMAIN Synced(entries, rows) /\ Synced(entries, rows)[g] = rows[g]
         /\ DOMAIN entries \subseteq DOMAIN Synced(entries, rows)
         /\ MainIn(rows) /\ MainIn(entries) => MainIn(Synced(entries, rows))
<1>1. Synced(entries, rows) = Over(rows, entries)
  BY DEF Synced
<1>2. /\ Over(rows, entries) \in Tables
      /\ DOMAIN Over(rows, entries) = DOMAIN rows \cup DOMAIN entries
      /\ \A g \in DOMAIN rows : Over(rows, entries)[g] = rows[g]
  BY OverFacts
<1>3. MainIn(rows) /\ MainIn(entries) => MainIn(Over(rows, entries))
  BY OverKeepsMain
<1> QED BY <1>1, <1>2, <1>3

(* A write of a good table followed by a sync.                             *)
LEMMA WriteKeeps ==
  ASSUME RegInv, up, NEW g \in Groups, NEW rows \in Tables, UniqueIn(rows), MainIn(rows),
         WriteAndSync(g, rows), UNCHANGED <<up, jobs>>
  PROVE  RegInv'
<1>1. /\ registeredGroups \in Tables /\ MainIn(registeredGroups)
      /\ table' = rows /\ registeredGroups' = Synced(registeredGroups, rows) /\ foreign' = {}
      /\ up' /\ jobs' = jobs
  BY DEF RegInv, RegTypeOK, WriteAndSync
<1>2. /\ Synced(registeredGroups, rows) \in Tables /\ MainIn(Synced(registeredGroups, rows))
      /\ \A h \in DOMAIN rows : /\ h \in DOMAIN Synced(registeredGroups, rows)
                                /\ Synced(registeredGroups, rows)[h] = rows[h]
  BY <1>1, SyncedFacts
<1>3. RegTypeOK'
  BY <1>1, <1>2 DEF RegInv, RegTypeOK
<1>4. MemoryFollowsTable' /\ DownForgets'
  BY <1>1, <1>2 DEF MemoryFollowsTable, DownForgets
<1>5. FoldersUnique' /\ MainIn(table)' /\ MainIn(registeredGroups)'
  BY <1>1, <1>2 DEF FoldersUnique, UniqueIn, MainIn
<1> QED BY <1>3, <1>4, <1>5 DEF RegInv

(* registerGroup, with or without the second write of its callers.         *)
LEMMA RegisterKeeps ==
  ASSUME RegInv, up, NEW g \in Groups, NEW folder \in Folders, NEW open \in BOOLEAN,
         Register(g, folder, open), UNCHANGED <<up, jobs>>
  PROVE  /\ RegInv'
         /\ g \in DOMAIN registeredGroups' /\ DOMAIN registeredGroups \subseteq DOMAIN registeredGroups'
<1> DEFINE row == Fresh(folder, FALSE)
           one == [h \in {g} |-> row]
           entries == Over(one, registeredGroups)
           rows == Put(table, g, row)
           last == [row EXCEPT !.requiresTrigger = FALSE]
           opened == Put(rows, g, last)
<1>1. /\ row \in Registration /\ last \in Registration
      /\ row.isMain = FALSE /\ last.isMain = FALSE
  BY DEF Fresh, Registration
<1>2. /\ table \in Tables /\ registeredGroups \in Tables /\ foreign \subseteq Groups
      /\ UniqueIn(table) /\ MainIn(table) /\ MainIn(registeredGroups)
  BY DEF RegInv, RegTypeOK, FoldersUnique
<1> HIDE DEF row, last
<1>3. rows \in Tables /\ UniqueIn(rows) /\ MainIn(rows)
  BY <1>1, <1>2, PutFacts, PutKeeps
<1>4. opened \in Tables /\ UniqueIn(opened) /\ MainIn(opened)
  BY <1>1, <1>3, PutFacts, PutKeeps
<1>5. one \in Tables /\ DOMAIN one = {g} /\ one[g] = row /\ MainIn(one)
  BY <1>1, TablesDef DEF MainIn
<1>6. /\ entries \in Tables /\ DOMAIN entries = {g} \cup DOMAIN registeredGroups
      /\ entries[g] = row /\ \A h \in DOMAIN registeredGroups \ {g} : entries[h] = registeredGroups[h]
      /\ MainIn(entries)
  <2> HIDE DEF one
  <2>1. /\ Over(one, registeredGroups) \in Tables
        /\ DOMAIN Over(one, registeredGroups) = DOMAIN one \cup DOMAIN registeredGroups
        /\ \A h \in DOMAIN one : Over(one, registeredGroups)[h] = one[h]
        /\ \A h \in DOMAIN registeredGroups \ DOMAIN one :
             Over(one, registeredGroups)[h] = registeredGroups[h]
    BY <1>2, <1>5, OverFacts
  <2>2. MainIn(Over(one, registeredGroups))
    BY <1>2, <1>5, OverKeepsMain
  <2> QED BY <1>5, <2>1, <2>2
<1>7. CASE open
  <2>1. table' = opened /\ registeredGroups' = Synced(entries, opened) /\ foreign' = {} /\ up' /\ jobs' = jobs
    BY <1>7 DEF Register, row, last
  <2> HIDE DEF entries, opened
  <2>2. /\ Synced(entries, opened) \in Tables /\ MainIn(Synced(entries, opened))
        /\ \A h \in DOMAIN opened : /\ h \in DOMAIN Synced(entries, opened)
                                    /\ Synced(entries, opened)[h] = opened[h]
        /\ DOMAIN entries \subseteq DOMAIN Synced(entries, opened)
    BY <1>4, <1>6, SyncedFacts
  <2>3. RegTypeOK'
    BY <1>4, <2>1, <2>2 DEF RegInv, RegTypeOK
  <2>4. MemoryFollowsTable' /\ DownForgets'
    BY <2>1, <2>2 DEF MemoryFollowsTable, DownForgets
  <2>5. FoldersUnique' /\ MainIn(table)' /\ MainIn(registeredGroups)'
    BY <1>4, <2>1, <2>2 DEF FoldersUnique, UniqueIn, MainIn
  <2> QED BY <1>6, <2>1, <2>2, <2>3, <2>4, <2>5 DEF RegInv
<1>8. CASE ~open
  <2>1. table' = rows /\ registeredGroups' = entries /\ foreign' = foreign \ {g} /\ up' /\ jobs' = jobs
    BY <1>8 DEF Register, row, last
  <2>2. /\ g \in DOMAIN rows /\ rows[g] = row
        /\ \A h \in DOMAIN rows \ {g} : h \in DOMAIN table /\ rows[h] = table[h]
    <3>1. DOMAIN rows \subseteq Groups
      BY <1>3, TablesDef
    <3> QED BY <1>1, <1>2, <3>1, PutFacts
  <2> HIDE DEF entries, rows
  <2>3. RegTypeOK'
    BY <1>2, <1>3, <1>6, <2>1 DEF RegInv, RegTypeOK
  <2>4. MemoryFollowsTable' /\ DownForgets'
    <3>1. \A h \in DOMAIN rows \ foreign' : h \in DOMAIN entries /\ entries[h] = rows[h]
      BY <1>6, <2>1, <2>2 DEF RegInv, MemoryFollowsTable
    <3> QED BY <2>1, <3>1 DEF MemoryFollowsTable, DownForgets
  <2>5. FoldersUnique' /\ MainIn(table)' /\ MainIn(registeredGroups)'
    BY <1>3, <1>6, <2>1 DEF FoldersUnique, UniqueIn, MainIn
  <2> QED BY <1>6, <2>1, <2>3, <2>4, <2>5 DEF RegInv
<1> QED BY <1>7, <1>8

(* A change by another process.                                            *)
LEMMA ForeignKeeps ==
  ASSUME RegInv, NEW rows \in Tables, UniqueIn(rows), MainIn(rows), Foreign(rows)
  PROVE  RegInv'
<1>1. RegTypeOK'
  BY DEF RegInv, RegTypeOK, Foreign
<1>2. MemoryFollowsTable' /\ DownForgets'
  <2>1. DOMAIN rows \subseteq Groups
    BY TablesDef
  <2> QED BY <2>1 DEF RegInv, MemoryFollowsTable, DownForgets, Foreign
<1>3. FoldersUnique' /\ MainIn(table)' /\ MainIn(registeredGroups)'
  BY DEF RegInv, FoldersUnique, UniqueIn, MainIn, Foreign
<1> QED BY <1>1, <1>2, <1>3 DEF RegInv

(* A row that is changed in its model or mounts.                           *)
LEMMA ChangedRow ==
  ASSUME RegInv, NEW g \in DOMAIN table, NEW row \in Registration,
         row.folder = table[g].folder, row.isMain = table[g].isMain
  PROVE  /\ g \in Groups
         /\ Put(table, g, row) \in Tables /\ UniqueIn(Put(table, g, row)) /\ MainIn(Put(table, g, row))
         /\ \A h \in Groups \ {g} : /\ h \in DOMAIN Put(table, g, row) <=> h \in DOMAIN table
                                    /\ h \in DOMAIN table => Put(table, g, row)[h] = table[h]
<1>1. table \in Tables /\ UniqueIn(table) /\ MainIn(table)
  BY DEF RegInv, RegTypeOK, FoldersUnique
<1>2. g \in Groups
  BY <1>1, TablesDef
<1>3. \A h \in Groups \ {g} : h \in DOMAIN table => table[h].folder # row.folder
  BY <1>1 DEF UniqueIn
<1>4. \A h \in Groups \ {g} :
        /\ h \in DOMAIN Put(table, g, row) <=> h \in DOMAIN table /\ table[h].folder # row.folder
        /\ h \in DOMAIN Put(table, g, row) => Put(table, g, row)[h] = table[h]
  BY <1>1, <1>2, PutFacts
<1>5. row.isMain => g = Control
  BY <1>1 DEF MainIn
<1> QED BY <1>1, <1>2, <1>3, <1>4, <1>5, PutFacts, PutKeeps

LEMMA RowChanges ==
  ASSUME RegInv, NEW g \in DOMAIN table, NEW m \in {None, "readonly", "writable"}
  PROVE  /\ [table[g] EXCEPT !.model = TRUE] \in Registration
         /\ [table[g] EXCEPT !.model = TRUE].folder = table[g].folder
         /\ [table[g] EXCEPT !.model = TRUE].isMain = table[g].isMain
         /\ [table[g] EXCEPT !.mounts = m] \in Registration
         /\ [table[g] EXCEPT !.mounts = m].folder = table[g].folder
         /\ [table[g] EXCEPT !.mounts = m].isMain = table[g].isMain
<1>1. table[g] \in Registration
  BY TablesDef DEF RegInv, RegTypeOK
<1> QED BY <1>1 DEF Registration

(* An agent of another group than the main group: its tool requests change *)
(* no row but its own and no task of another group.                        *)
LEMMA OrdinaryRequest ==
  ASSUME RegInv, NEW g \in Groups, ToolRequest(g), ~IsMain(g)
  PROVE  /\ \A h \in Groups \ {g} : /\ h \in DOMAIN table' <=> h \in DOMAIN table
                                    /\ h \in DOMAIN table => table'[h] = table[h]
         /\ \A j \in Jobs : jobs'[j] # jobs[j] => g \in {jobs[j].group, jobs'[j].group}
<1>1. CASE UpdateGroupMounts(g)
  <2>1. PICK target \in Groups, m \in MountResults(g) :
          /\ Authorized(g, target) /\ target \in DOMAIN table
          /\ table' = Put(table, target, [table[target] EXCEPT !.mounts = m])
          /\ jobs' = jobs
    BY <1>1 DEF UpdateGroupMounts, WriteAndSync
  <2>2. target = g
    BY <2>1 DEF Authorized
  <2>3. m \in {None, "readonly", "writable"}
    BY <2>1 DEF MountResults, MountResult
  <2> DEFINE row == [table[g] EXCEPT !.mounts = m]
  <2>4. g \in DOMAIN table /\ table' = Put(table, g, row) /\ jobs' = jobs
    BY <2>1, <2>2
  <2>5. row \in Registration /\ row.folder = table[g].folder /\ row.isMain = table[g].isMain
    BY <2>3, <2>4, RowChanges
  <2> HIDE DEF row
  <2> QED BY <2>4, <2>5, ChangedRow
<1>2. CASE ScheduleTask(g)
  <2>1. PICK j \in Jobs, target \in Groups :
          /\ Authorized(g, target) /\ table' = table
          /\ jobs' = [jobs EXCEPT ![j] = [group |-> target, status |-> "active"]]
    BY <1>2 DEF ScheduleTask
  <2>2. target = g
    BY <2>1 DEF Authorized
  <2>3. jobs \in [Jobs -> [group : Groups \cup {None}, status : {"absent", "active", "paused"}]]
    BY DEF RegInv, RegTypeOK
  <2> QED BY <2>1, <2>2, <2>3
<1>3. CASE ChangeTask(g)
  <2>1. PICK j \in Jobs, status \in {"active", "paused", "absent"} :
          /\ Authorized(g, jobs[j].group) /\ table' = table
          /\ jobs' = [jobs EXCEPT ![j] = IF status = "absent" THEN NoJob ELSE [@ EXCEPT !.status = status]]
    BY <1>3 DEF ChangeTask
  <2>2. jobs[j].group = g
    BY <2>1 DEF Authorized
  <2>3. jobs \in [Jobs -> [group : Groups \cup {None}, status : {"absent", "active", "paused"}]]
    BY DEF RegInv, RegTypeOK
  <2> QED BY <2>1, <2>2, <2>3
<1> QED BY <1>1, <1>2, <1>3 DEF ToolRequest, ToolRegisterGroup
-----------------------------------------------------------------------------

LEMMA RegInit_RegInv == ASSUME RegInit PROVE RegInv
<1>1. table = [g \in {} |-> None] /\ table \in Tables /\ DOMAIN table = {}
  BY TablesDef DEF RegInit
<1>2. RegTypeOK
  BY <1>1, TablesDef DEF RegInit, RegTypeOK, NoJob
<1> QED BY <1>1, <1>2 DEF RegInit, RegInv, FoldersUnique, UniqueIn, MemoryFollowsTable, DownForgets, MainIn

LEMMA RegStep ==
  ASSUME RegInv, [RegNext]_regVars
  PROVE  RegInv'
<1>1. CASE UNCHANGED regVars
  BY <1>1 DEF regVars, RegInv, RegTypeOK, FoldersUnique, UniqueIn, MemoryFollowsTable, DownForgets, MainIn
<1>2. CASE Boot
  <2>1. /\ WithDefaults(table) \in Tables /\ UniqueIn(WithDefaults(table)) /\ MainIn(WithDefaults(table))
    BY DefaultsKeep DEF RegInv, RegTypeOK, FoldersUnique
  <2>2. table' = WithDefaults(table) /\ registeredGroups' = table' /\ foreign' = {} /\ up' = TRUE /\ jobs' = jobs
    BY <1>2 DEF Boot
  <2> QED BY <2>1, <2>2 DEF RegInv, RegTypeOK, FoldersUnique, UniqueIn, MemoryFollowsTable, DownForgets, MainIn
<1>3. CASE Down
  <2>1. [g \in {} |-> None] \in Tables
    BY TablesDef
  <2> QED BY <1>3, <2>1 DEF Down, RegInv, RegTypeOK, FoldersUnique, UniqueIn, MemoryFollowsTable, DownForgets, MainIn
<1>4. CASE Sync
  <2>1. /\ table \in Tables /\ registeredGroups \in Tables
        /\ MainIn(table) /\ MainIn(registeredGroups) /\ UniqueIn(table)
    BY DEF RegInv, RegTypeOK, FoldersUnique
  <2>2. /\ Synced(registeredGroups, table) \in Tables /\ MainIn(Synced(registeredGroups, table))
        /\ \A g \in DOMAIN table : /\ g \in DOMAIN Synced(registeredGroups, table)
                                   /\ Synced(registeredGroups, table)[g] = table[g]
    BY <2>1, SyncedFacts
  <2>3. /\ registeredGroups' = Synced(registeredGroups, table) /\ foreign' = {}
        /\ table' = table /\ up /\ up' = up /\ jobs' = jobs
    BY <1>4 DEF Sync
  <2>4. RegTypeOK'
    BY <2>2, <2>3 DEF RegInv, RegTypeOK
  <2>5. MemoryFollowsTable' /\ DownForgets'
    BY <2>2, <2>3 DEF MemoryFollowsTable, DownForgets
  <2>6. FoldersUnique' /\ MainIn(table)' /\ MainIn(registeredGroups)'
    BY <2>1, <2>2, <2>3 DEF FoldersUnique, UniqueIn, MainIn
  <2> QED BY <2>4, <2>5, <2>6 DEF RegInv
<1>5. CASE OtherStarts
  <2>1. WithDefaults(table) \in Tables /\ UniqueIn(WithDefaults(table)) /\ MainIn(WithDefaults(table))
    BY DefaultsKeep DEF RegInv, RegTypeOK, FoldersUnique
  <2> QED BY <1>5, <2>1, ForeignKeeps DEF OtherStarts
<1>6. CASE OtherCommand
  <2>1. CASE \E g \in Groups, folder \in Folders : Foreign(Put(table, g, Fresh(folder, FALSE)))
    <3>1. PICK g \in Groups, folder \in Folders : Foreign(Put(table, g, Fresh(folder, FALSE)))
      BY <2>1
    <3>2. Fresh(folder, FALSE) \in Registration /\ Fresh(folder, FALSE).isMain = FALSE
      BY FreshType
    <3>3. table \in Tables /\ UniqueIn(table) /\ MainIn(table)
      BY DEF RegInv, RegTypeOK, FoldersUnique
    <3>4. LET rows == Put(table, g, Fresh(folder, FALSE)) IN
          rows \in Tables /\ UniqueIn(rows) /\ MainIn(rows)
      BY <3>2, <3>3, PutFacts, PutKeeps
    <3> QED BY <3>1, <3>4, ForeignKeeps
  <2>2. CASE \E g \in DOMAIN table : Foreign(Put(table, g, [table[g] EXCEPT !.model = TRUE]))
    <3>1. PICK g \in DOMAIN table : Foreign(Put(table, g, [table[g] EXCEPT !.model = TRUE]))
      BY <2>2
    <3> QED BY <3>1, RowChanges, ChangedRow, ForeignKeeps
  <2> QED BY <1>6, <2>1, <2>2 DEF OtherCommand
<1>7. ASSUME up, UNCHANGED up, RegisterCommand PROVE RegInv'
  <2>1. PICK g \in Groups, folder \in Folders, open \in BOOLEAN : Register(g, folder, open) /\ UNCHANGED jobs
    BY <1>7 DEF RegisterCommand
  <2> QED BY <1>7, <2>1, RegisterKeeps
<1>8. ASSUME NEW g \in Groups, MainCommand(g) PROVE RegInv'
  <2>1. CASE RegisterCommand
    BY <1>7, <1>8, <2>1 DEF MainCommand
  <2>2. CASE SetModel
    <3>1. PICK h \in DOMAIN table :
            WriteAndSync(h, Put(table, h, [table[h] EXCEPT !.model = TRUE])) /\ UNCHANGED jobs
      BY <2>2 DEF SetModel
    <3>2. up /\ UNCHANGED <<up, jobs>>
      BY <1>8, <3>1 DEF MainCommand
    <3>3. LET rows == Put(table, h, [table[h] EXCEPT !.model = TRUE]) IN
          h \in Groups /\ rows \in Tables /\ UniqueIn(rows) /\ MainIn(rows)
      BY RowChanges, ChangedRow
    <3> QED BY <3>1, <3>2, <3>3, WriteKeeps
  <2> QED BY <1>8, <2>1, <2>2 DEF MainCommand
<1>9. ASSUME NEW g \in Groups, ToolRequest(g) PROVE RegInv'
  <2>0. up /\ UNCHANGED up
    BY <1>9 DEF ToolRequest
  <2>1. CASE ToolRegisterGroup(g)
    BY <1>7, <2>0, <2>1 DEF ToolRegisterGroup
  <2>2. CASE UpdateGroupMounts(g)
    <3>1. PICK h \in Groups, m \in MountResults(g) :
            /\ h \in DOMAIN table
            /\ WriteAndSync(h, Put(table, h, [table[h] EXCEPT !.mounts = m])) /\ UNCHANGED jobs
      BY <2>2 DEF UpdateGroupMounts
    <3>2. m \in {None, "readonly", "writable"}
      BY <3>1 DEF MountResults, MountResult
    <3>3. LET rows == Put(table, h, [table[h] EXCEPT !.mounts = m]) IN
          rows \in Tables /\ UniqueIn(rows) /\ MainIn(rows)
      BY <3>1, <3>2, RowChanges, ChangedRow
    <3> QED BY <2>0, <3>1, <3>3, WriteKeeps
  <2>3. CASE ScheduleTask(g)
    <3>1. RegTypeOK'
      BY <2>0, <2>3 DEF ScheduleTask, RegInv, RegTypeOK
    <3> QED BY <2>0, <2>3, <3>1 DEF ScheduleTask, RegInv, FoldersUnique, UniqueIn, MemoryFollowsTable, DownForgets, MainIn
  <2>4. CASE ChangeTask(g)
    <3>1. RegTypeOK'
      BY <2>0, <2>4 DEF ChangeTask, RegInv, RegTypeOK, NoJob
    <3> QED BY <2>0, <2>4, <3>1 DEF ChangeTask, RegInv, FoldersUnique, UniqueIn, MemoryFollowsTable, DownForgets, MainIn
  <2> QED BY <1>9, <2>1, <2>2, <2>3, <2>4 DEF ToolRequest
<1> QED BY <1>1, <1>2, <1>3, <1>4, <1>5, <1>6, <1>8, <1>9 DEF RegNext
-----------------------------------------------------------------------------

LEMMA RegInvariant == RegSpec => []RegInv
  BY RegInit_RegInv, RegStep, PTL DEF RegSpec

(* Rows and entries keep their types.                                      *)
THEOREM RegistryTypes == RegSpec => []RegTypeOK
  BY RegInvariant, PTL DEF RegInv

(* However the groups change, the memory has the table's rows, except for  *)
(* what another process wrote since the last sync.                         *)
THEOREM MemoryIsSound == RegSpec => []MemoryFollowsTable
  BY RegInvariant, PTL DEF RegInv

(* No group but the control group ever has the main group's rights.        *)
THEOREM ControlAlone == RegSpec => []OnlyControlIsMain
<1>1. RegInv => OnlyControlIsMain
  BY DEF RegInv, MainIn, OnlyControlIsMain
<1> QED BY <1>1, RegInvariant, PTL

(* Of groups that share a folder in memory at most one is in the table.    *)
THEOREM SharersSeparate == RegSpec => []SharersLostTheirRow
<1>1. RegInv => SharersLostTheirRow
  <2> SUFFICES ASSUME RegInv, NEW g \in DOMAIN registeredGroups, NEW h \in DOMAIN registeredGroups,
                      g # h, registeredGroups[g].folder = registeredGroups[h].folder,
                      {g, h} \subseteq DOMAIN table, {g, h} \cap foreign = {}
               PROVE  FALSE
    BY DEF SharersLostTheirRow
  <2>1. up
    BY DEF RegInv, DownForgets
  <2>2. registeredGroups[g] = table[g] /\ registeredGroups[h] = table[h]
    BY <2>1 DEF RegInv, MemoryFollowsTable
  <2> QED BY <2>2 DEF RegInv, FoldersUnique, UniqueIn
<1> QED BY <1>1, RegInvariant, PTL

(* An agent outside the main group changes no registration but its own and *)
(* no other group's tasks.                                                 *)
THEOREM OrdinaryGroupsAreConfined == RegSpec => OrdinaryGroupsTouchOnlyThemselves
<1> DEFINE Confined == \A g \in Groups : ToolRequest(g) /\ ~IsMain(g) =>
       /\ \A h \in Groups \ {g} : /\ h \in DOMAIN table' <=> h \in DOMAIN table
                                  /\ h \in DOMAIN table => table'[h] = table[h]
       /\ \A j \in Jobs : jobs'[j] # jobs[j] => g \in {jobs[j].group, jobs'[j].group}
<1>1. RegInv /\ [RegNext]_regVars => [Confined]_regVars
  BY OrdinaryRequest
<1>2. RegSpec => [][Confined]_regVars
  BY <1>1, RegInvariant, PTL DEF RegSpec
<1> QED BY <1>2 DEF OrdinaryGroupsTouchOnlyThemselves
=============================================================================
