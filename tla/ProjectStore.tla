---------------------------- MODULE ProjectStore ----------------------------
(***************************************************************************)
(* The documents under `.apihero` and those who write them, all in one     *)
(* event loop and none holding a lock: migrations on activation, for a     *)
(* folder added later and by the Initialize command                        *)
(* (src/project-store/migrate.ts), saves of the environment manager and    *)
(* switches of the active environment (project-store-service.ts), saves of *)
(* authentication profiles, and extracted collection variables             *)
(* (src/variables/collection-variable-store.ts). Every file operation is a *)
(* step of its own, may fail, and may be the last one before a crash.      *)
(*                                                                         *)
(* The contents of a document are named by the job that wrote them; what   *)
(* any migration brings is Startup. The sensitive values of environments,  *)
(* workspace and collections share one file, the overlay.                  *)
(***************************************************************************)
CONSTANTS
  Save,      \* saves, and later migrations, that may be asked for, each once
  Startup,   \* the migration on activation, and the contents of the settings
  Half,      \* the first environment files of a migration
  Empty, Absent, Torn, None

VARIABLES
  disk,      \* the documents
  backup,    \* environments.bak-*, by the save that made it
  staging,   \* environments.staging-*, likewise
  secret,    \* SecretStorage holds the credentials of a profile
  cache,     \* project metadata in the coordinator
  job,       \* what each job is and how far it is
  intact,    \* since activation or a whole save, no failure and no overlap
  spoiled    \* a migration wrote environments beside the marker, or tore it

vars == <<disk, backup, staging, secret, cache, job, intact, spoiled>>

Job == Save \cup {Startup}
Kind == {"metadata", "active", "profiles", "collection", "migration"}
Content == Job \cup {Empty}
Sensitive == [workspace : Content, environments : Content, collections : SUBSET Save]
NoSecrets == [workspace |-> Empty, environments |-> Empty, collections |-> {}]

(* A file that is missing or torn has no content that any job writes.       *)
ASSUME ProjectStoreAssumption ==
  /\ Startup \notin Save \cup {Empty, Half, Absent, Torn, None}
  /\ Empty \notin Save \cup {Half, Absent, Torn, None}
  /\ {Half, Absent, Torn, None} \cap Save = {} /\ Half \notin {Absent, Torn, None}
  /\ Absent \notin {Torn, None} /\ Torn # None /\ Torn \notin Sensitive

Directory == Content \cup {Half, Absent, Torn}
Disk == [marker : BOOLEAN, live : Directory,
         document : Content \cup {Absent, Torn}, profiles : Content \cup {Absent, Torn},
         overlay : Sensitive \cup {Torn}]

(* What a reader of the overlay gets, and of workspace.json. *)
overlay == IF disk.overlay = Torn THEN NoSecrets ELSE disk.overlay
document == IF disk.document \in {Absent, Torn} THEN Empty ELSE disk.document

Fresh(kind) == [kind |-> kind, pc |-> "unborn", alone |-> FALSE, held |-> FALSE, again |-> FALSE,
                variables |-> Empty, secrets |-> NoSecrets, seen |-> None]

Activation == [Fresh("migration") EXCEPT !.pc = "promote", !.alone = TRUE]

Init ==
  /\ disk = [marker |-> FALSE, live |-> Absent, document |-> Absent, profiles |-> Absent,
             overlay |-> NoSecrets]
  /\ backup = [s \in Save |-> Absent] /\ staging = [s \in Save |-> Absent]
  /\ secret = FALSE /\ cache = None
  /\ \E kind \in [Save -> Kind], first \in {Activation, [Fresh("migration") EXCEPT !.pc = "done"]} :
       job = [j \in Job |-> IF j = Startup THEN first ELSE Fresh(kind[j])]
  /\ intact = (job[Startup].pc = "promote") /\ spoiled = FALSE

-----------------------------------------------------------------------------
Over == {"unborn", "done", "failed", "lost"}
Active == {j \in Job : job[j].pc \notin Over}

At(j, pc) == job[j].pc = pc
Goto(j, pc) == job' = [job EXCEPT ![j] = [@ EXCEPT !.pc = pc, !.seen = None]]

(* A job that is over keeps nothing of what it read.                        *)
Left(j, pc) == [Fresh(job[j].kind) EXCEPT !.pc = pc]
End(j, pc) == job' = [job EXCEPT ![j] = Left(j, pc)]

(* Only a migration brings the settings, and not when it initialises again. *)
IsMigration(j) == job[j].kind = "migration" /\ ~job[j].again

(* Where a job goes on once the store is initialised. *)
AfterEnsure(j) ==
  CASE job[j].kind = "metadata" -> "stage"
    [] job[j].kind = "active" -> "readDocument"
    [] job[j].kind = "profiles" -> "profiles"
    [] OTHER -> "done"

(* A job begins, alone or not; only activation awaits its migration before  *)
(* anything else.                                                           *)
Start(s) ==
  /\ At(s, "unborn") /\ Startup \notin Active
  /\ job' = [j \in Job |->
       IF j = s
       THEN [job[s] EXCEPT !.alone = (Active = {}),
                           !.pc = CASE job[s].kind \in {"profiles", "migration"} -> "promote"
                                    [] job[s].kind = "collection" -> "readCollections"
                                    [] OTHER -> "ensure"]
       ELSE [job[j] EXCEPT !.alone = FALSE]]
  /\ intact' = (intact /\ Active = {})
  /\ UNCHANGED <<disk, backup, staging, secret, cache, spoiled>>

Keep == UNCHANGED <<backup, staging, secret, cache, intact, spoiled>>
KeepDisk == UNCHANGED <<disk, backup, staging, secret, cache, intact, spoiled>>

(* A file that is there and cannot be read counts as empty. *)
Read(j, ok, next) ==
  /\ job' = [job EXCEPT ![j] = [next EXCEPT !.alone = @ /\ ok]]
  /\ intact' = (intact /\ ok)
  /\ UNCHANGED <<disk, backup, staging, secret, cache, spoiled>>

-----------------------------------------------------------------------------
(* Faulty: a secret that could not be stored is passed over.                *)
PromoteSwallowing(j) ==
  /\ At(j, "promote")
  /\ secret' \in {secret, TRUE}
  /\ Goto(j, "ensure")
  /\ UNCHANGED <<disk, backup, staging, cache, intact, spoiled>>

(* promoteLiterals, before any tracked document: existing secrets stay.     *)
Promote(j) ==
  /\ At(j, "promote")
  /\ secret' = TRUE
  /\ Goto(j, "ensure")
  /\ UNCHANGED <<disk, backup, staging, cache, intact, spoiled>>

(* migrateIfNeeded. The marker alone tells whether anything is to be done.  *)
Ensure(j) ==
  /\ At(j, "ensure")
  /\ Goto(j, IF disk.marker THEN "warm" ELSE "directories")
  /\ KeepDisk

Brought(j) == IF IsMigration(j) THEN Startup ELSE Empty

Directories(j) ==
  /\ At(j, "directories")
  /\ disk' = [disk EXCEPT !.live = IF @ = Absent THEN Empty ELSE @]
  /\ Goto(j, IF IsMigration(j) THEN "files" ELSE "initDocument")
  /\ Keep

(* The files of the environments are written one after the other into the   *)
(* live directory, which is made again if it was moved away. A migration    *)
(* that came late writes among the files of a save, or of another migration *)
(* that has not come to its end.                                            *)
Mixed(content) == content \notin {Absent, Empty, Startup, Half}
Spoils == disk.marker /\ (disk'.live # disk.live \/ ~disk'.marker)
Files == /\ spoiled' = (spoiled \/ Spoils)
         /\ UNCHANGED <<backup, staging, secret, cache, intact>>

FirstFile(j) ==
  /\ At(j, "files")
  /\ disk' = [disk EXCEPT !.live = IF Mixed(@) THEN Torn ELSE Half]
  /\ Goto(j, "lastFile")
  /\ Files

LastFile(j) ==
  /\ At(j, "lastFile")
  /\ LET others == \E m \in Job \ {j} : At(m, "lastFile")
     IN  disk' = [disk EXCEPT !.live = IF @ \notin {Half, Startup} THEN Torn
                                       ELSE IF others THEN Half ELSE Startup]
  /\ Goto(j, "initDocument")
  /\ Files

InitDocument(j) ==
  /\ At(j, "initDocument")
  /\ disk' = [disk EXCEPT !.document = Brought(j)]
  /\ Goto(j, "initProfiles")
  /\ Keep

(* Faulty: the marker comes before the overlay.                             *)
InitProfilesMarking(j) ==
  /\ At(j, "initProfiles")
  /\ disk' = [disk EXCEPT !.profiles = Brought(j), !.marker = TRUE]
  /\ Goto(j, IF IsMigration(j) THEN "initOverlay" ELSE "marker")
  /\ Keep

InitProfiles(j) ==
  /\ At(j, "initProfiles")
  /\ disk' = [disk EXCEPT !.profiles = Brought(j)]
  /\ Goto(j, IF IsMigration(j) THEN "initOverlay" ELSE "marker")
  /\ Keep

InitOverlay(j) ==
  /\ At(j, "initOverlay")
  /\ disk' = [disk EXCEPT !.overlay = [NoSecrets EXCEPT !.workspace = Startup,
                                                        !.environments = Startup]]
  /\ Goto(j, "marker")
  /\ Keep

Marker(j) ==
  /\ At(j, "marker")
  /\ disk' = [disk EXCEPT !.marker = TRUE]
  /\ Goto(j, "warm")
  /\ Keep

-----------------------------------------------------------------------------
(* writeEnvironments: a staging directory is filled and read back, the live *)
(* one moved away, the new one moved in.                                    *)
Stage(s) ==
  /\ At(s, "stage")
  /\ staging' = [staging EXCEPT ![s] = Torn]
  /\ Goto(s, "validate")
  /\ UNCHANGED <<disk, backup, secret, cache, intact, spoiled>>

Validate(s) ==
  /\ At(s, "validate")
  /\ staging' = [staging EXCEPT ![s] = s]
  /\ Goto(s, "look")
  /\ UNCHANGED <<disk, backup, secret, cache, intact, spoiled>>

Look(s) ==
  /\ At(s, "look")
  /\ job' = [job EXCEPT ![s].held = disk.live # Absent,
                        ![s].pc = IF disk.live # Absent THEN "moveAway" ELSE "moveIn"]
  /\ KeepDisk

MoveAway(s) ==
  /\ At(s, "moveAway") /\ disk.live # Absent
  /\ backup' = [backup EXCEPT ![s] = disk.live]
  /\ disk' = [disk EXCEPT !.live = Absent]
  /\ Goto(s, "moveIn")
  /\ UNCHANGED <<staging, secret, cache, intact, spoiled>>

MoveIn(s) ==
  /\ At(s, "moveIn") /\ disk.live = Absent
  /\ disk' = [disk EXCEPT !.live = staging[s]]
  /\ staging' = [staging EXCEPT ![s] = Absent]
  /\ Goto(s, "readForEnvironments")
  /\ UNCHANGED <<backup, secret, cache, intact, spoiled>>

ReadOverlay(s, got) ==
  /\ At(s, "readForEnvironments") \/ At(s, "readForDocument")
  /\ Read(s, got = overlay, [job[s] EXCEPT !.secrets = got,
       !.pc = IF @ = "readForEnvironments" THEN "overlayEnvironments" ELSE "overlayDocument"])

(* The overlay is built from an empty one, without collections.             *)
OverlayEnvironments(s) ==
  /\ At(s, "overlayEnvironments")
  /\ disk' = [disk EXCEPT !.overlay =
                [NoSecrets EXCEPT !.workspace = job[s].secrets.workspace, !.environments = s]]
  /\ Goto(s, IF job[s].held THEN "dropBackup" ELSE "document")
  /\ Keep

DropBackup(s) ==
  /\ At(s, "dropBackup")
  /\ backup' = [backup EXCEPT ![s] = Absent]
  /\ Goto(s, "document")
  /\ UNCHANGED <<disk, staging, secret, cache, intact, spoiled>>

-----------------------------------------------------------------------------
(* writeActiveEnvironmentId keeps the variables it reads; a document that   *)
(* is missing, unreadable or empty has none, and no sensitive ones.         *)
ReadDocument(s, got) ==
  /\ At(s, "readDocument")
  /\ Read(s, got = document, [job[s] EXCEPT !.variables = got, !.secrets = NoSecrets,
                                            !.pc = IF got = Empty THEN "document" ELSE "readSecrets"])

ReadSecrets(s, got) ==
  /\ At(s, "readSecrets")
  /\ Read(s, got = overlay, [job[s] EXCEPT !.secrets = got, !.pc = "document"])

Kept(s) == job[s].kind = "active"

(* writeWorkspaceDocument: the document, then its part of the overlay.      *)
WriteDocument(s) ==
  /\ At(s, "document")
  /\ disk' = [disk EXCEPT !.document = IF Kept(s) THEN job[s].variables ELSE s]
  /\ job' = [job EXCEPT ![s].variables = IF Kept(s) THEN job[s].secrets.workspace ELSE s,
                        ![s].pc = "readForDocument"]
  /\ Keep

(* Faulty: the overlay is built without the part of the environments.       *)
OverlayDocumentAlone(s) ==
  /\ At(s, "overlayDocument")
  /\ disk' = [disk EXCEPT !.overlay = [NoSecrets EXCEPT !.workspace = job[s].variables]]
  /\ Goto(s, "refresh")
  /\ Keep

OverlayDocument(s) ==
  /\ At(s, "overlayDocument")
  /\ disk' = [disk EXCEPT !.overlay =
                [NoSecrets EXCEPT !.workspace = job[s].variables,
                                  !.environments = job[s].secrets.environments]]
  /\ Goto(s, "refresh")
  /\ Keep

Profiles(s) ==
  /\ At(s, "profiles")
  /\ disk' = [disk EXCEPT !.profiles = s]
  /\ Goto(s, "refresh")
  /\ Keep

-----------------------------------------------------------------------------
(* upsert: the overlay's collections are read, then the whole overlay, and  *)
(* it is written with the new collections; then the collection's tracked    *)
(* document, which nobody else here reads. A plain value leaves no entry of *)
(* its own in the overlay.                                                  *)
ReadCollections(s, got) ==
  /\ At(s, "readCollections")
  /\ \E entry \in {{}, {s}} :
       Read(s, got = overlay, [job[s] EXCEPT !.secrets.collections = got.collections \cup entry,
                                             !.pc = "readExisting"])

ReadExisting(s, got) ==
  /\ At(s, "readExisting")
  /\ Read(s, got = overlay, [job[s] EXCEPT !.secrets.workspace = got.workspace,
                                           !.secrets.environments = got.environments,
                                           !.pc = "overlayCollections"])

OverlayCollections(s) ==
  /\ At(s, "overlayCollections")
  /\ disk' = [disk EXCEPT !.overlay = job[s].secrets]
  /\ Goto(s, "readTracked")
  /\ Keep

ReadTracked(s, ok) ==
  /\ At(s, "readTracked")
  /\ Read(s, ok, [job[s] EXCEPT !.pc = "track"])

Track(s) ==
  /\ At(s, "track")
  /\ End(s, "done")
  /\ KeepDisk

-----------------------------------------------------------------------------
(* refreshCache reads the store and replaces what the coordinator has. A    *)
(* store without a marker or with an unreadable document is as good as none. *)
Snapshot ==
  IF ~disk.marker \/ disk.document = Torn THEN None
  ELSE [environments |-> IF disk.live = Absent THEN Empty ELSE disk.live,
        document |-> document, workspaceSecrets |-> overlay.workspace,
        environmentSecrets |-> overlay.environments]

Refresh(j, got) ==
  /\ At(j, "warm") \/ At(j, "refresh")
  /\ Read(j, got = Snapshot, [job[j] EXCEPT !.seen = got,
                                            !.pc = IF @ = "warm" THEN "warmed" ELSE "refreshed"])

(* The store is initialised, and what it holds in the cache. A migration is *)
(* over, unless the Initialize command has it initialised again.            *)
Warmed(j) ==
  /\ At(j, "warmed")
  /\ cache' = job[j].seen
  /\ \/ IF AfterEnsure(j) = "done" THEN End(j, "done") ELSE Goto(j, AfterEnsure(j))
     \/ /\ IsMigration(j) /\ j # Startup
        /\ job' = [job EXCEPT ![j] = [@ EXCEPT !.again = TRUE, !.pc = "ensure", !.seen = None]]
  /\ UNCHANGED <<disk, backup, staging, secret, intact, spoiled>>

(* The job is over. A whole save that had the store to itself leaves nothing *)
(* of what went wrong before.                                               *)
Refreshed(j) ==
  /\ At(j, "refreshed")
  /\ cache' = job[j].seen
  /\ End(j, "done")
  /\ intact' = (intact \/ (job[j].kind = "metadata" /\ job[j].alone))
  /\ UNCHANGED <<disk, backup, staging, secret, spoiled>>

-----------------------------------------------------------------------------
(* What a write leaves behind when it does not come to its end.             *)
Damaged(j) ==
  CASE job[j].pc \in {"files", "lastFile"} ->
         {disk, [disk EXCEPT !.live = IF Mixed(@) THEN Torn ELSE Half]}
    [] job[j].pc = "marker" -> {disk, [disk EXCEPT !.marker = FALSE]}
    [] job[j].pc \in {"initDocument", "document"} -> {disk, [disk EXCEPT !.document = Torn]}
    [] job[j].pc \in {"initProfiles", "profiles"} -> {disk, [disk EXCEPT !.profiles = Torn]}
    [] job[j].pc \in {"initOverlay", "overlayEnvironments", "overlayDocument",
                      "overlayCollections"} -> {disk, [disk EXCEPT !.overlay = Torn]}
    [] OTHER -> {disk}

Swap == {"stage", "validate", "look", "moveAway", "moveIn", "overlayEnvironments", "dropBackup"}
Reads == {"ensure", "readForEnvironments", "readForDocument", "readDocument", "readSecrets",
          "readCollections", "readExisting", "readTracked", "warm", "warmed", "refresh",
          "refreshed"}
Undoing == {"rollback", "restore", "cleanUp"}

(* A file operation rejects: the save of environments is rolled back, any   *)
(* other job is given up. The rename of a directory that is gone, or onto   *)
(* one that is there, always rejects.                                       *)
Fails(j) ==
  /\ j \in Active /\ job[j].pc \notin Reads \cup Undoing
  /\ disk' \in Damaged(j)
  /\ \/ UNCHANGED backup
     \/ At(j, "dropBackup") /\ backup' = [backup EXCEPT ![j] = Torn]
  /\ IF job[j].pc \in Swap THEN Goto(j, "rollback") ELSE End(j, "failed")
  /\ intact' = FALSE /\ spoiled' = (spoiled \/ Spoils)
  /\ UNCHANGED <<staging, secret, cache>>

(* rollbackEnvironmentWrite: only a missing live directory is restored.     *)
Rollback(s) ==
  /\ At(s, "rollback")
  /\ Goto(s, IF disk.live = Absent /\ backup[s] # Absent THEN "restore" ELSE "cleanUp")
  /\ KeepDisk

Restore(s) ==
  /\ At(s, "restore")
  /\ \/ /\ disk.live = Absent
        /\ disk' = [disk EXCEPT !.live = backup[s]]
        /\ backup' = [backup EXCEPT ![s] = Absent]
     \/ UNCHANGED <<disk, backup>>                     \* the rename rejects
  /\ Goto(s, "cleanUp")
  /\ UNCHANGED <<staging, secret, cache, intact, spoiled>>

(* Faulty: the backup is cleaned up as well.                                *)
CleanUpBackup(s) ==
  /\ At(s, "cleanUp")
  /\ staging' = [staging EXCEPT ![s] = Absent]
  /\ backup' = [backup EXCEPT ![s] = Absent]
  /\ End(s, "failed")
  /\ UNCHANGED <<disk, secret, cache, intact, spoiled>>

CleanUp(s) ==
  /\ At(s, "cleanUp")
  /\ staging' \in {staging, [staging EXCEPT ![s] = Absent]}
  /\ End(s, "failed")
  /\ UNCHANGED <<disk, backup, secret, cache, intact, spoiled>>

(* The editor crashes or is closed, in the middle of a write perhaps; the   *)
(* next one starts with the migration.                                      *)
Crash ==
  /\ Active # {}
  /\ \E j \in Active : disk' \in Damaged(j)
  /\ job' = [j \in Job |->
       IF j = Startup THEN Activation ELSE IF j \in Active THEN Left(j, "lost") ELSE job[j]]
  /\ cache' = None
  /\ intact' = FALSE /\ spoiled' = (spoiled \/ Spoils)
  /\ UNCHANGED <<backup, staging, secret>>

-----------------------------------------------------------------------------
Initialise(j) ==
  \/ Promote(j) \/ Ensure(j) \/ Directories(j) \/ FirstFile(j) \/ LastFile(j)
  \/ InitDocument(j) \/ InitProfiles(j) \/ InitOverlay(j) \/ Marker(j)

WriteEnvironments(s) ==
  \/ Stage(s) \/ Validate(s) \/ Look(s) \/ MoveAway(s) \/ MoveIn(s)
  \/ \E got \in {overlay, NoSecrets} : ReadOverlay(s, got)
  \/ OverlayEnvironments(s) \/ DropBackup(s)
  \/ Rollback(s) \/ Restore(s) \/ CleanUp(s)

WriteOthers(s) ==
  \/ \E got \in {document, Empty} : ReadDocument(s, got)
  \/ \E got \in {overlay, NoSecrets} :
       ReadSecrets(s, got) \/ ReadCollections(s, got) \/ ReadExisting(s, got)
  \/ \E ok \in BOOLEAN : ReadTracked(s, ok)
  \/ WriteDocument(s) \/ OverlayDocument(s) \/ Profiles(s) \/ OverlayCollections(s) \/ Track(s)

Next ==
  \/ \E s \in Save : Start(s) \/ WriteEnvironments(s) \/ WriteOthers(s)
  \/ \E j \in Job : \/ Initialise(j) \/ Warmed(j) \/ Refreshed(j) \/ Fails(j)
                    \/ \E got \in {Snapshot, None} : Refresh(j, got)
  \/ Crash

Spec == Init /\ [][Next]_vars

-----------------------------------------------------------------------------
TypeOK ==
  /\ disk \in Disk
  /\ backup \in [Save -> Directory]
  /\ staging \in [Save -> Directory]
  /\ secret \in BOOLEAN /\ intact \in BOOLEAN /\ spoiled \in BOOLEAN
  /\ \A j \in Job : job[j].secrets \in Sensitive /\ job[j].variables \in Content

Complete == disk.live \in Content \/ \E s \in Save : backup[s] \in Content

(* "never deletes live until staging is ready": a complete set of            *)
(* environments, live or in the backup of a save, is not lost from the disk, *)
(* wherever saves overlap, fail, undo each other or are cut off by a crash,  *)
(* and wherever migrations do, until one that found no marker writes its     *)
(* files, or config.json, after another job has set it.                      *)
EnvironmentsSurvive == [][disk.marker /\ Complete => Complete' \/ spoiled']_vars

(* "config.json last - migration-complete marker for idempotent retries":   *)
(* a migration that failed or crashed anywhere is done again until all it   *)
(* brings is there, unless a save came first and initialised the store.     *)
MigrationIsWhole ==
  disk.marker /\ (\A s \in Save : At(s, "unborn")) =>
    /\ disk.live = Startup /\ disk.document = Startup /\ disk.profiles = Startup
    /\ disk.overlay = [NoSecrets EXCEPT !.workspace = Startup, !.environments = Startup]

(* "redacted profiles are not persisted without credentials".               *)
CredentialsBeforeRedaction == disk.profiles \in Job => secret

(* Once a whole save had the store to itself, and as long as nothing fails  *)
(* or overlaps, documents, their sensitive values and the cache belong      *)
(* together, whatever was lost, torn or mixed up before.                    *)
UndisturbedStoreIsConsistent ==
  intact /\ Active = {} =>
    /\ disk.live = disk.overlay.environments
    /\ disk.document = disk.overlay.workspace
    /\ cache = Snapshot

(* "Sensitive overlays (env / workspace / collections)": what a collection   *)
(* variable put into the overlay of an initialised store stays there while  *)
(* collections are not written.                                             *)
CollectionSecretsSurvive ==
  [][disk.marker /\ disk'.overlay # Torn /\ disk.overlay # Torn =>
       \/ disk.overlay.collections \subseteq disk'.overlay.collections
       \/ \E s \in Save : At(s, "overlayCollections")]_vars
=============================================================================
