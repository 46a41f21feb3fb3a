--------------------------- MODULE ProjectStore_proofs ---------------------------
(***************************************************************************)
(* Proofs about ProjectStore, for any set of saves of any kind: what a      *)
(* migration brings is whole, redacted profiles have their credentials,     *)
(* no set of environments is lost, and an undisturbed store is consistent.  *)
(***************************************************************************)
EXTENDS ProjectStore, TLAPS

-----------------------------------------------------------------------------
(* Where a job of each kind can be. *)
Initialising == {"ensure", "directories", "initDocument", "initProfiles", "marker", "warm", "warmed"}
Closing == {"refresh", "refreshed", "done", "failed"}
Writing == {"document", "readForDocument", "overlayDocument"}
MovedIn == {"readForEnvironments", "overlayEnvironments", "dropBackup"}
Swapping == {"stage", "validate", "look", "moveAway", "moveIn"} \cup MovedIn

Place ==
  {"unborn", "promote", "ensure", "directories", "files", "lastFile", "initDocument",
   "initProfiles", "initOverlay", "marker", "stage", "validate", "look", "moveAway", "moveIn",
   "readForEnvironments", "overlayEnvironments", "dropBackup", "readDocument", "readSecrets",
   "document", "readForDocument", "overlayDocument", "profiles", "readCollections",
   "readExisting", "overlayCollections", "readTracked", "track", "warm", "warmed", "refresh",
   "refreshed", "rollback", "restore", "cleanUp", "done", "failed", "lost"}

Route(kind, pc) ==
  /\ kind = "migration" =>
       pc \in Initialising \cup {"unborn", "lost", "done", "failed", "promote", "files", "lastFile",
                               "initOverlay"}
  /\ kind = "metadata" =>
       pc \in Initialising \cup Closing \cup Writing \cup Swapping \cup Undoing \cup {"unborn", "lost"}
  /\ kind = "active" =>
       pc \in Initialising \cup Closing \cup Writing \cup {"unborn", "lost", "readDocument", "readSecrets"}
  /\ kind = "profiles" =>
       pc \in Initialising \cup Closing \cup {"unborn", "lost", "promote", "profiles"}
  /\ kind = "collection" =>
       pc \in {"unborn", "lost", "done", "failed",
               "readCollections", "readExisting", "overlayCollections", "readTracked", "track"}

Seen ==
  [environments : Content \cup {Half, Torn}, document : Content,
   workspaceSecrets : Content, environmentSecrets : Content] \cup {None}

JobRecord ==
  [kind : Kind, pc : Place, alone : BOOLEAN, held : BOOLEAN, again : BOOLEAN,
   variables : Content, secrets : Sensitive, seen : Seen]

Stored ==
  /\ disk \in Disk
  /\ backup \in [Save -> Directory]
  /\ staging \in [Save -> Directory]
  /\ secret \in BOOLEAN /\ intact \in BOOLEAN /\ spoiled \in BOOLEAN

Jobs ==
  /\ job \in [Job -> JobRecord]
  /\ \A j \in Job : Route(job[j].kind, job[j].pc)
  /\ job[Startup].kind = "migration" /\ ~job[Startup].again

Types == Stored /\ Jobs

-----------------------------------------------------------------------------
(* What a step of one job does to the jobs: it goes on to pc, and counts as  *)
(* alone only if it did before, and in an intact store if it did before.     *)
Moves(j, pc) ==
  /\ job' \in [Job -> JobRecord]
  /\ job'[j].pc = pc /\ job'[j].kind = job[j].kind
  /\ job'[j].alone => job[j].alone
  /\ job[j].alone /\ intact' => job'[j].alone \/ pc \in Over
  /\ job'[j].again => job[j].again \/ j # Startup
  /\ \A k \in Job : k # j => job'[k] = job[k]

LEMMA GotoMoves ==
  ASSUME Jobs, NEW j \in Job, NEW pc \in Place, Goto(j, pc)
  PROVE  Moves(j, pc) /\ job'[j].secrets = job[j].secrets /\ job'[j].variables = job[j].variables
         /\ job'[j].alone = job[j].alone
  <1> DEFINE gone == [job[j] EXCEPT !.pc = pc, !.seen = None]
  <1>1. job[j] \in JobRecord /\ None \in Seen
    BY DEF Jobs, Seen
  <1>2. /\ gone \in JobRecord /\ gone.pc = pc /\ gone.kind = job[j].kind /\ gone.alone = job[j].alone
        /\ gone.again = job[j].again /\ gone.secrets = job[j].secrets
        /\ gone.variables = job[j].variables
    BY <1>1 DEF JobRecord
  <1>3. job' = [job EXCEPT ![j] = gone]
    BY DEF Goto
  <1> HIDE DEF gone
  <1> QED
    BY <1>2, <1>3 DEF Jobs, Moves

(* A job that is over. *)
LEMMA LeftIsRecord ==
  ASSUME NEW kind \in Kind, NEW pc \in Place
  PROVE  LET left == [Fresh(kind) EXCEPT !.pc = pc]
         IN /\ left \in JobRecord /\ left.pc = pc /\ left.kind = kind /\ left.alone = FALSE
            /\ left.again = FALSE
  <1>1. NoSecrets \in Sensitive /\ Empty \in Content /\ None \in Seen /\ "unborn" \in Place
    BY DEF NoSecrets, Sensitive, Content, Seen, Place
  <1> QED
    BY <1>1 DEF Fresh, JobRecord

LEMMA EndMoves ==
  ASSUME Jobs, NEW j \in Job, NEW pc \in Over, End(j, pc)
  PROVE  Moves(j, pc)
  <1>1. job[j].kind \in Kind /\ pc \in Place
    BY DEF Jobs, JobRecord, Over, Place
  <1>2. /\ Left(j, pc) \in JobRecord /\ Left(j, pc).pc = pc /\ Left(j, pc).kind = job[j].kind
        /\ Left(j, pc).alone = FALSE /\ Left(j, pc).again = FALSE
    BY <1>1, LeftIsRecord DEF Left
  <1> QED
    BY <1>2 DEF Jobs, End, Moves

(* A step that goes on from one place to another, for a job of some kind.    *)
LEMMA MovesKeepJobs ==
  ASSUME Jobs, NEW j \in Job, NEW pc, Moves(j, pc), Route(job[j].kind, pc)
  PROVE  Jobs'
  BY DEF Jobs, Moves, Job

(* What is read is of the type of what is kept. *)
LEMMA ReadTypes ==
  ASSUME Stored
  PROVE  overlay \in Sensitive /\ document \in Content /\ Snapshot \in Seen /\ NoSecrets \in Sensitive
  <1>1. NoSecrets \in Sensitive
    BY DEF NoSecrets, Sensitive, Content
  <1>2. overlay \in Sensitive /\ document \in Content
    BY <1>1 DEF Stored, Disk, overlay, document, Content
  <1>3. Snapshot \in Seen
    BY <1>2 DEF Snapshot, Seen, Stored, Disk, Directory, Sensitive, Content
  <1> QED
    BY <1>1, <1>2, <1>3

(* The records the readers leave. *)
LEMMA SecretsKept ==
  ASSUME NEW r \in JobRecord, NEW pc \in Place, NEW alone \in BOOLEAN, NEW got \in Sensitive
  PROVE  LET next == [r EXCEPT !.secrets = got, !.pc = pc]
             over == [next EXCEPT !.alone = alone]
         IN /\ next \in JobRecord /\ next.kind = r.kind /\ next.alone = r.alone /\ next.pc = pc
            /\ next.again = r.again
            /\ over.secrets = got /\ over.variables = r.variables /\ over.alone = alone
  BY DEF JobRecord, Sensitive

LEMMA VariablesKept ==
  ASSUME NEW r \in JobRecord, NEW pc \in Place, NEW alone \in BOOLEAN, NEW got \in Content
  PROVE  LET next == [r EXCEPT !.variables = got, !.secrets = NoSecrets, !.pc = pc]
             over == [next EXCEPT !.alone = alone]
         IN /\ next \in JobRecord /\ next.kind = r.kind /\ next.alone = r.alone /\ next.pc = pc
            /\ next.again = r.again
            /\ over.variables = got /\ over.alone = alone /\ over.secrets = NoSecrets
  <1>1. NoSecrets \in Sensitive
    BY DEF NoSecrets, Sensitive, Content
  <1> QED
    BY <1>1 DEF JobRecord

LEMMA SnapshotKept ==
  ASSUME NEW r \in JobRecord, NEW pc \in Place, NEW alone \in BOOLEAN, NEW got \in Seen
  PROVE  LET next == [r EXCEPT !.seen = got, !.pc = pc]
             over == [next EXCEPT !.alone = alone]
         IN /\ next \in JobRecord /\ next.kind = r.kind /\ next.alone = r.alone /\ next.pc = pc
            /\ next.again = r.again
            /\ over.seen = got /\ over.alone = alone
  BY DEF JobRecord, Sensitive

LEMMA CollectionsKept ==
  ASSUME NEW r \in JobRecord, NEW pc \in Place, NEW alone \in BOOLEAN, NEW got \in SUBSET Save
  PROVE  LET next == [r EXCEPT !.secrets.collections = got, !.pc = pc]
             over == [next EXCEPT !.alone = alone]
         IN /\ next \in JobRecord /\ next.kind = r.kind /\ next.alone = r.alone /\ next.pc = pc
            /\ next.again = r.again
            /\ over.variables = r.variables /\ over.alone = alone
  BY DEF JobRecord, Sensitive

LEMMA ReadMoves ==
  ASSUME Jobs, NEW j \in Job, NEW ok \in BOOLEAN, NEW next \in JobRecord,
         Read(j, ok, next), next.kind = job[j].kind, next.alone = job[j].alone,
         next.again = job[j].again
  PROVE  /\ Moves(j, next.pc) /\ intact' = (intact /\ ok)
         /\ job'[j] = [next EXCEPT !.alone = job[j].alone /\ ok]
         /\ UNCHANGED <<disk, backup, staging, secret, cache, spoiled>>
  BY DEF Jobs, Read, Moves, JobRecord

-----------------------------------------------------------------------------
(* Each step takes its job one place further on the way of its kind.         *)
LEMMA InitialiseMoves ==
  ASSUME Jobs, NEW j \in Job
  PROVE  /\ Promote(j) => Moves(j, "ensure")
         /\ Ensure(j) => Moves(j, IF disk.marker THEN "warm" ELSE "directories")
         /\ Directories(j) => Moves(j, IF IsMigration(j) THEN "files" ELSE "initDocument")
         /\ FirstFile(j) => Moves(j, "lastFile")
         /\ LastFile(j) => Moves(j, "initDocument")
         /\ InitDocument(j) => Moves(j, "initProfiles")
         /\ InitProfiles(j) => Moves(j, IF IsMigration(j) THEN "initOverlay" ELSE "marker")
         /\ InitOverlay(j) => Moves(j, "marker")
         /\ Marker(j) => Moves(j, "warm")
  <1>1. /\ Promote(j) => Moves(j, "ensure")
        /\ Marker(j) => Moves(j, "warm")
    BY GotoMoves DEF Place, Promote, Marker
  <1>2. Ensure(j) => Moves(j, IF disk.marker THEN "warm" ELSE "directories")
    BY GotoMoves DEF Place, Ensure
  <1>3. Directories(j) => Moves(j, IF IsMigration(j) THEN "files" ELSE "initDocument")
    BY GotoMoves DEF Place, Directories
  <1>4. /\ FirstFile(j) => Moves(j, "lastFile")
        /\ LastFile(j) => Moves(j, "initDocument")
        /\ InitDocument(j) => Moves(j, "initProfiles")
        /\ InitOverlay(j) => Moves(j, "marker")
    BY GotoMoves DEF Place, FirstFile, LastFile, InitDocument, InitOverlay
  <1>5. InitProfiles(j) => Moves(j, IF IsMigration(j) THEN "initOverlay" ELSE "marker")
    BY GotoMoves DEF Place, InitProfiles
  <1> QED
    BY <1>1, <1>2, <1>3, <1>4, <1>5

LEMMA WriteMoves ==
  ASSUME Types, NEW s \in Save
  PROVE  /\ Stage(s) => Moves(s, "validate")
         /\ Validate(s) => Moves(s, "look")
         /\ Look(s) => Moves(s, IF disk.live # Absent THEN "moveAway" ELSE "moveIn")
         /\ MoveAway(s) => Moves(s, "moveIn")
         /\ MoveIn(s) => Moves(s, "readForEnvironments")
         /\ OverlayEnvironments(s) => Moves(s, IF job[s].held THEN "dropBackup" ELSE "document")
         /\ DropBackup(s) => Moves(s, "document")
         /\ Rollback(s) => Moves(s, IF disk.live = Absent /\ backup[s] # Absent
                                     THEN "restore" ELSE "cleanUp")
         /\ Restore(s) => Moves(s, "cleanUp")
         /\ CleanUp(s) => Moves(s, "failed")
         /\ WriteDocument(s) => Moves(s, "readForDocument")
         /\ OverlayDocument(s) => Moves(s, "refresh")
         /\ Profiles(s) => Moves(s, "refresh")
         /\ OverlayCollections(s) => Moves(s, "readTracked")
         /\ Track(s) => Moves(s, "done")
  <1>0. s \in Job
    BY DEF Job
  <1>1. Look(s) => Moves(s, IF disk.live # Absent THEN "moveAway" ELSE "moveIn")
    <2> SUFFICES ASSUME Look(s)
                 PROVE  Moves(s, IF disk.live # Absent THEN "moveAway" ELSE "moveIn")
      OBVIOUS
    <2> DEFINE held == disk.live # Absent
               pc == IF disk.live # Absent THEN "moveAway" ELSE "moveIn"
    <2>1. held \in BOOLEAN /\ pc \in Place
      BY DEF Place
    <2>2. job' = [job EXCEPT ![s].held = held, ![s].pc = pc]
      BY DEF Look
    <2> HIDE DEF held, pc
    <2>3. Moves(s, pc)
      BY <1>0, <2>1, <2>2 DEF Moves, Types, Jobs, JobRecord
    <2> QED
      BY <2>3 DEF pc
  <1>2. WriteDocument(s) => Moves(s, "readForDocument")
    <2> SUFFICES ASSUME WriteDocument(s)
                 PROVE  Moves(s, "readForDocument")
      OBVIOUS
    <2> DEFINE v == IF Kept(s) THEN job[s].secrets.workspace ELSE s
    <2>1. v \in Content /\ job[s] \in JobRecord
      BY <1>0 DEF Types, Jobs, JobRecord, Sensitive, Content
    <2>2. job' = [job EXCEPT ![s].variables = v, ![s].pc = "readForDocument"]
      BY DEF WriteDocument
    <2> HIDE DEF v
    <2> QED
      BY <1>0, <2>1, <2>2 DEF Place, Moves, Types, Jobs, JobRecord
  <1>3. /\ Stage(s) => Moves(s, "validate")
        /\ Validate(s) => Moves(s, "look")
        /\ MoveAway(s) => Moves(s, "moveIn")
        /\ MoveIn(s) => Moves(s, "readForEnvironments")
        /\ DropBackup(s) => Moves(s, "document")
    BY <1>0, GotoMoves DEF Place, Types, Stage, Validate, MoveAway, MoveIn, DropBackup
  <1>4. OverlayEnvironments(s) => Moves(s, IF job[s].held THEN "dropBackup" ELSE "document")
    BY <1>0, GotoMoves DEF Place, Types, OverlayEnvironments
  <1>5. Rollback(s) => Moves(s, IF disk.live = Absent /\ backup[s] # Absent
                                 THEN "restore" ELSE "cleanUp")
    BY <1>0, GotoMoves DEF Place, Types, Rollback
  <1>6. Restore(s) => Moves(s, "cleanUp")
    BY <1>0, GotoMoves DEF Place, Types, Restore
  <1>7. /\ OverlayDocument(s) => Moves(s, "refresh")
        /\ Profiles(s) => Moves(s, "refresh")
        /\ OverlayCollections(s) => Moves(s, "readTracked")
    BY <1>0, GotoMoves DEF Place, Types, OverlayDocument, Profiles, OverlayCollections
  <1>8. /\ CleanUp(s) => Moves(s, "failed")
        /\ Track(s) => Moves(s, "done")
    BY <1>0, EndMoves DEF Over, Types, CleanUp, Track
  <1> QED
    BY <1>1, <1>2, <1>3, <1>4, <1>5, <1>6, <1>7, <1>8

(* The steps that read, and what is kept of what they got. *)
LEMMA ReadersMove ==
  ASSUME Types, NEW s \in Save
  PROVE  /\ \A got \in {overlay, NoSecrets} : ReadOverlay(s, got) =>
              /\ Moves(s, IF At(s, "readForEnvironments") THEN "overlayEnvironments"
                          ELSE "overlayDocument")
              /\ job'[s].secrets = got /\ job'[s].variables = job[s].variables
              /\ job'[s].alone = (job[s].alone /\ got = overlay)
         /\ \A got \in {document, Empty} : ReadDocument(s, got) =>
              /\ Moves(s, IF got = Empty THEN "document" ELSE "readSecrets")
              /\ job'[s].variables = got /\ job'[s].alone = (job[s].alone /\ got = document)
              /\ job'[s].secrets = NoSecrets
         /\ \A got \in {overlay, NoSecrets} : ReadSecrets(s, got) =>
              /\ Moves(s, "document")
              /\ job'[s].secrets = got /\ job'[s].variables = job[s].variables
              /\ job'[s].alone = (job[s].alone /\ got = overlay)
         /\ \A got \in {overlay, NoSecrets} : ReadCollections(s, got) =>
              /\ Moves(s, "readExisting")
              /\ job'[s].alone = (job[s].alone /\ got = overlay)
         /\ \A got \in {overlay, NoSecrets} : ReadExisting(s, got) =>
              /\ Moves(s, "overlayCollections")
              /\ job'[s].secrets.workspace = got.workspace
              /\ job'[s].secrets.environments = got.environments
              /\ job'[s].alone = (job[s].alone /\ got = overlay)
         /\ \A ok \in BOOLEAN : ReadTracked(s, ok) => Moves(s, "track")
  <1>0. s \in Job /\ job[s] \in JobRecord /\ overlay \in Sensitive /\ NoSecrets \in Sensitive
        /\ document \in Content /\ Empty \in Content /\ Jobs
    BY ReadTypes DEF Job, Types, Jobs, Content
  <1>1. ASSUME NEW got \in {overlay, NoSecrets}, ReadOverlay(s, got)
        PROVE  /\ Moves(s, IF At(s, "readForEnvironments") THEN "overlayEnvironments"
                           ELSE "overlayDocument")
               /\ job'[s].secrets = got /\ job'[s].variables = job[s].variables
               /\ job'[s].alone = (job[s].alone /\ got = overlay)
    <2> DEFINE pc == IF job[s].pc = "readForEnvironments" THEN "overlayEnvironments"
                     ELSE "overlayDocument"
               ok == got = overlay
               next == [job[s] EXCEPT !.secrets = got, !.pc = pc]
               last == [next EXCEPT !.alone = job[s].alone /\ ok]
    <2>1. Read(s, ok, next) /\ pc \in Place /\ ok \in BOOLEAN
      BY <1>1 DEF Place, ReadOverlay
    <2>2. got \in Sensitive
      BY <1>0 DEF Sensitive
    <2> HIDE DEF pc, ok
    <2>3. /\ next \in JobRecord /\ next.kind = job[s].kind /\ next.alone = job[s].alone
          /\ next.pc = pc /\ next.again = job[s].again
      BY <1>0, <2>1, <2>2, SecretsKept DEF JobRecord
    <2>4. (job[s].alone /\ ok) \in BOOLEAN
      OBVIOUS
    <2>5. last.secrets = got /\ last.variables = job[s].variables /\ last.alone = (job[s].alone /\ ok)
      BY <1>0, <2>1, <2>2, <2>4, SecretsKept DEF JobRecord
    <2> HIDE DEF next
    <2>6. Moves(s, pc) /\ job'[s] = last
      BY <1>0, <2>1, <2>3, ReadMoves
    <2> HIDE DEF last
    <2> QED
      BY <2>5, <2>6 DEF pc, ok, At
  <1>2. ASSUME NEW got \in {document, Empty}, ReadDocument(s, got)
        PROVE  /\ Moves(s, IF got = Empty THEN "document" ELSE "readSecrets")
               /\ job'[s].variables = got
               /\ job'[s].alone = (job[s].alone /\ got = document)
               /\ job'[s].secrets = NoSecrets
    <2> DEFINE pc == IF got = Empty THEN "document" ELSE "readSecrets"
               ok == got = document
               next == [job[s] EXCEPT !.variables = got, !.secrets = NoSecrets, !.pc = pc]
               last == [next EXCEPT !.alone = job[s].alone /\ ok]
    <2>1. Read(s, ok, next) /\ pc \in Place /\ ok \in BOOLEAN
      BY <1>2 DEF Place, ReadDocument
    <2>2. got \in Content
      BY <1>0 DEF Sensitive
    <2> HIDE DEF pc, ok
    <2>3. /\ next \in JobRecord /\ next.kind = job[s].kind /\ next.alone = job[s].alone
          /\ next.pc = pc /\ next.again = job[s].again
      BY <1>0, <2>1, <2>2, VariablesKept DEF JobRecord
    <2>4. (job[s].alone /\ ok) \in BOOLEAN
      OBVIOUS
    <2>5. last.variables = got /\ last.alone = (job[s].alone /\ ok) /\ last.secrets = NoSecrets
      BY <1>0, <2>1, <2>2, <2>4, VariablesKept DEF JobRecord
    <2> HIDE DEF next
    <2>6. Moves(s, pc) /\ job'[s] = last
      BY <1>0, <2>1, <2>3, ReadMoves
    <2> HIDE DEF last
    <2> QED
      BY <2>5, <2>6 DEF pc, ok, At
  <1>3. ASSUME NEW got \in {overlay, NoSecrets}, ReadSecrets(s, got)
        PROVE  /\ Moves(s, "document")
               /\ job'[s].secrets = got /\ job'[s].variables = job[s].variables
               /\ job'[s].alone = (job[s].alone /\ got = overlay)
    <2> DEFINE pc == "document"
               ok == got = overlay
               next == [job[s] EXCEPT !.secrets = got, !.pc = pc]
               last == [next EXCEPT !.alone = job[s].alone /\ ok]
    <2>1. Read(s, ok, next) /\ pc \in Place /\ ok \in BOOLEAN
      BY <1>3 DEF Place, ReadSecrets
    <2>2. got \in Sensitive
      BY <1>0 DEF Sensitive
    <2> HIDE DEF pc, ok
    <2>3. /\ next \in JobRecord /\ next.kind = job[s].kind /\ next.alone = job[s].alone
          /\ next.pc = pc /\ next.again = job[s].again
      BY <1>0, <2>1, <2>2, SecretsKept DEF JobRecord
    <2>4. (job[s].alone /\ ok) \in BOOLEAN
      OBVIOUS
    <2>5. last.secrets = got /\ last.variables = job[s].variables /\ last.alone = (job[s].alone /\ ok)
      BY <1>0, <2>1, <2>2, <2>4, SecretsKept DEF JobRecord
    <2> HIDE DEF next
    <2>6. Moves(s, pc) /\ job'[s] = last
      BY <1>0, <2>1, <2>3, ReadMoves
    <2> HIDE DEF last
    <2> QED
      BY <2>5, <2>6 DEF pc, ok, At
  <1>4. ASSUME NEW got \in {overlay, NoSecrets}, ReadCollections(s, got)
        PROVE  /\ Moves(s, "readExisting")
               /\ job'[s].alone = (job[s].alone /\ got = overlay)
    <2>0. PICK entry \in {{}, {s}} :
            Read(s, got = overlay, [job[s] EXCEPT !.secrets.collections = got.collections \cup entry,
                                                  !.pc = "readExisting"])
      BY <1>4 DEF ReadCollections
    <2> DEFINE pc == "readExisting"
               ok == got = overlay
               next == [job[s] EXCEPT !.secrets.collections = got.collections \cup entry, !.pc = pc]
               last == [next EXCEPT !.alone = job[s].alone /\ ok]
    <2>1. Read(s, ok, next) /\ pc \in Place /\ ok \in BOOLEAN
      BY <1>4, <2>0 DEF Place
    <2>2. got.collections \cup entry \in SUBSET Save
      BY <1>0, <2>0 DEF Sensitive
    <2> HIDE DEF pc, ok
    <2>3. /\ next \in JobRecord /\ next.kind = job[s].kind /\ next.alone = job[s].alone
          /\ next.pc = pc /\ next.again = job[s].again
      BY <1>0, <2>1, <2>2, CollectionsKept DEF JobRecord
    <2>4. (job[s].alone /\ ok) \in BOOLEAN
      OBVIOUS
    <2>5. last.variables = job[s].variables /\ last.alone = (job[s].alone /\ ok)
      BY <1>0, <2>1, <2>2, <2>4, CollectionsKept DEF JobRecord
    <2> HIDE DEF next
    <2>6. Moves(s, pc) /\ job'[s] = last
      BY <1>0, <2>1, <2>3, ReadMoves
    <2> HIDE DEF last
    <2> QED
      BY <2>5, <2>6 DEF pc, ok, At
  <1>5. ASSUME NEW got \in {overlay, NoSecrets}, ReadExisting(s, got)
        PROVE  /\ Moves(s, "overlayCollections")
               /\ job'[s].secrets.workspace = got.workspace
               /\ job'[s].secrets.environments = got.environments
               /\ job'[s].alone = (job[s].alone /\ got = overlay)
    <2> DEFINE pc == "overlayCollections"
               ok == got = overlay
               w == got.workspace
               e == got.environments
               next == [job[s] EXCEPT !.secrets.workspace = w, !.secrets.environments = e, !.pc = pc]
               last == [next EXCEPT !.alone = job[s].alone /\ ok]
    <2>1. Read(s, ok, next) /\ pc \in Place /\ ok \in BOOLEAN
      BY <1>5 DEF Place, ReadExisting
    <2>2. w \in Content /\ e \in Content
      BY <1>0 DEF Sensitive
    <2> HIDE DEF pc, ok, w, e
    <2>3. /\ next \in JobRecord /\ next.kind = job[s].kind /\ next.alone = job[s].alone
          /\ next.pc = pc /\ next.again = job[s].again
      BY <1>0, <2>1, <2>2 DEF JobRecord, Sensitive
    <2>4. (job[s].alone /\ ok) \in BOOLEAN
      OBVIOUS
    <2>5. last.secrets.workspace = w /\ last.secrets.environments = e /\ last.alone = (job[s].alone /\ ok)
      BY <1>0, <2>1, <2>2, <2>4 DEF JobRecord, Sensitive
    <2> HIDE DEF next
    <2>6. Moves(s, pc) /\ job'[s] = last
      BY <1>0, <2>1, <2>3, ReadMoves
    <2> HIDE DEF last
    <2> QED
      BY <2>5, <2>6 DEF pc, ok, w, e, At
  <1>6. ASSUME NEW ok \in BOOLEAN, ReadTracked(s, ok)
        PROVE  Moves(s, "track")
    <2> DEFINE next == [job[s] EXCEPT !.pc = "track"]
    <2>1. Read(s, ok, next) /\ "track" \in Place
      BY <1>6 DEF Place, ReadTracked
    <2>2. /\ next \in JobRecord /\ next.kind = job[s].kind /\ next.alone = job[s].alone
          /\ next.pc = "track" /\ next.again = job[s].again
      BY <1>0, <2>1 DEF JobRecord
    <2> HIDE DEF next
    <2>3. Moves(s, next.pc)
      BY <1>0, <2>1, <2>2, ReadMoves
    <2> QED
      BY <2>2, <2>3
  <1> QED
    BY <1>1, <1>2, <1>3, <1>4, <1>5, <1>6

LEMMA ClosersMove ==
  ASSUME Types, NEW j \in Job
  PROVE  /\ \A got \in {Snapshot, None} : Refresh(j, got) =>
              /\ Moves(j, IF At(j, "warm") THEN "warmed" ELSE "refreshed") /\ job'[j].seen = got
              /\ job'[j].alone = (job[j].alone /\ got = Snapshot)
         /\ Warmed(j) => /\ Moves(j, AfterEnsure(j)) \/ (job[j].kind = "migration" /\ Moves(j, "ensure"))
                         /\ job[j].kind # "migration" => job'[j].secrets = job[j].secrets
         /\ Refreshed(j) => Moves(j, "done")
         /\ Fails(j) => Moves(j, IF job[j].pc \in Swap THEN "rollback" ELSE "failed")
  <1>0. job[j] \in JobRecord /\ Snapshot \in Seen /\ None \in Seen /\ Jobs
    BY ReadTypes DEF Types, Jobs, Seen
  <1>1. ASSUME NEW got \in {Snapshot, None}, Refresh(j, got)
        PROVE  /\ Moves(j, IF At(j, "warm") THEN "warmed" ELSE "refreshed") /\ job'[j].seen = got
               /\ job'[j].alone = (job[j].alone /\ got = Snapshot)
    <2> DEFINE ok == got = Snapshot
               pc == IF job[j].pc = "warm" THEN "warmed" ELSE "refreshed"
               next == [job[j] EXCEPT !.seen = got, !.pc = pc]
               last == [next EXCEPT !.alone = job[j].alone /\ ok]
    <2>1. Read(j, ok, next) /\ ok \in BOOLEAN /\ got \in Seen /\ pc \in Place
      BY <1>0, <1>1 DEF Refresh, Place
    <2> HIDE DEF ok, pc
    <2>2. /\ next \in JobRecord /\ next.kind = job[j].kind /\ next.alone = job[j].alone
          /\ next.pc = pc /\ next.again = job[j].again
      BY <1>0, <2>1, SnapshotKept DEF JobRecord
    <2>3. (job[j].alone /\ ok) \in BOOLEAN
      OBVIOUS
    <2>4. last.seen = got /\ last.alone = (job[j].alone /\ ok)
      BY <1>0, <2>1, <2>3, SnapshotKept DEF JobRecord
    <2> HIDE DEF next
    <2>5. Moves(j, pc) /\ job'[j] = last
      BY <1>0, <2>1, <2>2, ReadMoves
    <2> HIDE DEF last
    <2> QED
      BY <2>4, <2>5 DEF ok, pc, At
  <1>2. ASSUME Warmed(j)
        PROVE  /\ Moves(j, AfterEnsure(j)) \/ (job[j].kind = "migration" /\ Moves(j, "ensure"))
               /\ job[j].kind # "migration" => job'[j].secrets = job[j].secrets
    <2>0. job[j].kind \in {"metadata", "active", "profiles", "migration"}
      BY <1>0, <1>2 DEF Warmed, At, Jobs, JobRecord, Kind, Route
    <2>1. CASE AfterEnsure(j) = "done" /\ End(j, "done")
      <3>1. job[j].kind = "migration"
        BY <2>0, <2>1 DEF AfterEnsure
      <3> QED
        BY <1>0, <2>1, <3>1, EndMoves DEF Over
    <2>2. CASE AfterEnsure(j) # "done" /\ Goto(j, AfterEnsure(j))
      <3>1. AfterEnsure(j) \in Place
        BY <2>0, <2>2 DEF AfterEnsure, Place
      <3> QED
        BY <1>0, <2>2, <3>1, GotoMoves
    <2>3. CASE /\ IsMigration(j) /\ j # Startup
               /\ job' = [job EXCEPT ![j] = [@ EXCEPT !.again = TRUE, !.pc = "ensure", !.seen = None]]
      <3>1. job[j].kind = "migration"
        BY <2>3 DEF IsMigration
      <3> DEFINE next == [job[j] EXCEPT !.again = TRUE, !.pc = "ensure", !.seen = None]
      <3>2. /\ next \in JobRecord /\ next.pc = "ensure" /\ next.kind = job[j].kind
            /\ next.alone = job[j].alone
        BY <1>0 DEF JobRecord, Place
      <3>3. job' = [job EXCEPT ![j] = next]
        BY <2>3
      <3> HIDE DEF next
      <3>4. Moves(j, "ensure")
        BY <1>0, <2>3, <3>2, <3>3 DEF Moves, Jobs
      <3> QED
        BY <3>1, <3>4
    <2> QED
      BY <1>2, <2>1, <2>2, <2>3 DEF Warmed
  <1>3. Refreshed(j) => Moves(j, "done")
    BY <1>0, EndMoves DEF Over, Refreshed
  <1>4. Fails(j) => Moves(j, IF job[j].pc \in Swap THEN "rollback" ELSE "failed")
    BY <1>0, GotoMoves, EndMoves DEF Over, Place, Fails
  <1> QED
    BY <1>1, <1>2, <1>3, <1>4

(* A save that begins, and what a crash leaves of the jobs.                  *)
LEMMA StartMoves ==
  ASSUME Jobs, NEW s \in Save, Start(s)
  PROVE  /\ Jobs' /\ Startup \notin Active /\ job[s].pc = "unborn" /\ s \in Job /\ s # Startup
         /\ job[s].kind \in {"profiles", "migration"} => job'[s].pc = "promote"
         /\ job[s].kind = "collection" => job'[s].pc = "readCollections"
         /\ job[s].kind \in {"metadata", "active"} => job'[s].pc = "ensure"
         /\ job[s].kind \in Kind
         /\ job'[s].kind = job[s].kind /\ job'[s].alone = (Active = {})
         /\ \A k \in Job : k # s =>
              /\ job'[k].pc = job[k].pc /\ job'[k].kind = job[k].kind
              /\ ~job'[k].alone /\ job'[k].secrets = job[k].secrets
  <1> DEFINE pc == CASE job[s].kind \in {"profiles", "migration"} -> "promote"
                     [] job[s].kind = "collection" -> "readCollections"
                     [] OTHER -> "ensure"
             alone == Active = {}
             begun == [job[s] EXCEPT !.alone = alone, !.pc = pc]
  <1>1. /\ s \in Job /\ job[s] \in JobRecord /\ job[s].pc = "unborn" /\ s # Startup
        /\ Startup \notin Active
    BY ProjectStoreAssumption DEF Jobs, Job, Start, At
  <1>2. job[s].kind \in Kind
    BY <1>1 DEF JobRecord
  <1>3. /\ job[s].kind \in {"profiles", "migration"} => pc = "promote"
        /\ job[s].kind = "collection" => pc = "readCollections"
        /\ job[s].kind \in {"metadata", "active"} => pc = "ensure"
    OBVIOUS
  <1>4. pc \in Place /\ alone \in BOOLEAN /\ Route(job[s].kind, pc)
    BY <1>2, <1>3 DEF Place, Route, Kind, Initialising
  <1>5. job' = [j \in Job |-> IF j = s THEN begun ELSE [job[j] EXCEPT !.alone = FALSE]]
    BY DEF Start
  <1> HIDE DEF pc, alone
  <1>6. begun \in JobRecord /\ begun.pc = pc /\ begun.kind = job[s].kind /\ begun.alone = alone
    BY <1>1, <1>4 DEF JobRecord
  <1> HIDE DEF begun
  <1>7. ASSUME NEW k \in Job, k # s
        PROVE  /\ job'[k] \in JobRecord /\ job'[k].pc = job[k].pc /\ job'[k].kind = job[k].kind
               /\ ~job'[k].alone /\ job'[k].secrets = job[k].secrets /\ job'[k].again = job[k].again
    <2>1. job'[k] = [job[k] EXCEPT !.alone = FALSE] /\ job[k] \in JobRecord
      BY <1>5, <1>7 DEF Jobs
    <2> QED
      BY <2>1 DEF JobRecord
  <1>8. job'[s] = begun
    BY <1>1, <1>5
  <1>9. Jobs'
    <2>1. job' \in [Job -> JobRecord]
      BY <1>5, <1>6, <1>7, <1>8
    <2>2. ASSUME NEW k \in Job
          PROVE  Route(job'[k].kind, job'[k].pc)
      BY <1>4, <1>6, <1>7, <1>8 DEF Jobs
    <2>3. Startup \in Job
      BY DEF Job
    <2>4. job'[Startup].kind = "migration" /\ ~job'[Startup].again
      BY <1>1, <1>7, <2>3 DEF Jobs
    <2> QED
      BY <2>1, <2>2, <2>4 DEF Jobs
  <1> QED
    BY <1>1, <1>2, <1>3, <1>6, <1>7, <1>8, <1>9 DEF alone

LEMMA ActivationIsRecord ==
  /\ Activation \in JobRecord /\ Activation.pc = "promote" /\ Activation.kind = "migration"
  /\ ~Activation.again /\ Activation.secrets = NoSecrets
  <1>1. NoSecrets \in Sensitive
    BY DEF NoSecrets, Sensitive, Content
  <1> QED
    BY <1>1 DEF Activation, Fresh, JobRecord, Seen, Content, Place, Kind

LEMMA CrashMoves ==
  ASSUME Jobs, Crash
  PROVE  /\ Jobs' /\ job'[Startup].pc = "promote" /\ Startup \in Job
         /\ \A s \in Save : /\ job'[s].kind = job[s].kind /\ job'[s].pc \in Over
                            /\ job'[s].pc \in {job[s].pc, "lost"} /\ s \in Job
         /\ Active' = {Startup}
  <1>1. /\ Activation \in JobRecord /\ Activation.pc = "promote" /\ Activation.kind = "migration"
        /\ ~Activation.again
    BY ActivationIsRecord
  <1>2. job' = [j \in Job |->
          IF j = Startup THEN Activation ELSE IF j \in Active THEN Left(j, "lost") ELSE job[j]]
    BY DEF Crash
  <1>3. ASSUME NEW j \in Job, j # Startup
        PROVE  /\ job'[j] \in JobRecord /\ job'[j].kind = job[j].kind
               /\ job'[j].pc \in Over /\ job'[j].pc \in {job[j].pc, "lost"}
    <2>1. job[j] \in JobRecord
      BY DEF Jobs
    <2>2. CASE j \in Active
      <3>1. job'[j] = Left(j, "lost")
        BY <1>2, <1>3, <2>2
      <3>2. job[j].kind \in Kind /\ "lost" \in Place
        BY <2>1 DEF JobRecord, Place
      <3>3. Left(j, "lost") \in JobRecord /\ Left(j, "lost").pc = "lost" /\ Left(j, "lost").kind = job[j].kind
        BY <3>2, LeftIsRecord DEF Left
      <3> QED
        BY <3>1, <3>3 DEF Over
    <2>3. CASE j \notin Active
      BY <1>2, <1>3, <2>1, <2>3 DEF Active
    <2> QED
      BY <2>2, <2>3
  <1>4. Startup \in Job /\ job'[Startup] = Activation
    BY <1>2 DEF Job
  <1>5. Jobs'
    <2>1. job' \in [Job -> JobRecord]
      BY <1>1, <1>2, <1>3, <1>4
    <2>2. ASSUME NEW k \in Job
          PROVE  Route(job'[k].kind, job'[k].pc)
      <3>1. CASE k = Startup
        BY <1>1, <1>4, <3>1 DEF Route
      <3>2. CASE k # Startup
        <4>1. job[k].kind \in Kind
          BY <3>2 DEF Jobs, JobRecord
        <4> QED
          BY <1>3, <3>2, <4>1 DEF Jobs, Route, Kind
      <3> QED
        BY <3>1, <3>2
    <2> QED
      BY <1>1, <1>4, <2>1, <2>2 DEF Jobs
  <1>6. \A s \in Save : s \in Job /\ s # Startup
    BY ProjectStoreAssumption DEF Job
  <1>7. Active' = {Startup}
    BY <1>1, <1>3, <1>4 DEF Active, Over
  <1> QED
    BY <1>1, <1>3, <1>4, <1>5, <1>6, <1>7

-----------------------------------------------------------------------------
(* What is left of a write cut short: only its own document, and torn.       *)
LEMMA DamageIsPartial ==
  ASSUME disk \in Disk, NEW j \in Job, disk' \in Damaged(j)
  PROVE  /\ disk' \in Disk
         /\ disk'.marker # disk.marker => ~disk'.marker /\ job[j].pc = "marker"
         /\ disk'.live # disk.live => /\ job[j].pc \in {"files", "lastFile"}
                                      /\ disk'.live = IF Mixed(disk.live) THEN Torn ELSE Half
         /\ disk'.document # disk.document =>
              disk'.document = Torn /\ job[j].pc \in {"initDocument", "document"}
         /\ disk'.profiles # disk.profiles =>
              disk'.profiles = Torn /\ job[j].pc \in {"initProfiles", "profiles"}
         /\ disk'.overlay # disk.overlay =>
              disk'.overlay = Torn /\ job[j].pc \in {"initOverlay", "overlayEnvironments",
                                                     "overlayDocument", "overlayCollections"}
  <1>1. CASE job[j].pc \in {"initDocument", "document"}
    <2>1. disk' \in {disk, [disk EXCEPT !.document = Torn]}
      BY <1>1 DEF Damaged
    <2> QED
      BY <1>1, <2>1 DEF Disk
  <1>2. CASE job[j].pc \in {"initProfiles", "profiles"}
    <2>1. disk' \in {disk, [disk EXCEPT !.profiles = Torn]}
      BY <1>2 DEF Damaged
    <2> QED
      BY <1>2, <2>1 DEF Disk
  <1>3. CASE job[j].pc \in {"initOverlay", "overlayEnvironments", "overlayDocument",
                         "overlayCollections"}
    <2>1. disk' \in {disk, [disk EXCEPT !.overlay = Torn]}
      BY <1>3 DEF Damaged
    <2> QED
      BY <1>3, <2>1 DEF Disk
  <1>4. CASE job[j].pc \in {"files", "lastFile"}
    <2> DEFINE cut == IF Mixed(disk.live) THEN Torn ELSE Half
    <2>1. disk' \in {disk, [disk EXCEPT !.live = cut]}
      BY <1>4 DEF Damaged
    <2>2. cut \in Directory
      BY DEF Directory
    <2> HIDE DEF cut
    <2>3. /\ disk' \in Disk /\ disk'.live \in {disk.live, cut}
          /\ disk'.marker = disk.marker /\ disk'.document = disk.document
          /\ disk'.profiles = disk.profiles /\ disk'.overlay = disk.overlay
      BY <2>1, <2>2 DEF Disk
    <2> QED
      BY <1>4, <2>3 DEF cut
  <1>5. CASE job[j].pc = "marker"
    <2>1. disk' \in {disk, [disk EXCEPT !.marker = FALSE]}
      BY <1>5 DEF Damaged
    <2> QED
      BY <1>5, <2>1 DEF Disk
  <1>6. CASE job[j].pc \notin {"initDocument", "document", "initProfiles", "profiles", "initOverlay",
                            "overlayEnvironments", "overlayDocument", "overlayCollections",
                            "files", "lastFile", "marker"}
    <2>1. disk' = disk
      BY <1>6 DEF Damaged
    <2> QED
      BY <2>1
  <1> QED
    BY <1>1, <1>2, <1>3, <1>4, <1>5, <1>6

LEMMA InitialTypes ==
  ASSUME Init PROVE Types
  <1>1. NoSecrets \in Sensitive
    BY DEF NoSecrets, Sensitive, Content
  <1>2. Stored
    <2>1. [marker |-> FALSE, live |-> Absent, document |-> Absent, profiles |-> Absent,
           overlay |-> NoSecrets] \in Disk
      BY <1>1 DEF Disk, Directory
    <2>2. /\ [s \in Save |-> Absent] \in [Save -> Directory]
          /\ (job[Startup].pc = "promote") \in BOOLEAN
      BY DEF Directory
    <2> QED
      BY <2>1, <2>2 DEF Init, Stored
  <1>3. PICK kind \in [Save -> Kind],
             first \in {Activation, [Fresh("migration") EXCEPT !.pc = "done"]} :
          job = [j \in Job |-> IF j = Startup THEN first ELSE Fresh(kind[j])]
    BY DEF Init
  <1>4. /\ first \in JobRecord /\ first.pc \in {"promote", "done"} /\ first.kind = "migration"
        /\ ~first.again
    <2>1. "migration" \in Kind /\ "done" \in Place
      BY DEF Kind, Place
    <2>2. CASE first = Activation
      BY <2>2, ActivationIsRecord
    <2>3. CASE first = [Fresh("migration") EXCEPT !.pc = "done"]
      BY <2>1, <2>3, LeftIsRecord
    <2> QED
      BY <2>2, <2>3
  <1>5. ASSUME NEW k \in Kind
        PROVE  Fresh(k) \in JobRecord /\ Fresh(k).pc = "unborn" /\ Fresh(k).kind = k
    BY <1>1 DEF Fresh, JobRecord, Seen, Content, Place
  <1>6. ASSUME NEW j \in Job
        PROVE  job[j] \in JobRecord /\ Route(job[j].kind, job[j].pc)
    <2>1. CASE j = Startup
      <3>1. job[j] = first
        BY <1>3, <2>1
      <3> QED
        BY <1>4, <3>1 DEF Route
    <2>2. CASE j # Startup
      <3>1. j \in Save /\ kind[j] \in Kind /\ job[j] = Fresh(kind[j])
        BY <1>3, <2>2 DEF Job
      <3>2. job[j] \in JobRecord /\ job[j].pc = "unborn" /\ job[j].kind \in Kind
        BY <1>5, <3>1
      <3> QED
        BY <3>2 DEF Route, Kind
    <2> QED
      BY <2>1, <2>2
  <1>7. Jobs
    <2>1. Startup \in Job /\ job[Startup] = first
      BY <1>3 DEF Job
    <2> QED
      BY <1>3, <1>4, <1>6, <2>1 DEF Jobs
  <1> QED
    BY <1>2, <1>7 DEF Types

LEMMA InitialiseKeepsTypes ==
  ASSUME Types, NEW j \in Job, Initialise(j)
  PROVE  Types'
  <1>0. /\ Jobs /\ Stored /\ disk \in Disk /\ j \in Content /\ Empty \in Content
        /\ NoSecrets \in Sensitive
    BY ReadTypes DEF Types, Stored, Content
  <1>1. /\ job[j].kind \in Kind /\ Route(job[j].kind, job[j].pc)
        /\ IsMigration(j) => job[j].kind = "migration"
    BY <1>0 DEF Jobs, JobRecord, IsMigration
  <1>2. Jobs'
    <2>1. CASE Promote(j)
      <3>1. Route(job[j].kind, "ensure")
        BY <1>1, <2>1 DEF Promote, At, Route, Initialising, Kind
      <3> QED
        BY <1>0, <2>1, <3>1, InitialiseMoves, MovesKeepJobs
    <2>2. CASE Ensure(j)
      <3>1. Route(job[j].kind, IF disk.marker THEN "warm" ELSE "directories")
        BY <1>1, <2>2 DEF Ensure, At, Route, Initialising, Kind
      <3> QED
        BY <1>0, <2>2, <3>1, InitialiseMoves, MovesKeepJobs
    <2>3. CASE Directories(j)
      <3>1. Route(job[j].kind, IF IsMigration(j) THEN "files" ELSE "initDocument")
        BY <1>1, <2>3 DEF Directories, At, Route, Initialising, Kind
      <3> QED
        BY <1>0, <2>3, <3>1, InitialiseMoves, MovesKeepJobs
    <2>4. CASE FirstFile(j)
      <3>1. Route(job[j].kind, "lastFile")
        BY <1>1, <2>4 DEF FirstFile, At, Route, Initialising, Kind, Closing, Writing, Swapping,
                          Undoing, MovedIn
      <3> QED
        BY <1>0, <2>4, <3>1, InitialiseMoves, MovesKeepJobs
    <2>5. CASE LastFile(j)
      <3>1. Route(job[j].kind, "initDocument")
        BY <1>1, <2>5 DEF LastFile, At, Route, Initialising, Kind
      <3> QED
        BY <1>0, <2>5, <3>1, InitialiseMoves, MovesKeepJobs
    <2>6. CASE InitDocument(j)
      <3>1. Route(job[j].kind, "initProfiles")
        BY <1>1, <2>6 DEF InitDocument, At, Route, Initialising, Kind
      <3> QED
        BY <1>0, <2>6, <3>1, InitialiseMoves, MovesKeepJobs
    <2>7. CASE InitProfiles(j)
      <3>1. Route(job[j].kind, IF IsMigration(j) THEN "initOverlay" ELSE "marker")
        BY <1>1, <2>7 DEF InitProfiles, At, Route, Initialising, Kind
      <3> QED
        BY <1>0, <2>7, <3>1, InitialiseMoves, MovesKeepJobs
    <2>8. CASE InitOverlay(j)
      <3>1. Route(job[j].kind, "marker")
        BY <1>1, <2>8 DEF InitOverlay, At, Route, Initialising, Kind
      <3> QED
        BY <1>0, <2>8, <3>1, InitialiseMoves, MovesKeepJobs
    <2>9. CASE Marker(j)
      <3>1. Route(job[j].kind, "warm")
        BY <1>1, <2>9 DEF Marker, At, Route, Initialising, Kind
      <3> QED
        BY <1>0, <2>9, <3>1, InitialiseMoves, MovesKeepJobs
    <2> QED
      BY <2>1, <2>2, <2>3, <2>4, <2>5, <2>6, <2>7, <2>8, <2>9 DEF Initialise
  <1>3. Stored'
    <2>1. CASE Promote(j) \/ Ensure(j)
      BY <1>0, <2>1 DEF Promote, Ensure, KeepDisk, Stored
    <2>2. CASE Directories(j) \/ FirstFile(j) \/ LastFile(j)
      <3>1. /\ (IF disk.live = Absent THEN Empty ELSE disk.live) \in Directory
            /\ {Torn, Half, Startup} \subseteq Directory
        BY <1>0 DEF Disk, Directory, Content, Job
      <3>2. PICK live \in Directory : disk' = [disk EXCEPT !.live = live]
        <4>1. CASE Directories(j)
          BY <3>1, <4>1 DEF Directories
        <4>2. CASE FirstFile(j)
          BY <3>1, <4>2 DEF FirstFile
        <4>3. CASE LastFile(j)
          BY <3>1, <4>3 DEF LastFile
        <4> QED
          BY <2>2, <4>1, <4>2, <4>3
      <3>3. disk' \in Disk
        BY <1>0, <3>2 DEF Disk
      <3>4. spoiled' \in BOOLEAN
        BY <1>0, <2>2 DEF Directories, FirstFile, LastFile, Keep, Files, Spoils, Stored
      <3> QED
        BY <1>0, <2>2, <3>3, <3>4 DEF Directories, FirstFile, LastFile, Keep, Files, Stored
    <2>3. CASE InitDocument(j) \/ InitProfiles(j) \/ Marker(j)
      <3>1. Brought(j) \in Content
        BY <1>0 DEF Brought, Content, Job
      <3> QED
        BY <1>0, <2>3, <3>1 DEF InitDocument, InitProfiles, Marker, Keep, Stored, Disk
    <2>4. CASE InitOverlay(j)
      <3>1. [NoSecrets EXCEPT !.workspace = Startup, !.environments = Startup] \in Sensitive
        BY <1>0 DEF Sensitive, Content, Job
      <3> QED
        BY <1>0, <2>4, <3>1 DEF InitOverlay, Keep, Stored, Disk
    <2> QED
      BY <2>1, <2>2, <2>3, <2>4 DEF Initialise
  <1> QED
    BY <1>2, <1>3 DEF Types

LEMMA WriteKeepsTypes ==
  ASSUME Types, NEW s \in Save, WriteEnvironments(s) \/ WriteOthers(s)
  PROVE  Types'
  <1>0. /\ Jobs /\ Stored /\ disk \in Disk /\ s \in Content /\ s \in Job /\ Empty \in Content
        /\ NoSecrets \in Sensitive /\ job[s] \in JobRecord
    BY ReadTypes DEF Types, Stored, Content, Job, Jobs
  <1>1. job[s].kind \in Kind /\ Route(job[s].kind, job[s].pc)
    BY <1>0, ProjectStoreAssumption DEF Jobs, JobRecord
  <1>2. ASSUME \E got \in {overlay, NoSecrets} : ReadOverlay(s, got) PROVE Types'
    <2>1. PICK got \in {overlay, NoSecrets} : ReadOverlay(s, got)
      BY <1>2
    <2>2. Moves(s, IF At(s, "readForEnvironments") THEN "overlayEnvironments" ELSE "overlayDocument")
      BY <2>1, ReadersMove
    <2>3. Route(job[s].kind, IF At(s, "readForEnvironments") THEN "overlayEnvironments"
                             ELSE "overlayDocument")
      BY <1>1, <2>1 DEF ReadOverlay, At, Route, Kind, Initialising, Closing, Writing, Swapping,
                        MovedIn, Undoing
    <2>4. Jobs'
      BY <1>0, <2>2, <2>3, MovesKeepJobs
    <2>5. UNCHANGED <<disk, backup, staging, secret, spoiled>> /\ intact' \in BOOLEAN
      BY <1>0, <2>1 DEF ReadOverlay, Read, Stored
    <2> QED
      BY <1>0, <2>4, <2>5 DEF Types, Stored
  <1>3. ASSUME WriteOthers(s), \E got \in {document, Empty} : ReadDocument(s, got) PROVE Types'
    <2>1. PICK got \in {document, Empty} : ReadDocument(s, got)
      BY <1>3
    <2>2. Moves(s, IF got = Empty THEN "document" ELSE "readSecrets")
      BY <2>1, ReadersMove
    <2>3. Route(job[s].kind, IF got = Empty THEN "document" ELSE "readSecrets")
      BY <1>1, <2>1 DEF ReadDocument, At, Route, Kind, Initialising, Closing, Writing, Swapping,
                        MovedIn, Undoing
    <2>4. Jobs'
      BY <1>0, <2>2, <2>3, MovesKeepJobs
    <2>5. UNCHANGED <<disk, backup, staging, secret, spoiled>> /\ intact' \in BOOLEAN
      BY <1>0, <2>1 DEF ReadDocument, Read, Stored
    <2> QED
      BY <1>0, <2>4, <2>5 DEF Types, Stored
  <1>4. ASSUME NEW got \in {overlay, NoSecrets},
               ReadSecrets(s, got) \/ ReadCollections(s, got) \/ ReadExisting(s, got)
        PROVE  Types'
    <2>1. PICK pc \in {"document", "readExisting", "overlayCollections"} :
            Moves(s, pc) /\ Route(job[s].kind, pc)
      <3>1. ReadSecrets(s, got) => Moves(s, "document") /\ Route(job[s].kind, "document")
        BY <1>1, ReadersMove DEF ReadSecrets, At, Route, Kind, Initialising, Closing, Writing,
                                 Swapping, MovedIn, Undoing
      <3>2. ReadCollections(s, got) =>
              Moves(s, "readExisting") /\ Route(job[s].kind, "readExisting")
        BY <1>1, ReadersMove DEF ReadCollections, At, Route, Kind, Initialising, Closing, Writing,
                                 Swapping, MovedIn, Undoing
      <3>3. ReadExisting(s, got) =>
              Moves(s, "overlayCollections") /\ Route(job[s].kind, "overlayCollections")
        BY <1>1, ReadersMove DEF ReadExisting, At, Route, Kind, Initialising, Closing, Writing,
                                 Swapping, MovedIn, Undoing
      <3> QED
        BY <1>4, <3>1, <3>2, <3>3
    <2>2. Jobs'
      BY <1>0, <2>1, MovesKeepJobs
    <2>3. UNCHANGED <<disk, backup, staging, secret, spoiled>> /\ intact' \in BOOLEAN
      BY <1>0, <1>4 DEF ReadSecrets, ReadCollections, ReadExisting, Read, Stored
    <2> QED
      BY <1>0, <2>2, <2>3 DEF Types, Stored
  <1>8. ASSUME NEW ok \in BOOLEAN, ReadTracked(s, ok) PROVE Types'
    <2>1. Moves(s, "track") /\ Route(job[s].kind, "track")
      BY <1>1, <1>8, ReadersMove DEF ReadTracked, At, Route, Kind, Initialising, Closing, Writing,
                                     Swapping, MovedIn, Undoing
    <2>2. Jobs'
      BY <1>0, <2>1, MovesKeepJobs
    <2>3. UNCHANGED <<disk, backup, staging, secret, spoiled>> /\ intact' \in BOOLEAN
      BY <1>0, <1>8 DEF ReadTracked, Read, Stored
    <2> QED
      BY <1>0, <2>2, <2>3 DEF Types, Stored
  <1> DEFINE Writes ==
        \/ Stage(s) \/ Validate(s) \/ Look(s) \/ MoveAway(s) \/ MoveIn(s) \/ OverlayEnvironments(s)
        \/ DropBackup(s) \/ Rollback(s) \/ Restore(s) \/ CleanUp(s) \/ WriteDocument(s)
        \/ OverlayDocument(s) \/ Profiles(s) \/ OverlayCollections(s) \/ Track(s)
  <1>5. ASSUME Writes PROVE Jobs'
    <2>1. CASE Stage(s)
      <3>1. Route(job[s].kind, "validate")
        BY <1>1, <2>1 DEF Stage, At, Route, Kind, Initialising, Closing, Writing, Swapping, MovedIn,
                          Undoing
      <3> QED
        BY <1>0, <2>1, <3>1, WriteMoves, MovesKeepJobs
    <2>2. CASE Validate(s)
      <3>1. Route(job[s].kind, "look")
        BY <1>1, <2>2 DEF Validate, At, Route, Kind, Initialising, Closing, Writing, Swapping, MovedIn,
                          Undoing
      <3> QED
        BY <1>0, <2>2, <3>1, WriteMoves, MovesKeepJobs
    <2>3. CASE Look(s)
      <3>1. Route(job[s].kind, IF disk.live # Absent THEN "moveAway" ELSE "moveIn")
        BY <1>1, <2>3 DEF Look, At, Route, Kind, Initialising, Closing, Writing, Swapping, MovedIn,
                          Undoing
      <3> QED
        BY <1>0, <2>3, <3>1, WriteMoves, MovesKeepJobs
    <2>4. CASE MoveAway(s)
      <3>1. Route(job[s].kind, "moveIn")
        BY <1>1, <2>4 DEF MoveAway, At, Route, Kind, Initialising, Closing, Writing, Swapping, MovedIn,
                          Undoing
      <3> QED
        BY <1>0, <2>4, <3>1, WriteMoves, MovesKeepJobs
    <2>5. CASE MoveIn(s)
      <3>1. Route(job[s].kind, "readForEnvironments")
        BY <1>1, <2>5 DEF MoveIn, At, Route, Kind, Initialising, Closing, Writing, Swapping, MovedIn,
                          Undoing
      <3> QED
        BY <1>0, <2>5, <3>1, WriteMoves, MovesKeepJobs
    <2>6. CASE OverlayEnvironments(s)
      <3>1. Route(job[s].kind, IF job[s].held THEN "dropBackup" ELSE "document")
        BY <1>1, <2>6 DEF OverlayEnvironments, At, Route, Kind, Initialising, Closing, Writing, Swapping, MovedIn,
                          Undoing
      <3> QED
        BY <1>0, <2>6, <3>1, WriteMoves, MovesKeepJobs
    <2>7. CASE DropBackup(s)
      <3>1. Route(job[s].kind, "document")
        BY <1>1, <2>7 DEF DropBackup, At, Route, Kind, Initialising, Closing, Writing, Swapping, MovedIn,
                          Undoing
      <3> QED
        BY <1>0, <2>7, <3>1, WriteMoves, MovesKeepJobs
    <2>8. CASE Rollback(s)
      <3>1. Route(job[s].kind, IF disk.live = Absent /\ backup[s] # Absent THEN "restore" ELSE "cleanUp")
        BY <1>1, <2>8 DEF Rollback, At, Route, Kind, Initialising, Closing, Writing, Swapping, MovedIn,
                          Undoing
      <3> QED
        BY <1>0, <2>8, <3>1, WriteMoves, MovesKeepJobs
    <2>9. CASE Restore(s)
      <3>1. Route(job[s].kind, "cleanUp")
        BY <1>1, <2>9 DEF Restore, At, Route, Kind, Initialising, Closing, Writing, Swapping, MovedIn,
                          Undoing
      <3> QED
        BY <1>0, <2>9, <3>1, WriteMoves, MovesKeepJobs
    <2>10. CASE CleanUp(s)
      <3>1. Route(job[s].kind, "failed")
        BY <1>1, <2>10 DEF CleanUp, At, Route, Kind, Initialising, Closing, Writing, Swapping, MovedIn,
                          Undoing
      <3> QED
        BY <1>0, <2>10, <3>1, WriteMoves, MovesKeepJobs
    <2>11. CASE WriteDocument(s)
      <3>1. Route(job[s].kind, "readForDocument")
        BY <1>1, <2>11 DEF WriteDocument, At, Route, Kind, Initialising, Closing, Writing, Swapping, MovedIn,
                          Undoing
      <3> QED
        BY <1>0, <2>11, <3>1, WriteMoves, MovesKeepJobs
    <2>12. CASE OverlayDocument(s)
      <3>1. Route(job[s].kind, "refresh")
        BY <1>1, <2>12 DEF OverlayDocument, At, Route, Kind, Initialising, Closing, Writing, Swapping, MovedIn,
                          Undoing
      <3> QED
        BY <1>0, <2>12, <3>1, WriteMoves, MovesKeepJobs
    <2>13. CASE Profiles(s)
      <3>1. Route(job[s].kind, "refresh")
        BY <1>1, <2>13 DEF Profiles, At, Route, Kind, Initialising, Closing, Writing, Swapping, MovedIn,
                          Undoing
      <3> QED
        BY <1>0, <2>13, <3>1, WriteMoves, MovesKeepJobs
    <2>14. CASE OverlayCollections(s)
      <3>1. Route(job[s].kind, "readTracked")
        BY <1>1, <2>14 DEF OverlayCollections, At, Route, Kind, Initialising, Closing, Writing, Swapping, MovedIn,
                          Undoing
      <3> QED
        BY <1>0, <2>14, <3>1, WriteMoves, MovesKeepJobs
    <2>15. CASE Track(s)
      <3>1. Route(job[s].kind, "done")
        BY <1>1, <2>15 DEF Track, At, Route, Kind, Initialising, Closing, Writing, Swapping, MovedIn,
                          Undoing
      <3> QED
        BY <1>0, <2>15, <3>1, WriteMoves, MovesKeepJobs
    <2> QED
      BY <1>5, <2>1, <2>2, <2>3, <2>4, <2>5, <2>6, <2>7, <2>8, <2>9, <2>10, <2>11, <2>12, <2>13, <2>14, <2>15
  <1>6. ASSUME Writes PROVE Stored'
    <2>1. CASE Stage(s) \/ Validate(s)
      <3>1. s \in Directory /\ Torn \in Directory
        BY <1>0 DEF Directory
      <3> QED
        BY <1>0, <2>1, <3>1 DEF Stage, Validate, Stored
    <2>2. CASE Look(s) \/ Rollback(s)
      BY <1>0, <2>2 DEF Look, Rollback, KeepDisk, Stored
    <2>3. CASE MoveAway(s) \/ MoveIn(s) \/ DropBackup(s)
      <3>1. Absent \in Directory /\ disk.live \in Directory /\ staging[s] \in Directory
        BY <1>0 DEF Directory, Disk, Stored
      <3> QED
        BY <1>0, <2>3, <3>1 DEF MoveAway, MoveIn, DropBackup, Stored, Disk
    <2>4. CASE OverlayEnvironments(s)
      <3>1. [NoSecrets EXCEPT !.workspace = job[s].secrets.workspace, !.environments = s] \in Sensitive
        BY <1>0 DEF Sensitive, JobRecord
      <3> QED
        BY <1>0, <2>4, <3>1 DEF OverlayEnvironments, Keep, Stored, Disk
    <2>5. CASE Restore(s)
      <3>1. Absent \in Directory /\ backup[s] \in Directory
        BY <1>0 DEF Directory, Stored
      <3> QED
        BY <1>0, <2>5, <3>1 DEF Restore, Stored, Disk
    <2>6. CASE CleanUp(s)
      <3>1. Absent \in Directory
        BY DEF Directory
      <3> QED
        BY <1>0, <2>6, <3>1 DEF CleanUp, Stored
    <2>7. CASE WriteDocument(s)
      <3>1. (IF Kept(s) THEN job[s].variables ELSE s) \in Content
        BY <1>0 DEF JobRecord
      <3> QED
        BY <1>0, <2>7, <3>1 DEF WriteDocument, Keep, Stored, Disk
    <2>8. CASE OverlayDocument(s)
      <3>1. [NoSecrets EXCEPT !.workspace = job[s].variables,
                              !.environments = job[s].secrets.environments] \in Sensitive
        BY <1>0 DEF Sensitive, JobRecord
      <3> QED
        BY <1>0, <2>8, <3>1 DEF OverlayDocument, Keep, Stored, Disk
    <2>9. CASE Profiles(s)
      BY <1>0, <2>9 DEF Profiles, Keep, Stored, Disk
    <2>10. CASE OverlayCollections(s)
      <3>1. job[s].secrets \in Sensitive
        BY <1>0 DEF JobRecord
      <3> QED
        BY <1>0, <2>10, <3>1 DEF OverlayCollections, Keep, Stored, Disk
    <2>11. CASE Track(s)
      BY <1>0, <2>11 DEF Track, KeepDisk, Stored
    <2> QED
      BY <1>6, <2>1, <2>2, <2>3, <2>4, <2>5, <2>6, <2>7, <2>8, <2>9, <2>10, <2>11
  <1>7. Writes \/ (\E got \in {overlay, NoSecrets} : ReadOverlay(s, got))
        \/ (WriteOthers(s) /\ \E got \in {document, Empty} : ReadDocument(s, got))
        \/ \E got \in {overlay, NoSecrets} :
             ReadSecrets(s, got) \/ ReadCollections(s, got) \/ ReadExisting(s, got)
        \/ \E ok \in BOOLEAN : ReadTracked(s, ok)
    BY DEF WriteEnvironments, WriteOthers
  <1> HIDE DEF Writes
  <1> QED
    BY <1>2, <1>3, <1>4, <1>5, <1>6, <1>7, <1>8 DEF Types

LEMMA TypesPreserved ==
  ASSUME Types, Next
  PROVE  Types'
  <1>0. Jobs /\ Stored /\ disk \in Disk
    BY DEF Types, Stored
  <1>1. ASSUME NEW s \in Save, Start(s) PROVE Types'
    BY <1>0, <1>1, StartMoves DEF Start, Stored, Types
  <1>2. ASSUME NEW j \in Job,
               Refreshed(j) \/ Warmed(j) \/ \E got \in {Snapshot, None} : Refresh(j, got)
        PROVE  Types'
    <2>0. job[j].kind \in Kind /\ Route(job[j].kind, job[j].pc)
      BY <1>0 DEF Jobs, JobRecord
    <2>1. Jobs'
      <3>1. CASE Refreshed(j)
        <4>1. Moves(j, "done")
          BY <3>1, ClosersMove
        <4>2. Route(job[j].kind, "done")
          BY <2>0, <3>1 DEF Refreshed, At, Route, Kind, Initialising, Closing, Writing, Swapping,
                            MovedIn, Undoing
        <4> QED
          BY <1>0, <4>1, <4>2, MovesKeepJobs
      <3>2. CASE Warmed(j)
        <4>1. CASE job[j].kind = "migration" /\ Moves(j, "ensure")
          <5>1. Route(job[j].kind, "ensure")
            BY <4>1 DEF Route, Initialising
          <5> QED
            BY <1>0, <4>1, <5>1, MovesKeepJobs
        <4>2. CASE Moves(j, AfterEnsure(j))
          <5>1. Route(job[j].kind, AfterEnsure(j))
            BY <2>0, <3>2 DEF Warmed, At, AfterEnsure, Route, Kind, Initialising, Closing, Swapping
          <5> QED
            BY <1>0, <4>2, <5>1, MovesKeepJobs
        <4> QED
          BY <3>2, <4>1, <4>2, ClosersMove
      <3>3. ASSUME NEW got \in {Snapshot, None}, Refresh(j, got)
            PROVE  Jobs'
        <4>1. Moves(j, IF At(j, "warm") THEN "warmed" ELSE "refreshed")
          BY <3>3, ClosersMove
        <4>2. Route(job[j].kind, IF At(j, "warm") THEN "warmed" ELSE "refreshed")
          BY <2>0, <3>3 DEF Refresh, At, Route, Kind, Initialising, Closing, Writing, Swapping,
                            MovedIn, Undoing
        <4> QED
          BY <1>0, <4>1, <4>2, MovesKeepJobs
      <3> QED
        BY <1>2, <3>1, <3>2, <3>3
    <2>2. intact' \in BOOLEAN /\ UNCHANGED <<disk, backup, staging, secret, spoiled>>
      BY <1>0, <1>2 DEF Refreshed, Warmed, Refresh, Read, Stored
    <2> QED
      BY <1>0, <2>1, <2>2 DEF Types, Stored
  <1>3. ASSUME NEW j \in Job, Fails(j) PROVE Types'
    <2>1. Moves(j, IF job[j].pc \in Swap THEN "rollback" ELSE "failed")
      BY <1>3, ClosersMove
    <2>2. Route(job[j].kind, IF job[j].pc \in Swap THEN "rollback" ELSE "failed")
      BY <1>0 DEF Jobs, JobRecord, Swap, Route, Kind, Initialising, Closing, Writing, Swapping,
                  MovedIn, Undoing
    <2>3. Jobs'
      BY <1>0, <2>1, <2>2, MovesKeepJobs
    <2>4. disk' \in Disk
      BY <1>0, <1>3, DamageIsPartial DEF Fails
    <2>5. backup' \in [Save -> Directory] /\ intact' \in BOOLEAN /\ spoiled' \in BOOLEAN
      <3>1. Torn \in Directory
        BY DEF Directory
      <3> QED
        BY <1>0, <1>3, <3>1 DEF Fails, Spoils, Stored
    <2>6. UNCHANGED <<staging, secret>>
      BY <1>3 DEF Fails
    <2> QED
      BY <1>0, <2>3, <2>4, <2>5, <2>6 DEF Types, Stored
  <1>4. ASSUME Crash PROVE Types'
    <2>1. Jobs'
      BY <1>0, <1>4, CrashMoves
    <2>2. disk' \in Disk
      BY <1>0, <1>4, DamageIsPartial DEF Crash, Active
    <2>3. UNCHANGED <<backup, staging, secret>> /\ intact' \in BOOLEAN /\ spoiled' \in BOOLEAN
      BY <1>0, <1>4 DEF Crash, Spoils, Stored
    <2> QED
      BY <1>0, <2>1, <2>2, <2>3 DEF Types, Stored
  <1> QED
    BY <1>1, <1>2, <1>3, <1>4, InitialiseKeepsTypes, WriteKeepsTypes DEF Next

-----------------------------------------------------------------------------
(* Every step is the start of a save, a crash, or a step of one job that is  *)
(* on its way; the others are left where they are.                           *)
JobStep(j) ==
  \/ Initialise(j) \/ Warmed(j) \/ Refreshed(j) \/ Fails(j)
  \/ \E got \in {Snapshot, None} : Refresh(j, got)
  \/ j \in Save /\ (WriteEnvironments(j) \/ WriteOthers(j))

Frame(j) ==
  /\ j \in Active /\ \E pc \in Place \ {"unborn"} : Moves(j, pc)
  /\ disk.marker /\ ~disk'.marker => spoiled' /\ Fails(j)
  /\ spoiled => spoiled'
  /\ secret => secret'
  /\ \A k \in Save : k # j => staging'[k] = staging[k] /\ backup'[k] = backup[k]
  /\ intact' => intact \/ Refreshed(j)

LEMMA InitialiseFrame ==
  ASSUME Types, NEW j \in Job, Initialise(j)
  PROVE  Frame(j) /\ UNCHANGED <<staging, backup, cache, intact>>
  <1>0. Jobs /\ disk \in Disk /\ secret \in BOOLEAN /\ spoiled \in BOOLEAN
    BY DEF Types, Stored
  <1>1. j \in Active /\ \E pc \in Place \ {"unborn"} : Moves(j, pc)
    <2>1. CASE Promote(j)
      <3>1. Moves(j, "ensure")
        BY <1>0, <2>1, InitialiseMoves
      <3> QED
        BY <2>1, <3>1 DEF Promote, At, Active, Over, Place
    <2>2. CASE Ensure(j)
      <3>1. Moves(j, IF disk.marker THEN "warm" ELSE "directories")
        BY <1>0, <2>2, InitialiseMoves
      <3> QED
        BY <2>2, <3>1 DEF Ensure, At, Active, Over, Place
    <2>3. CASE Directories(j)
      <3>1. Moves(j, IF IsMigration(j) THEN "files" ELSE "initDocument")
        BY <1>0, <2>3, InitialiseMoves
      <3> QED
        BY <2>3, <3>1 DEF Directories, At, Active, Over, Place
    <2>4. CASE FirstFile(j)
      <3>1. Moves(j, "lastFile")
        BY <1>0, <2>4, InitialiseMoves
      <3> QED
        BY <2>4, <3>1 DEF FirstFile, At, Active, Over, Place
    <2>5. CASE LastFile(j)
      <3>1. Moves(j, "initDocument")
        BY <1>0, <2>5, InitialiseMoves
      <3> QED
        BY <2>5, <3>1 DEF LastFile, At, Active, Over, Place
    <2>6. CASE InitDocument(j)
      <3>1. Moves(j, "initProfiles")
        BY <1>0, <2>6, InitialiseMoves
      <3> QED
        BY <2>6, <3>1 DEF InitDocument, At, Active, Over, Place
    <2>7. CASE InitProfiles(j)
      <3>1. Moves(j, IF IsMigration(j) THEN "initOverlay" ELSE "marker")
        BY <1>0, <2>7, InitialiseMoves
      <3> QED
        BY <2>7, <3>1 DEF InitProfiles, At, Active, Over, Place
    <2>8. CASE InitOverlay(j)
      <3>1. Moves(j, "marker")
        BY <1>0, <2>8, InitialiseMoves
      <3> QED
        BY <2>8, <3>1 DEF InitOverlay, At, Active, Over, Place
    <2>9. CASE Marker(j)
      <3>1. Moves(j, "warm")
        BY <1>0, <2>9, InitialiseMoves
      <3> QED
        BY <2>9, <3>1 DEF Marker, At, Active, Over, Place
    <2> QED
      BY <2>1, <2>2, <2>3, <2>4, <2>5, <2>6, <2>7, <2>8, <2>9 DEF Initialise
  <1>2. UNCHANGED <<staging, backup, cache, intact>>
    BY DEF Initialise, Promote, Ensure, Directories, FirstFile, LastFile, InitDocument, InitProfiles,
           InitOverlay, Marker, Keep, KeepDisk, Files
  <1>3. disk.marker => disk'.marker
    BY <1>0 DEF Initialise, Promote, Ensure, Directories, FirstFile, LastFile, InitDocument,
                InitProfiles, InitOverlay, Marker, KeepDisk, Disk
  <1>4. (secret => secret') /\ (spoiled => spoiled')
    BY <1>0 DEF Initialise, Promote, Ensure, Directories, FirstFile, LastFile, InitDocument,
                InitProfiles, InitOverlay, Marker, Keep, KeepDisk, Files
  <1> QED
    BY <1>1, <1>2, <1>3, <1>4 DEF Frame

LEMMA WriteFrame ==
  ASSUME Types, NEW s \in Save, WriteEnvironments(s) \/ WriteOthers(s)
  PROVE  Frame(s) /\ UNCHANGED <<secret, cache, spoiled>> /\ disk'.marker = disk.marker
  <1>0. Jobs /\ disk \in Disk /\ s \in Job
        /\ staging \in [Save -> Directory] /\ backup \in [Save -> Directory]
    BY DEF Types, Stored, Job
  <1>1. ASSUME NEW got, ReadOverlay(s, got), got \in {overlay, NoSecrets} PROVE Frame(s)
    <2>1. Moves(s, IF At(s, "readForEnvironments") THEN "overlayEnvironments" ELSE "overlayDocument")
      BY <1>1, ReadersMove
    <2>2. UNCHANGED <<disk, staging, backup, secret, spoiled>> /\ (intact' => intact) /\ s \in Active
      BY <1>0, <1>1 DEF ReadOverlay, Read, At, Active, Over
    <2> QED
      BY <2>1, <2>2 DEF Frame, Place
  <1>2. ASSUME NEW got \in {document, Empty}, ReadDocument(s, got) PROVE Frame(s)
    <2>1. Moves(s, IF got = Empty THEN "document" ELSE "readSecrets")
      BY <1>2, ReadersMove
    <2>2. UNCHANGED <<disk, staging, backup, secret, spoiled>> /\ (intact' => intact) /\ s \in Active
      BY <1>0, <1>2 DEF ReadDocument, Read, At, Active, Over
    <2> QED
      BY <2>1, <2>2 DEF Frame, Place
  <1>3. ASSUME NEW got \in {overlay, NoSecrets}, ReadSecrets(s, got) PROVE Frame(s)
    <2>1. Moves(s, "document")
      BY <1>3, ReadersMove
    <2>2. UNCHANGED <<disk, staging, backup, secret, spoiled>> /\ (intact' => intact) /\ s \in Active
      BY <1>0, <1>3 DEF ReadSecrets, Read, At, Active, Over
    <2> QED
      BY <2>1, <2>2 DEF Frame, Place
  <1>4. ASSUME NEW got \in {overlay, NoSecrets}, ReadCollections(s, got) PROVE Frame(s)
    <2>1. Moves(s, "readExisting")
      BY <1>4, ReadersMove
    <2>2. UNCHANGED <<disk, staging, backup, secret, spoiled>> /\ (intact' => intact) /\ s \in Active
      BY <1>0, <1>4 DEF ReadCollections, Read, At, Active, Over
    <2> QED
      BY <2>1, <2>2 DEF Frame, Place
  <1>5. ASSUME NEW got \in {overlay, NoSecrets}, ReadExisting(s, got) PROVE Frame(s)
    <2>1. Moves(s, "overlayCollections")
      BY <1>5, ReadersMove
    <2>2. UNCHANGED <<disk, staging, backup, secret, spoiled>> /\ (intact' => intact) /\ s \in Active
      BY <1>0, <1>5 DEF ReadExisting, Read, At, Active, Over
    <2> QED
      BY <2>1, <2>2 DEF Frame, Place
  <1>10. ASSUME NEW ok \in BOOLEAN, ReadTracked(s, ok) PROVE Frame(s)
    <2>1. Moves(s, "track")
      BY <1>10, ReadersMove
    <2>2. UNCHANGED <<disk, staging, backup, secret, spoiled>> /\ (intact' => intact) /\ s \in Active
      BY <1>0, <1>10 DEF ReadTracked, Read, At, Active, Over
    <2> QED
      BY <2>1, <2>2 DEF Frame, Place
  <1> DEFINE Writes ==
        \/ Stage(s) \/ Validate(s) \/ Look(s) \/ MoveAway(s) \/ MoveIn(s) \/ OverlayEnvironments(s)
        \/ DropBackup(s) \/ Rollback(s) \/ Restore(s) \/ CleanUp(s) \/ WriteDocument(s)
        \/ OverlayDocument(s) \/ Profiles(s) \/ OverlayCollections(s) \/ Track(s)
  <1>6. ASSUME Writes
        PROVE  s \in Active /\ \E pc \in Place \ {"unborn"} : Moves(s, pc)
    <2>1. s \in Active
      BY <1>0, <1>6 DEF Stage, Validate, Look, MoveAway, MoveIn, OverlayEnvironments, DropBackup,
                        Rollback, Restore, CleanUp, WriteDocument, OverlayDocument, Profiles,
                        OverlayCollections, Track, At, Active, Over
    <2>2. CASE Stage(s)
      <3>1. Moves(s, "validate")
        BY <2>2, WriteMoves
      <3> QED
        BY <2>1, <3>1 DEF Place
    <2>3. CASE Validate(s)
      <3>1. Moves(s, "look")
        BY <2>3, WriteMoves
      <3> QED
        BY <2>1, <3>1 DEF Place
    <2>4. CASE Look(s)
      <3>1. Moves(s, IF disk.live # Absent THEN "moveAway" ELSE "moveIn")
        BY <2>4, WriteMoves
      <3> QED
        BY <2>1, <3>1 DEF Place
    <2>5. CASE MoveAway(s)
      <3>1. Moves(s, "moveIn")
        BY <2>5, WriteMoves
      <3> QED
        BY <2>1, <3>1 DEF Place
    <2>6. CASE MoveIn(s)
      <3>1. Moves(s, "readForEnvironments")
        BY <2>6, WriteMoves
      <3> QED
        BY <2>1, <3>1 DEF Place
    <2>7. CASE OverlayEnvironments(s)
      <3>1. Moves(s, IF job[s].held THEN "dropBackup" ELSE "document")
        BY <2>7, WriteMoves
      <3> QED
        BY <2>1, <3>1 DEF Place
    <2>8. CASE DropBackup(s)
      <3>1. Moves(s, "document")
        BY <2>8, WriteMoves
      <3> QED
        BY <2>1, <3>1 DEF Place
    <2>9. CASE Rollback(s)
      <3>1. Moves(s, IF disk.live = Absent /\ backup[s] # Absent THEN "restore" ELSE "cleanUp")
        BY <2>9, WriteMoves
      <3> QED
        BY <2>1, <3>1 DEF Place
    <2>10. CASE Restore(s)
      <3>1. Moves(s, "cleanUp")
        BY <2>10, WriteMoves
      <3> QED
        BY <2>1, <3>1 DEF Place
    <2>11. CASE CleanUp(s)
      <3>1. Moves(s, "failed")
        BY <2>11, WriteMoves
      <3> QED
        BY <2>1, <3>1 DEF Place
    <2>12. CASE WriteDocument(s)
      <3>1. Moves(s, "readForDocument")
        BY <2>12, WriteMoves
      <3> QED
        BY <2>1, <3>1 DEF Place
    <2>13. CASE OverlayDocument(s)
      <3>1. Moves(s, "refresh")
        BY <2>13, WriteMoves
      <3> QED
        BY <2>1, <3>1 DEF Place
    <2>14. CASE Profiles(s)
      <3>1. Moves(s, "refresh")
        BY <2>14, WriteMoves
      <3> QED
        BY <2>1, <3>1 DEF Place
    <2>15. CASE OverlayCollections(s)
      <3>1. Moves(s, "readTracked")
        BY <2>15, WriteMoves
      <3> QED
        BY <2>1, <3>1 DEF Place
    <2>16. CASE Track(s)
      <3>1. Moves(s, "done")
        BY <2>16, WriteMoves
      <3> QED
        BY <2>1, <3>1 DEF Place
    <2> QED
      BY <1>6, <2>2, <2>3, <2>4, <2>5, <2>6, <2>7, <2>8, <2>9, <2>10, <2>11, <2>12, <2>13, <2>14, <2>15, <2>16
  <1>7. ASSUME Writes
        PROVE  /\ UNCHANGED <<secret, intact, spoiled>> /\ disk'.marker = disk.marker
               /\ \A k \in Save : k # s => staging'[k] = staging[k] /\ backup'[k] = backup[k]
    BY <1>0, <1>7 DEF Stage, Validate, Look, MoveAway, MoveIn, OverlayEnvironments, DropBackup,
                      Rollback, Restore, CleanUp, WriteDocument, OverlayDocument, Profiles,
                      OverlayCollections, Track, Keep, KeepDisk, Disk
  <1>8. Writes => Frame(s)
    BY <1>6, <1>7 DEF Frame
  <1>9. UNCHANGED <<secret, cache, spoiled>> /\ disk'.marker = disk.marker
    <2>1. CASE Writes
      BY <1>7, <2>1 DEF Stage, Validate, Look, MoveAway, MoveIn, OverlayEnvironments, DropBackup,
                        Rollback, Restore, CleanUp, WriteDocument, OverlayDocument, Profiles,
                        OverlayCollections, Track, Keep, KeepDisk
    <2>2. CASE ~Writes
      BY <2>2 DEF WriteEnvironments, WriteOthers, ReadOverlay, ReadDocument, ReadSecrets,
                  ReadCollections, ReadExisting, ReadTracked, Read
    <2> QED
      BY <2>1, <2>2
  <1> HIDE DEF Writes
  <1> QED
    BY <1>1, <1>2, <1>3, <1>4, <1>5, <1>8, <1>9, <1>10 DEF WriteEnvironments, WriteOthers, Writes

LEMMA JobStepFrame ==
  ASSUME Types, NEW j \in Job, JobStep(j)
  PROVE  Frame(j)
  <1>0. Jobs /\ disk \in Disk /\ spoiled \in BOOLEAN
    BY DEF Types, Stored
  <1>1. ASSUME NEW got \in {Snapshot, None}, Refresh(j, got) PROVE Frame(j)
    <2>1. Moves(j, IF At(j, "warm") THEN "warmed" ELSE "refreshed")
      BY <1>1, ClosersMove
    <2>2. UNCHANGED <<disk, staging, backup, secret, spoiled>> /\ (intact' => intact) /\ j \in Active
      BY <1>0, <1>1 DEF Refresh, Read, At, Active, Over
    <2> QED
      BY <2>1, <2>2 DEF Frame, Place
  <1>2. ASSUME Refreshed(j) PROVE Frame(j)
    <2>1. Moves(j, "done")
      BY <1>2, ClosersMove
    <2>2. UNCHANGED <<disk, staging, backup, secret, spoiled>> /\ j \in Active
      BY <1>2 DEF Refreshed, At, Active, Over
    <2> QED
      BY <1>2, <2>1, <2>2 DEF Frame, Place
  <1>3. ASSUME Fails(j) PROVE Frame(j)
    <2>1. Moves(j, IF job[j].pc \in Swap THEN "rollback" ELSE "failed")
      BY <1>3, ClosersMove
    <2>2. disk.marker /\ ~disk'.marker => spoiled'
      BY <1>3 DEF Fails, Spoils
    <2>3. /\ UNCHANGED <<staging, secret>> /\ j \in Active /\ ~intact' /\ (spoiled => spoiled')
          /\ \A k \in Save : k # j => backup'[k] = backup[k]
      BY <1>0, <1>3 DEF Fails, Types, Stored
    <2> QED
      BY <1>3, <2>1, <2>2, <2>3 DEF Frame, Place
  <1>4. ASSUME Warmed(j) PROVE Frame(j)
    <2>1. Moves(j, AfterEnsure(j)) \/ Moves(j, "ensure")
      BY <1>4, ClosersMove
    <2>2. UNCHANGED <<disk, staging, backup, secret, intact, spoiled>> /\ j \in Active
      BY <1>4 DEF Warmed, At, Active, Over
    <2>3. AfterEnsure(j) \in Place \ {"unborn"} /\ "ensure" \in Place \ {"unborn"}
      BY <1>0 DEF Jobs, JobRecord, Kind, AfterEnsure, Place
    <2> QED
      BY <2>1, <2>2, <2>3 DEF Frame
  <1> QED
    BY <1>1, <1>2, <1>3, <1>4, InitialiseFrame, WriteFrame DEF JobStep

(* A step leaves no job on its way that was not, and none unborn that had    *)
(* begun.                                                                    *)
LEMMA FrameKeeps ==
  ASSUME Jobs, NEW j \in Job, Frame(j)
  PROVE  /\ Active' \subseteq Active
         /\ \A k \in Job : job'[k].kind = job[k].kind /\ (job'[k].pc = "unborn" => job[k].pc = "unborn")
         /\ \A k \in Job : job'[k].alone => job[k].alone
         /\ \A k \in Job : k # j => job'[k] = job[k]
         /\ \A k \in Active' : job[k].alone /\ intact' => job'[k].alone
  <1>1. PICK pc \in Place \ {"unborn"} : Moves(j, pc)
    BY DEF Frame
  <1> QED
    BY <1>1 DEF Moves, Frame, Active

LEMMA NextSplits ==
  ASSUME Next
  PROVE  (\E s \in Save : Start(s)) \/ (\E j \in Job : JobStep(j)) \/ Crash
  BY DEF Next, JobStep, Job

-----------------------------------------------------------------------------
(* Credentials: a migration or a save of profiles is past the promotion only *)
(* if some secret was stored.                                                *)
Promoted == Initialising \cup {"refresh", "refreshed", "profiles", "files", "lastFile", "initOverlay"}
Redacting == {"migration", "profiles"}

Promotion ==
  ~secret => /\ \A j \in Job : job[j].kind \in Redacting => job[j].pc \notin Promoted
             /\ disk.profiles \notin Job

LEMMA ProfilesWritten ==
  ASSUME Types, NEW j \in Job, JobStep(j)
  PROVE  \/ disk'.profiles \in {disk.profiles, Torn}
         \/ InitProfiles(j) /\ disk'.profiles = Brought(j)
         \/ j \in Save /\ Profiles(j)
  <1>0. disk \in Disk
    BY DEF Types, Stored
  <1>1. CASE Initialise(j)
    BY <1>0, <1>1 DEF Initialise, Promote, Ensure, Directories, FirstFile, LastFile, InitDocument,
                      InitProfiles, InitOverlay, Marker, KeepDisk, Disk
  <1>2. CASE Refreshed(j) \/ Warmed(j) \/ \E got \in {Snapshot, None} : Refresh(j, got)
    BY <1>2 DEF Refreshed, Warmed, Refresh, Read
  <1>3. CASE Fails(j)
    BY <1>0, <1>3, DamageIsPartial DEF Fails
  <1>4. CASE j \in Save /\ WriteEnvironments(j)
    BY <1>0, <1>4 DEF WriteEnvironments, Stage, Validate, Look, MoveAway, MoveIn, ReadOverlay, Read,
                      OverlayEnvironments, DropBackup, Rollback, Restore, CleanUp, KeepDisk, Disk
  <1>5. CASE j \in Save /\ WriteOthers(j)
    BY <1>0, <1>5 DEF WriteOthers, ReadDocument, ReadSecrets, ReadCollections, ReadExisting,
                      ReadTracked, Read, KeepDisk, WriteDocument, OverlayDocument, OverlayCollections, Track, Disk
  <1> QED
    BY <1>1, <1>2, <1>3, <1>4, <1>5 DEF JobStep

LEMMA PromotionPreserved ==
  ASSUME Types, Promotion, Next
  PROVE  Promotion'
  <1>0. Jobs /\ disk \in Disk /\ Torn \notin Job /\ Empty \notin Job /\ Absent \notin Job
    BY ProjectStoreAssumption DEF Types, Stored, Job
  <1>1. ASSUME secret PROVE secret'
    <2>1. CASE (\E s \in Save : Start(s)) \/ Crash
      BY <1>1, <2>1 DEF Start, Crash
    <2>2. CASE \E j \in Job : JobStep(j)
      BY <1>1, <2>2, JobStepFrame DEF Frame
    <2> QED
      BY <2>1, <2>2, NextSplits
  <1>2. ASSUME ~secret, ~secret' PROVE Promotion'
    <2>0. /\ \A j \in Job : job[j].kind \in Redacting => job[j].pc \notin Promoted
          /\ disk.profiles \notin Job
      BY <1>2 DEF Promotion
    <2>1. ASSUME NEW s \in Save, Start(s) PROVE Promotion'
      <3>1. disk' = disk
        BY <2>1 DEF Start
      <3>2. ASSUME NEW j \in Job, job'[j].kind \in Redacting PROVE job'[j].pc \notin Promoted
        <4>1. CASE j # s
          BY <1>0, <2>0, <2>1, <3>2, <4>1, StartMoves
        <4>2. CASE j = s
          <5>1. job[s].kind \in Kind /\ job'[s].kind = job[s].kind
                /\ (job[s].kind \in {"profiles", "migration"} => job'[s].pc = "promote")
            BY <1>0, <2>1, StartMoves
          <5> QED
            BY <3>2, <4>2, <5>1 DEF Promoted, Redacting, Initialising, Kind
        <4> QED
          BY <4>1, <4>2
      <3> QED
        BY <2>0, <3>1, <3>2 DEF Promotion
    <2>2. ASSUME Crash PROVE Promotion'
      <3>1. disk'.profiles \notin Job
        BY <1>0, <2>0, <2>2, DamageIsPartial DEF Crash, Active
      <3>2. ASSUME NEW j \in Job PROVE job'[j].pc \notin Promoted
        BY <1>0, <2>2, CrashMoves DEF Job, Over, Promoted, Initialising
      <3> QED
        BY <3>1, <3>2 DEF Promotion
    <2>3. ASSUME NEW j \in Job, JobStep(j) PROVE Promotion'
      <3>0. Frame(j)
        BY <2>3, JobStepFrame
      <3>1. CASE job[j].kind \notin Redacting
        <4>1. \A k \in Job : job'[k].kind \in Redacting => job'[k].pc \notin Promoted
          BY <1>0, <2>0, <3>0, <3>1, FrameKeeps
        <4>2. disk'.profiles \notin Job
          <5>1. ~(j \in Save /\ Profiles(j))
            BY <1>0, <3>1 DEF Jobs, JobRecord, Kind, Route, Profiles, At, Redacting, Initialising,
                              Closing, Writing, Swapping, MovedIn, Undoing
          <5>2. ~IsMigration(j)
            BY <3>1 DEF IsMigration, Redacting
          <5> QED
            BY <1>0, <2>0, <2>3, <5>1, <5>2, ProfilesWritten DEF Brought
        <4> QED
          BY <4>1, <4>2 DEF Promotion
      <3>2. CASE job[j].kind \in Redacting
        <4>1. job[j].pc = "promote"
          <5>1. job[j].pc \notin Promoted /\ job[j].pc \notin Over /\ Route(job[j].kind, job[j].pc)
            BY <1>0, <2>0, <3>0, <3>2 DEF Frame, Active, Jobs
          <5> QED
            BY <3>2, <5>1 DEF Promoted, Over, Redacting, Route, Closing
        <4>2. Fails(j)
          <5>1. ~Initialise(j)
            BY <1>0, <1>2, <4>1 DEF Initialise, Promote, Ensure, Directories, FirstFile, LastFile,
                InitDocument, InitProfiles, InitOverlay, Marker, At
          <5>2. ~Refreshed(j) /\ ~Warmed(j) /\ ~\E got \in {Snapshot, None} : Refresh(j, got)
            BY <4>1 DEF Refreshed, Warmed, Refresh, At
          <5>3. ~WriteEnvironments(j)
            BY <4>1 DEF WriteEnvironments, Stage, Validate, Look, MoveAway, MoveIn, ReadOverlay,
                OverlayEnvironments, DropBackup, Rollback, Restore, CleanUp, At
          <5>4. ~WriteOthers(j)
            BY <4>1 DEF WriteOthers, ReadDocument, ReadSecrets, ReadCollections, ReadExisting,
                ReadTracked, WriteDocument, OverlayDocument, Profiles, OverlayCollections, Track, At
          <5> QED
            BY <2>3, <5>1, <5>2, <5>3, <5>4 DEF JobStep
        <4>3. Moves(j, "failed")
          BY <4>1, <4>2, ClosersMove DEF Swap
        <4>4. disk'.profiles \notin Job
          BY <1>0, <2>0, <4>2, DamageIsPartial DEF Fails
        <4>5. \A k \in Job : job'[k].kind \in Redacting => job'[k].pc \notin Promoted
          BY <2>0, <4>3 DEF Moves, Promoted, Initialising
        <4> QED
          BY <4>4, <4>5 DEF Promotion
      <3> QED
        BY <3>1, <3>2
    <2> QED
      BY <2>1, <2>2, <2>3, NextSplits
  <1> QED
    BY <1>1, <1>2 DEF Promotion

-----------------------------------------------------------------------------
(* The marker: nothing runs beside the migration on activation, which works  *)
(* only as long as there is no marker; jobs go on to the documents only if   *)
(* there is one, and it stays there unless another migration tears it.       *)
Unmarked == {"directories", "files", "lastFile", "initDocument", "initProfiles", "initOverlay", "marker"}
Opened == Swapping \cup Undoing \cup Writing
          \cup {"warm", "warmed", "readDocument", "readSecrets", "profiles", "refresh", "refreshed"}

MarkerOrder ==
  /\ Startup \in Active => Active = {Startup}
  /\ job[Startup].pc \in Unmarked => ~disk.marker
  /\ \A j \in Job : job[j].pc \in Opened /\ (job[j].alone \/ ~spoiled) => disk.marker

Lonely == \A j \in Active : job[j].alone => Active = {j}

LEMMA OpenedByEnsure ==
  ASSUME Types, NEW j \in Job, JobStep(j), job'[j].pc \in Opened, job[j].pc \notin Opened
  PROVE  disk'.marker /\ (Ensure(j) \/ Marker(j))
  <1>0. Jobs /\ disk \in Disk
    BY DEF Types, Stored
  <1>1. CASE Initialise(j)
    <2>1. ~(Promote(j) \/ Directories(j) \/ FirstFile(j) \/ LastFile(j) \/ InitDocument(j)
            \/ InitProfiles(j) \/ InitOverlay(j))
      BY <1>0, InitialiseMoves DEF Moves, Opened, Swapping, Undoing, Writing, MovedIn
    <2>2. Ensure(j) => disk'.marker
      BY <1>0, InitialiseMoves DEF Ensure, KeepDisk, Moves, Opened, Swapping, Undoing, Writing, MovedIn
    <2>3. Marker(j) => disk'.marker
      BY <1>0 DEF Marker, Disk
    <2> QED
      BY <1>1, <2>1, <2>2, <2>3 DEF Initialise
  <1>2. ~Refreshed(j) /\ ~Warmed(j) /\ ~\E got \in {Snapshot, None} : Refresh(j, got)
    BY DEF Refreshed, Warmed, Refresh, At, Opened
  <1>3. ~Fails(j)
    BY ClosersMove DEF Moves, Opened, Swap, Swapping, MovedIn, Undoing, Writing
  <1>4. ~WriteEnvironments(j)
    BY DEF WriteEnvironments, Stage, Validate, Look, MoveAway, MoveIn, ReadOverlay,
           OverlayEnvironments, DropBackup, Rollback, Restore, CleanUp, At, Opened, Swapping, MovedIn,
           Undoing, Writing
  <1>5. ~(j \in Save /\ WriteOthers(j))
    <2>1. j \in Save => ~(OverlayCollections(j) \/ Track(j))
      BY WriteMoves DEF Moves, Opened, Swapping, MovedIn, Undoing, Writing
    <2>2. j \in Save => ~\E got \in {overlay, NoSecrets} : ReadCollections(j, got) \/ ReadExisting(j, got)
      BY ReadersMove DEF Moves, Opened, Swapping, MovedIn, Undoing, Writing
    <2>3. ~(\E got \in {document, Empty} : ReadDocument(j, got))
      BY DEF ReadDocument, At, Opened
    <2>6. j \in Save => ~\E ok \in BOOLEAN : ReadTracked(j, ok)
      BY ReadersMove DEF Moves, Opened, Swapping, MovedIn, Undoing, Writing
    <2>4. ~(\E got \in {overlay, NoSecrets} : ReadSecrets(j, got))
      BY DEF ReadSecrets, At, Opened
    <2>5. ~(WriteDocument(j) \/ OverlayDocument(j) \/ Profiles(j))
      BY DEF WriteDocument, OverlayDocument, Profiles, At, Opened, Writing
    <2> QED
      BY <2>1, <2>2, <2>3, <2>4, <2>5, <2>6 DEF WriteOthers
  <1> QED
    BY <1>1, <1>2, <1>3, <1>4, <1>5 DEF JobStep

LEMMA MarkerOrderPreserved ==
  ASSUME Types, Lonely, MarkerOrder, Next
  PROVE  MarkerOrder'
  <1>0. Jobs /\ disk \in Disk /\ Startup \in Job /\ Startup \notin Save
    BY ProjectStoreAssumption DEF Types, Stored, Job
  <1>1. ASSUME NEW s \in Save, Start(s) PROVE MarkerOrder'
    <2>1. Startup \notin Active' /\ job'[Startup].pc = job[Startup].pc
      BY <1>0, <1>1, StartMoves DEF Active
    <2>2. disk' = disk /\ spoiled' = spoiled
      BY <1>1 DEF Start
    <2>3. job'[s].pc \notin Opened
      BY <1>1, <1>0, StartMoves DEF Kind, Opened, Swapping, MovedIn, Undoing, Writing
    <2>4. \A k \in Job : k # s => job'[k].pc = job[k].pc /\ ~job'[k].alone
      BY <1>0, <1>1, StartMoves
    <2> QED
      BY <2>1, <2>2, <2>3, <2>4 DEF MarkerOrder
  <1>2. ASSUME Crash PROVE MarkerOrder'
    <2>1. \A s \in Save : job'[s].pc \in Over
      BY <1>0, <1>2, CrashMoves
    <2>2. job'[Startup].pc = "promote" /\ Active' = {Startup}
      BY <1>0, <1>2, CrashMoves
    <2>3. \A j \in Job : job'[j].pc \notin Opened
      BY <2>1, <2>2 DEF Job, Over, Opened, Swapping, MovedIn, Undoing, Writing
    <2> QED
      BY <2>2, <2>3 DEF MarkerOrder, Unmarked
  <1>3. ASSUME NEW j \in Job, JobStep(j) PROVE MarkerOrder'
    <2>0. Frame(j) /\ j \in Active
      BY <1>3, JobStepFrame DEF Frame
    <2>1. Startup \in Active' => Active' = {Startup}
      BY <1>0, <2>0, FrameKeeps DEF MarkerOrder
    <2>2. ASSUME NEW k \in Job, job'[k].pc \in Opened, job'[k].alone \/ ~spoiled' PROVE disk'.marker
      <3>1. CASE job[k].pc \in Opened
        <4>1. job[k].alone \/ ~spoiled
          BY <1>0, <2>0, <2>2, FrameKeeps DEF Frame
        <4>2. disk.marker
          BY <3>1, <4>1 DEF MarkerOrder
        <4>3. ASSUME ~disk'.marker PROVE FALSE
          <5>1. Fails(j) /\ spoiled' /\ job[k].alone
            BY <1>0, <2>0, <2>2, <4>2, <4>3, FrameKeeps DEF Frame
          <5>2. k \in Active
            BY <3>1 DEF Active, Over, Opened, Swapping, MovedIn, Undoing, Writing
          <5>3. k = j
            BY <2>0, <5>1, <5>2 DEF Lonely
          <5>4. job[j].pc = "marker"
            BY <1>0, <4>2, <4>3, <5>1, DamageIsPartial DEF Fails
          <5> QED
            BY <3>1, <5>3, <5>4 DEF Opened, Swapping, MovedIn, Undoing, Writing
        <4> QED
          BY <4>3
      <3>2. CASE job[k].pc \notin Opened
        BY <1>0, <1>3, <2>0, <2>2, <3>2, FrameKeeps, OpenedByEnsure
      <3> QED
        BY <3>1, <3>2
    <2>3. ASSUME job'[Startup].pc \in Unmarked PROVE ~disk'.marker
      <3>1. Startup \in Active
        BY <1>0, <2>0, <2>3, FrameKeeps DEF Active, Unmarked, Over
      <3>2. j = Startup
        BY <2>0, <3>1 DEF MarkerOrder
      <3>3. Initialise(Startup)
        <4>1. ~Refreshed(Startup) /\ ~\E got \in {Snapshot, None} : Refresh(Startup, got)
          BY <1>0, <2>3, ClosersMove DEF Moves, Unmarked
        <4>2. ~Fails(Startup)
          BY <1>0, <2>3, ClosersMove DEF Moves, Unmarked
        <4>3. ~Warmed(Startup)
          <5>1. AfterEnsure(Startup) = "done"
            BY <1>0 DEF Jobs, AfterEnsure
          <5> QED
            BY <1>0, <2>3, <5>1, ClosersMove DEF Moves, Unmarked
        <4> QED
          BY <1>0, <1>3, <3>2, <4>1, <4>2, <4>3 DEF JobStep
      <3>4. ~Promote(Startup) /\ ~Marker(Startup)
        BY <1>0, <2>3, InitialiseMoves DEF Moves, Unmarked
      <3>5. Ensure(Startup) => ~disk'.marker
        <4>1. Ensure(Startup) => disk' = disk
          BY DEF Ensure, KeepDisk
        <4> QED
          BY <1>0, <2>3, <4>1, InitialiseMoves DEF Moves, Unmarked
      <3>6. ~Ensure(Startup) => ~disk'.marker
        <4>1. CASE Directories(Startup) \/ FirstFile(Startup) \/ LastFile(Startup)
          BY <1>0, <4>1 DEF Directories, FirstFile, LastFile, At, MarkerOrder, Unmarked, Disk
        <4>2. CASE InitDocument(Startup) \/ InitProfiles(Startup) \/ InitOverlay(Startup)
          BY <1>0, <4>2 DEF InitDocument, InitProfiles, InitOverlay, At, MarkerOrder, Unmarked, Disk
        <4> QED
          BY <3>3, <3>4, <4>1, <4>2 DEF Initialise
      <3> QED
        BY <3>5, <3>6
    <2> QED
      BY <2>1, <2>2, <2>3 DEF MarkerOrder
  <1> QED
    BY <1>1, <1>2, <1>3, NextSplits

-----------------------------------------------------------------------------
(* What the migration brought so far, as long as no save was made.           *)
Untouched == \A s \in Save : At(s, "unborn")

Progress ==
  Untouched =>
    /\ ~Mixed(disk.live) /\ (job[Startup].pc = "lastFile" => disk.live = Half)
    /\ disk.marker \/ job[Startup].pc \in {"initDocument", "initProfiles", "initOverlay", "marker"}
         => disk.live = Startup
    /\ disk.marker \/ job[Startup].pc \in {"initProfiles", "initOverlay", "marker"}
         => disk.document = Startup
    /\ disk.marker \/ job[Startup].pc \in {"initOverlay", "marker"} => disk.profiles = Startup
    /\ disk.marker \/ job[Startup].pc = "marker" =>
         disk.overlay = [NoSecrets EXCEPT !.workspace = Startup, !.environments = Startup]

LEMMA ProgressPreserved ==
  ASSUME Types, MarkerOrder, Progress, Next
  PROVE  Progress'
  <1>0. Jobs /\ disk \in Disk /\ Startup \in Job /\ Startup \notin Save /\ Save \subseteq Job
    BY ProjectStoreAssumption DEF Types, Stored, Job
  <1> SUFFICES ASSUME Untouched' PROVE Progress'
    BY DEF Progress
  <1>1. ~\E s \in Save : Start(s)
    <2> SUFFICES ASSUME NEW s \in Save, Start(s) PROVE FALSE
      OBVIOUS
    <2>1. job'[s].pc = "unborn"
      BY DEF Untouched, At
    <2> QED
      BY <1>0, <2>1, StartMoves DEF Kind
  <1>2. ASSUME Crash PROVE Progress'
    <2>1. \A s \in Save : job'[s].pc \in {job[s].pc, "lost"} /\ job'[s].pc = "unborn"
      BY <1>0, <1>2, CrashMoves DEF Untouched, At
    <2>2. Untouched
      BY <2>1 DEF Untouched, At
    <2>3. Active = {Startup}
      BY <1>2, <2>2 DEF Untouched, At, Active, Over, Job, Crash
    <2>4. disk' \in Damaged(Startup)
      BY <1>2, <2>3 DEF Crash
    <2>5. job'[Startup].pc = "promote"
      BY <1>0, <1>2, CrashMoves
    <2>8. ~Mixed(disk'.live)
      BY <1>0, <2>2, <2>4, DamageIsPartial DEF Progress, Mixed
    <2>6. CASE disk.marker
      <3>1. job[Startup].pc \notin Unmarked
        BY <2>6 DEF MarkerOrder
      <3>2. Route("migration", job[Startup].pc)
        BY <1>0 DEF Jobs
      <3>3. disk'.live = disk.live /\ disk'.document = disk.document /\ disk'.profiles = disk.profiles
            /\ disk'.overlay = disk.overlay
        BY <1>0, <2>4, <3>1, <3>2, DamageIsPartial
           DEF Unmarked, Route, Initialising, Closing
      <3> QED
        BY <2>2, <2>5, <2>6, <2>8, <3>3 DEF Progress
    <2>7. CASE ~disk.marker
      <3>1. ~disk'.marker
        BY <1>0, <2>4, <2>7, DamageIsPartial
      <3> QED
        BY <2>5, <2>8, <3>1 DEF Progress
    <2> QED
      BY <2>6, <2>7
  <1>3. ASSUME NEW j \in Job, JobStep(j) PROVE Progress'
    <2>0. Frame(j)
      BY <1>3, JobStepFrame
    <2>1. Untouched
      BY <1>0, <2>0, FrameKeeps DEF Untouched, At
    <2>2. j = Startup
      BY <2>0, <2>1 DEF Frame, Active, Over, Untouched, At, Job
    <2>3. CASE \/ Refreshed(Startup) \/ Warmed(Startup)
               \/ \E got \in {Snapshot, None} : Refresh(Startup, got)
      <3>1. UNCHANGED disk
        BY <2>3 DEF Refreshed, Warmed, Refresh, Read
      <3>2. job'[Startup].pc \in {"warmed", "refreshed", "done", "ensure"}
        <4>1. AfterEnsure(Startup) = "done"
          BY <1>0 DEF Jobs, AfterEnsure
        <4> QED
          BY <1>0, <2>3, <4>1, ClosersMove DEF Moves
      <3> QED
        BY <2>1, <3>1, <3>2 DEF Progress
    <2>4. CASE Fails(Startup)
      <3>1. Moves(Startup, IF job[Startup].pc \in Swap THEN "rollback" ELSE "failed")
        BY <1>0, <2>4, ClosersMove
      <3>2. disk' \in Damaged(Startup)
        BY <2>4 DEF Fails
      <3>5. ~Mixed(disk'.live) /\ job'[Startup].pc \in {"rollback", "failed"}
        BY <1>0, <2>1, <3>1, <3>2, DamageIsPartial DEF Progress, Mixed, Moves
      <3>3. CASE disk.marker
        <4>1. job[Startup].pc \notin Unmarked
          BY <3>3 DEF MarkerOrder
        <4>2. Route("migration", job[Startup].pc)
          BY <1>0 DEF Jobs
        <4>3. disk'.live = disk.live /\ disk'.document = disk.document /\ disk'.profiles = disk.profiles
              /\ disk'.overlay = disk.overlay
          BY <1>0, <3>2, <4>1, <4>2, DamageIsPartial
             DEF Unmarked, Route, Initialising, Closing
        <4> QED
          BY <2>1, <3>3, <3>5, <4>3 DEF Progress
      <3>4. CASE ~disk.marker
        <4>1. ~disk'.marker
          BY <1>0, <3>2, <3>4, DamageIsPartial
        <4> QED
          BY <3>5, <4>1 DEF Progress
      <3> QED
        BY <3>3, <3>4
    <2>5. CASE Promote(Startup)
      <3>1. job'[Startup].pc = "ensure" /\ disk' = disk
        BY <1>0, <2>5, InitialiseMoves DEF Moves, Promote
      <3> QED
        BY <2>1, <3>1 DEF Progress
    <2>6. CASE Ensure(Startup)
      <3>1. disk' = disk
        BY <2>6 DEF Ensure, KeepDisk
      <3>2. job'[Startup].pc \in {"warm", "directories"}
        BY <1>0, <2>6, InitialiseMoves DEF Moves
      <3> QED
        BY <2>1, <3>1, <3>2 DEF Progress
    <2>14. IsMigration(Startup)
      BY <1>0 DEF Jobs, IsMigration
    <2>15. ~Mixed(disk.live) /\ (job[Startup].pc = "lastFile" => disk.live = Half)
      BY <2>1 DEF Progress
    <2>7. CASE Directories(Startup)
      <3>1. job'[Startup].pc = "files" /\ ~disk'.marker
        BY <1>0, <2>7, <2>14, InitialiseMoves DEF Moves, Directories, At, MarkerOrder, Unmarked, Disk
      <3>2. ~Mixed(disk'.live)
        BY <1>0, <2>7, <2>15 DEF Directories, Disk, Mixed
      <3> QED
        BY <3>1, <3>2 DEF Progress
    <2>8. CASE FirstFile(Startup)
      <3>1. job'[Startup].pc = "lastFile" /\ ~disk'.marker
        BY <1>0, <2>8, InitialiseMoves DEF Moves, FirstFile, At, MarkerOrder, Unmarked, Disk
      <3>2. disk'.live = Half /\ ~Mixed(Half)
        BY <1>0, <2>8, <2>15 DEF FirstFile, Disk, Mixed
      <3> QED
        BY <3>1, <3>2 DEF Progress
    <2>9. CASE LastFile(Startup)
      <3>0. ~\E m \in Job \ {Startup} : At(m, "lastFile")
        BY <2>1 DEF Untouched, At, Job
      <3>1. job'[Startup].pc = "initDocument" /\ ~disk'.marker /\ disk'.live = Startup
        BY <1>0, <2>9, <2>15, <3>0, InitialiseMoves
           DEF Moves, LastFile, At, MarkerOrder, Unmarked, Disk
      <3> QED
        BY <3>1 DEF Progress, Mixed
    <2>10. CASE InitDocument(Startup)
      <3>1. job'[Startup].pc = "initProfiles" /\ job[Startup].pc = "initDocument"
        BY <1>0, <2>10, InitialiseMoves DEF Moves, InitDocument, At
      <3>2. ~disk'.marker /\ disk'.live = disk.live /\ disk'.document = Startup
        BY <1>0, <2>10, <2>14, <3>1 DEF InitDocument, MarkerOrder, Unmarked, Disk, Brought
      <3> QED
        BY <2>1, <3>1, <3>2 DEF Progress
    <2>11. CASE InitProfiles(Startup)
      <3>1. job'[Startup].pc = "initOverlay" /\ job[Startup].pc = "initProfiles"
        BY <1>0, <2>11, <2>14, InitialiseMoves DEF Moves, InitProfiles, At
      <3>2. ~disk'.marker /\ disk'.live = disk.live /\ disk'.document = disk.document
            /\ disk'.profiles = Startup
        BY <1>0, <2>11, <2>14, <3>1 DEF InitProfiles, MarkerOrder, Unmarked, Disk, Brought
      <3> QED
        BY <2>1, <3>1, <3>2 DEF Progress
    <2>12. CASE InitOverlay(Startup)
      <3>1. job'[Startup].pc = "marker" /\ job[Startup].pc = "initOverlay"
        BY <1>0, <2>12, InitialiseMoves DEF Moves, InitOverlay, At
      <3>2. /\ ~disk'.marker /\ disk'.live = disk.live /\ disk'.document = disk.document
            /\ disk'.profiles = disk.profiles
            /\ disk'.overlay = [NoSecrets EXCEPT !.workspace = Startup, !.environments = Startup]
        BY <1>0, <2>12, <3>1 DEF InitOverlay, MarkerOrder, Unmarked, Disk
      <3> QED
        BY <2>1, <3>1, <3>2 DEF Progress
    <2>13. CASE Marker(Startup)
      <3>1. job[Startup].pc = "marker" /\ job'[Startup].pc = "warm"
        BY <1>0, <2>13, InitialiseMoves DEF Marker, At, Moves
      <3>2. /\ disk'.live = disk.live /\ disk'.document = disk.document
            /\ disk'.profiles = disk.profiles /\ disk'.overlay = disk.overlay
        BY <1>0, <2>13 DEF Marker, Disk
      <3> QED
        BY <2>1, <3>1, <3>2 DEF Progress
    <2> QED
      BY <1>0, <1>3, <2>2, <2>3, <2>4, <2>5, <2>6, <2>7, <2>8, <2>9, <2>10, <2>11, <2>12, <2>13
         DEF JobStep, Initialise
  <1> QED
    BY <1>1, <1>2, <1>3, NextSplits

-----------------------------------------------------------------------------
(* Where the steps of initialisation and of the other documents lead.        *)
LEMMA InitialiseGoes ==
  ASSUME Types, NEW j \in Job, Initialise(j)
  PROVE  /\ job'[j].pc \in Initialising \cup {"files", "lastFile", "initOverlay"}
         /\ job[j].pc \in Initialising \cup {"promote", "files", "lastFile", "initOverlay"}
  <1>0. Jobs
    BY DEF Types
  <1>1. job[j].pc \in Initialising \cup {"promote", "files", "lastFile", "initOverlay"}
    BY DEF Initialise, Promote, Ensure, Directories, FirstFile, LastFile, InitDocument,
           InitProfiles, InitOverlay, Marker, At, Initialising
  <1>2. job'[j].pc \in Initialising \cup {"files", "lastFile", "initOverlay"}
    BY <1>0, InitialiseMoves DEF Initialise, Moves, Initialising
  <1> QED
    BY <1>1, <1>2

(* Once the store is initialised, a job goes on, is over, or starts again.   *)
LEMMA WarmedGoes ==
  ASSUME Types, NEW j \in Job, Warmed(j)
  PROVE  /\ job'[j].pc \in {"stage", "readDocument", "profiles", "done", "ensure"}
         /\ job'[j].pc \in {"done", "ensure"} <=> job[j].kind = "migration"
         /\ job[j].pc = "warmed" /\ job[j].kind # "collection"
         /\ j = Startup => job'[j].pc = "done"
  <1>0. Jobs
    BY DEF Types
  <1>1. job[j].pc = "warmed" /\ job[j].kind \in {"metadata", "active", "profiles", "migration"}
    BY <1>0 DEF Warmed, At, Jobs, JobRecord, Kind, Route
  <1>2. job'[j].pc = AfterEnsure(j) \/ (job[j].kind = "migration" /\ job'[j].pc = "ensure")
    BY ClosersMove DEF Moves
  <1>3. /\ AfterEnsure(j) \in {"stage", "readDocument", "profiles", "done"}
        /\ AfterEnsure(j) = "done" <=> job[j].kind = "migration"
    BY <1>1 DEF AfterEnsure
  <1>4. j = Startup => job'[j].pc = "done"
    <2> SUFFICES ASSUME j = Startup PROVE job'[j].pc = "done"
      OBVIOUS
    <2>1. job[j].kind = "migration" /\ End(j, "done")
      BY <1>0 DEF Jobs, Warmed, AfterEnsure
    <2> QED
      BY <1>0, <2>1, EndMoves DEF Over, Moves
  <1> QED
    BY <1>1, <1>2, <1>3, <1>4

LEMMA WriteOthersGo ==
  ASSUME Types, NEW s \in Save, WriteOthers(s)
  PROVE  /\ job'[s].pc \in {"readSecrets", "document", "readExisting", "overlayCollections",
                            "readForDocument", "refresh", "readTracked", "track", "done"}
         /\ UNCHANGED <<backup, staging>> /\ disk'.live = disk.live
  <1>0. disk \in Disk
    BY DEF Types, Stored
  <1>1. CASE WriteDocument(s) \/ OverlayDocument(s) \/ Profiles(s) \/ OverlayCollections(s) \/ Track(s)
    BY <1>0, <1>1, WriteMoves DEF WriteDocument, OverlayDocument, Profiles, OverlayCollections, Track,
                                  Keep, KeepDisk, Disk, Moves
  <1>2. CASE \E got \in {document, Empty} : ReadDocument(s, got)
    BY <1>2, ReadersMove DEF ReadDocument, Read, Moves
  <1>3. CASE \E got \in {overlay, NoSecrets} :
               ReadSecrets(s, got) \/ ReadCollections(s, got) \/ ReadExisting(s, got)
    <2>1. PICK got \in {overlay, NoSecrets} :
            ReadSecrets(s, got) \/ ReadCollections(s, got) \/ ReadExisting(s, got)
      BY <1>3
    <2>2. CASE ReadSecrets(s, got)
      BY <2>2, ReadersMove DEF ReadSecrets, Read, Moves
    <2>3. CASE ReadCollections(s, got)
      BY <2>3, ReadersMove DEF ReadCollections, Read, Moves
    <2>4. CASE ReadExisting(s, got)
      BY <2>4, ReadersMove DEF ReadExisting, Read, Moves
    <2> QED
      BY <2>1, <2>2, <2>3, <2>4
  <1>4. CASE \E ok \in BOOLEAN : ReadTracked(s, ok)
    BY <1>4, ReadersMove DEF ReadTracked, Read, Moves
  <1> QED
    BY <1>1, <1>2, <1>3, <1>4 DEF WriteOthers

-----------------------------------------------------------------------------
(* Environments: a complete set is live, or in the backup of a save that did *)
(* not move its own set in yet; what is moved in is complete.                *)
Whole(content) == content \in Content
Holds(s) == Whole(backup[s]) /\ job[s].pc \notin MovedIn
Safe == Whole(disk.live) \/ \E s \in Save : Holds(s)
BeforeMove == Initialising \cup {"unborn", "stage", "validate", "look", "moveAway"}

Swapped ==
  /\ \A s \in Save : job[s].pc \in {"look", "moveAway", "moveIn"} => staging[s] = s
  /\ \A s \in Save : backup[s] # Absent =>
       /\ job[s].kind = "metadata" /\ job[s].pc \notin BeforeMove
       /\ disk.marker \/ spoiled
  /\ ~spoiled /\ Complete => Safe

LEMMA InitialiseSwapped ==
  ASSUME Types, MarkerOrder, Swapped, NEW j \in Job, Initialise(j)
  PROVE  /\ UNCHANGED <<backup, staging>>
         /\ j \in Save => /\ job'[j].pc \notin {"look", "moveAway", "moveIn"} \cup MovedIn
                          /\ backup[j] = Absent
         /\ disk.marker /\ ~spoiled' /\ Whole(disk.live) => Whole(disk'.live)
  <1>0. Jobs /\ disk \in Disk
    BY DEF Types, Stored
  <1>1. UNCHANGED <<backup, staging>>
    BY InitialiseFrame
  <1>2. ASSUME j \in Save PROVE job'[j].pc \notin {"look", "moveAway", "moveIn"} \cup MovedIn
    BY InitialiseGoes DEF Initialising, MovedIn
  <1>3. ASSUME j \in Save, backup[j] # Absent PROVE FALSE
    <2>1. job[j].kind = "metadata" /\ job[j].pc \notin BeforeMove /\ Route(job[j].kind, job[j].pc)
      BY <1>0, <1>3 DEF Swapped, Jobs
    <2>2. job[j].pc \in Initialising \cup {"promote", "files", "lastFile", "initOverlay"}
      BY InitialiseGoes
    <2> QED
      BY <2>1, <2>2 DEF BeforeMove, Route, Initialising, Closing, Writing, Swapping, MovedIn, Undoing
  <1>4. ASSUME disk.marker, ~spoiled', Whole(disk.live) PROVE Whole(disk'.live)
    <2>1. CASE FirstFile(j) \/ LastFile(j)
      BY <1>4, <2>1 DEF FirstFile, LastFile, Files, Spoils
    <2>2. CASE ~(FirstFile(j) \/ LastFile(j))
      <3>1. disk.live # Absent
        BY <1>4, ProjectStoreAssumption DEF Whole, Content, Job
      <3> QED
        BY <1>0, <1>4, <2>2, <3>1 DEF Initialise, Promote, Ensure, Directories, InitDocument,
                                      InitProfiles, InitOverlay, Marker, KeepDisk, Disk
    <2> QED
      BY <2>1, <2>2
  <1> QED
    BY <1>1, <1>2, <1>3, <1>4

(* The steps that swap the environments, one by one.                         *)
LEMMA WriteSwapped ==
  ASSUME Types, MarkerOrder, Swapped, NEW s \in Save, WriteEnvironments(s)
  PROVE  /\ job'[s].pc \in {"look", "moveAway", "moveIn"} => staging'[s] = s
         /\ backup'[s] # Absent => job[s].kind = "metadata" /\ job'[s].pc \notin BeforeMove
                                  /\ (disk.marker \/ spoiled)
         /\ Whole(backup'[s]) => Whole(backup[s]) \/ Holds(s)'
         /\ Safe => Safe'
  <1>0. /\ Jobs /\ disk \in Disk /\ s \in Job
        /\ staging \in [Save -> Directory] /\ backup \in [Save -> Directory]
        /\ Whole(s) /\ ~Whole(Absent) /\ spoiled \in BOOLEAN
        /\ job[s].kind \in Kind /\ Route(job[s].kind, job[s].pc)
    BY ProjectStoreAssumption DEF Types, Stored, Job, Whole, Content, Jobs, JobRecord
  <1>1. /\ job[s].pc \in {"look", "moveAway", "moveIn"} => staging[s] = s
        /\ backup[s] # Absent => /\ job[s].kind = "metadata" /\ job[s].pc \notin BeforeMove
                                 /\ disk.marker \/ spoiled
    BY DEF Swapped
  <1>2. ASSUME Frame(s), Whole(disk.live) => Whole(disk'.live) \/ Holds(s)',
               Holds(s) => Whole(disk'.live) \/ Holds(s)'
        PROVE  Safe => Safe'
    <2>1. \A k \in Save : k # s => (Holds(k) => Holds(k)')
      BY <1>0, <1>2, FrameKeeps DEF Frame, Holds, Job
    <2> QED
      BY <1>2, <2>1 DEF Safe
  <1>3. Frame(s)
    BY WriteFrame
  <1>4. CASE Stage(s)
    <2>1. job'[s].pc = "validate" /\ backup' = backup /\ disk' = disk /\ job[s].pc = "stage"
      BY <1>4, WriteMoves DEF Moves, Stage, At
    <2>2. backup[s] = Absent
      BY <1>1, <2>1 DEF BeforeMove
    <2> QED
      BY <1>0, <1>2, <1>3, <2>1, <2>2 DEF Holds
  <1>5. CASE Validate(s)
    <2>1. job'[s].pc = "look" /\ backup' = backup /\ disk' = disk /\ job[s].pc = "validate"
      BY <1>5, WriteMoves DEF Moves, Validate, At
    <2>2. backup[s] = Absent /\ staging'[s] = s
      BY <1>0, <1>1, <1>5, <2>1 DEF BeforeMove, Validate
    <2> QED
      BY <1>0, <1>2, <1>3, <2>1, <2>2 DEF Holds
  <1>6. CASE Look(s)
    <2>1. /\ job'[s].pc \in {"moveAway", "moveIn"} /\ backup' = backup /\ disk' = disk
          /\ job[s].pc = "look" /\ staging' = staging
      <3>1. Moves(s, IF disk.live # Absent THEN "moveAway" ELSE "moveIn")
        BY <1>6, WriteMoves
      <3>2. backup' = backup /\ disk' = disk /\ job[s].pc = "look" /\ staging' = staging
        BY <1>6 DEF Look, At, KeepDisk
      <3> QED
        BY <3>1, <3>2 DEF Moves
    <2>2. backup[s] = Absent
      BY <1>1, <2>1 DEF BeforeMove
    <2> QED
      BY <1>0, <1>1, <1>2, <1>3, <2>1, <2>2 DEF Holds
  <1>7. CASE MoveAway(s)
    <2>1. job'[s].pc = "moveIn" /\ job[s].pc = "moveAway" /\ staging' = staging
      BY <1>7, WriteMoves DEF Moves, MoveAway, At
    <2>2. backup[s] = Absent
      BY <1>1, <2>1 DEF BeforeMove
    <2>3. backup'[s] = disk.live
      BY <1>0, <1>7 DEF MoveAway
    <2>4. job[s].kind = "metadata" /\ (disk.marker \/ spoiled)
      BY <1>0, <2>1 DEF Route, Kind, Initialising, Closing, Writing, MarkerOrder, Opened, Swapping
    <2>5. "moveIn" \notin BeforeMove \cup MovedIn
      BY DEF BeforeMove, Initialising, MovedIn
    <2>6. Safe => Safe'
      BY <1>0, <1>2, <1>3, <2>1, <2>2, <2>3, <2>5 DEF Holds
    <2>7. Whole(backup'[s]) => Holds(s)'
      BY <2>1, <2>5 DEF Holds
    <2> QED
      BY <1>1, <2>1, <2>4, <2>5, <2>6, <2>7
  <1>8. CASE MoveIn(s)
    <2>1. job'[s].pc = "readForEnvironments" /\ job[s].pc = "moveIn" /\ backup' = backup
      BY <1>8, WriteMoves DEF Moves, MoveIn, At
    <2>2. disk'.live = s
      BY <1>0, <1>1, <1>8, <2>1 DEF MoveIn, Disk
    <2>3. job'[s].pc \notin BeforeMove
      BY <2>1 DEF BeforeMove, Initialising
    <2> QED
      BY <1>0, <1>1, <2>1, <2>2, <2>3 DEF Safe
  <1>9. CASE \E got \in {overlay, NoSecrets} : ReadOverlay(s, got)
    <2>1. /\ job'[s].pc \in {"overlayEnvironments", "overlayDocument"} /\ UNCHANGED <<backup, disk>>
          /\ job'[s].pc = "overlayEnvironments" => job[s].pc = "readForEnvironments"
      BY <1>9, ReadersMove DEF Moves, ReadOverlay, Read, At
    <2>2. job'[s].pc \notin BeforeMove /\ (Holds(s) => Holds(s)')
      BY <2>1 DEF BeforeMove, Initialising, MovedIn, Holds
    <2> QED
      BY <1>1, <1>2, <1>3, <2>1, <2>2
  <1>10. CASE OverlayEnvironments(s)
    <2>1. /\ job'[s].pc \in {"dropBackup", "document"} /\ UNCHANGED backup
          /\ job[s].pc = "overlayEnvironments" /\ disk'.live = disk.live
      BY <1>0, <1>10, WriteMoves DEF Moves, OverlayEnvironments, At, Keep, Disk
    <2>2. job'[s].pc \notin BeforeMove /\ ~Holds(s)
      BY <2>1 DEF BeforeMove, Initialising, MovedIn, Holds
    <2> QED
      BY <1>1, <1>2, <1>3, <2>1, <2>2
  <1>11. CASE DropBackup(s)
    <2>1. /\ job'[s].pc = "document" /\ backup'[s] = Absent /\ disk' = disk
          /\ job[s].pc = "dropBackup"
      BY <1>0, <1>11, WriteMoves DEF Moves, DropBackup, At
    <2>2. ~Holds(s)
      BY <2>1 DEF MovedIn, Holds
    <2> QED
      BY <1>0, <1>2, <1>3, <2>1, <2>2
  <1>12. CASE Rollback(s)
    <2>1. /\ job'[s].pc \in {"restore", "cleanUp"} /\ UNCHANGED <<backup, disk>>
      BY <1>12, WriteMoves DEF Moves, Rollback, KeepDisk
    <2>2. job'[s].pc \notin BeforeMove \cup MovedIn
      BY <2>1 DEF BeforeMove, Initialising, MovedIn
    <2> QED
      BY <1>1, <1>2, <1>3, <2>1, <2>2 DEF Holds
  <1>13. CASE Restore(s)
    <2>1. job'[s].pc = "cleanUp"
      BY <1>13, WriteMoves DEF Moves
    <2>2. job'[s].pc \notin BeforeMove \cup MovedIn
      BY <2>1 DEF BeforeMove, Initialising, MovedIn
    <2>3. \/ disk.live = Absent /\ disk'.live = backup[s] /\ backup'[s] = Absent
          \/ UNCHANGED <<disk, backup>>
      BY <1>0, <1>13 DEF Restore, Disk
    <2> QED
      BY <1>0, <1>1, <1>2, <1>3, <2>1, <2>2, <2>3 DEF Holds
  <1>14. CASE CleanUp(s)
    <2>1. job'[s].pc = "failed" /\ UNCHANGED <<backup, disk>>
      BY <1>14, WriteMoves DEF Moves, CleanUp
    <2>2. job'[s].pc \notin BeforeMove \cup MovedIn
      BY <2>1 DEF BeforeMove, Initialising, MovedIn
    <2> QED
      BY <1>1, <1>2, <1>3, <2>1, <2>2 DEF Holds
  <1> QED
    BY <1>4, <1>5, <1>6, <1>7, <1>8, <1>9, <1>10, <1>11, <1>12, <1>13, <1>14 DEF WriteEnvironments

(* The migration, saves that fail and a crash leave a complete set as well.  *)
LEMMA SwappedPreserved ==
  ASSUME Types, MarkerOrder, Swapped, Next
  PROVE  Swapped' /\ (disk.marker /\ Complete => Complete' \/ spoiled')
  <1>0. /\ Jobs /\ disk \in Disk /\ Startup \notin Save /\ Save \subseteq Job
        /\ ~Whole(Absent) /\ ~Whole(Torn) /\ spoiled \in BOOLEAN
        /\ staging \in [Save -> Directory] /\ backup \in [Save -> Directory]
    BY ProjectStoreAssumption DEF Types, Stored, Job, Whole, Content
  <1> DEFINE
    Staged == \A s \in Save : job[s].pc \in {"look", "moveAway", "moveIn"} => staging[s] = s
    Kept0 == \A s \in Save : backup[s] # Absent =>
               /\ job[s].kind = "metadata" /\ job[s].pc \notin BeforeMove
               /\ disk.marker \/ spoiled
    Found == \A s \in Save : Whole(backup'[s]) => Whole(backup[s]) \/ Holds(s)'
    Keeps == disk.marker /\ ~spoiled' /\ Safe => Safe'
  <1>1. ASSUME Staged', Kept0', Found, Keeps, spoiled => spoiled'
        PROVE  Swapped' /\ (disk.marker /\ Complete => Complete' \/ spoiled')
    <2>1. Safe' => Complete'
      BY DEF Safe, Complete, Holds, Whole
    <2>2. disk.marker /\ Complete /\ ~spoiled' => Safe'
      BY <1>1 DEF Swapped
    <2>3. ASSUME Complete', ~spoiled' PROVE Safe'
      <3>1. CASE Whole(disk'.live)
        BY <3>1 DEF Safe
      <3>2. CASE ~Whole(disk'.live)
        <4>1. PICK s \in Save : Whole(backup'[s])
          BY <2>3, <3>2 DEF Complete, Whole
        <4>2. CASE Whole(backup[s])
          <5>1. backup[s] # Absent /\ Complete
            BY <1>0, <4>2 DEF Whole, Complete
          <5>2. disk.marker
            BY <1>1, <2>3, <5>1 DEF Swapped
          <5> QED
            BY <2>2, <2>3, <5>1, <5>2
        <4>3. CASE Holds(s)'
          BY <4>3 DEF Safe
        <4> QED
          BY <1>1, <4>1, <4>2, <4>3
      <3> QED
        BY <3>1, <3>2
    <2> QED
      BY <1>1, <2>1, <2>2, <2>3 DEF Swapped
  <1>2. Staged /\ Kept0
    BY DEF Swapped
  <1>3. ASSUME NEW s \in Save, Start(s) PROVE Staged' /\ Kept0' /\ Found /\ Keeps
    <2>1. UNCHANGED <<disk, backup, staging, spoiled>>
      BY <1>3 DEF Start
    <2>2. /\ job[s].pc = "unborn" /\ job'[s].pc \in {"promote", "readCollections", "ensure"}
          /\ \A k \in Job : k # s => job'[k].pc = job[k].pc /\ job'[k].kind = job[k].kind
      BY <1>0, <1>3, StartMoves DEF Kind
    <2>3. backup[s] = Absent
      BY <1>2, <2>2 DEF BeforeMove
    <2>4. \A k \in Save : Holds(k) => Holds(k)'
      BY <1>0, <2>1, <2>2, <2>3 DEF Holds
    <2>5. Staged'
      BY <1>0, <1>2, <2>1, <2>2
    <2>6. Kept0'
      BY <1>0, <1>2, <2>1, <2>2, <2>3
    <2>7. Keeps
      BY <2>1, <2>4 DEF Safe
    <2> QED
      BY <2>1, <2>5, <2>6, <2>7
  <1>4. ASSUME Crash PROVE Staged' /\ Kept0' /\ Found /\ Keeps
    <2>1. /\ UNCHANGED <<backup, staging>> /\ (spoiled => spoiled')
          /\ disk.marker /\ ~spoiled' => disk'.live = disk.live /\ disk'.marker
      BY <1>0, <1>4 DEF Crash, Spoils
    <2>2. \A s \in Save : /\ job'[s].pc \in Over /\ job'[s].kind = job[s].kind
                          /\ job'[s].pc \in {job[s].pc, "lost"}
      BY <1>0, <1>4, CrashMoves
    <2>3. Staged'
      BY <2>2 DEF Over
    <2>4. Kept0'
      <3>1. "lost" \notin BeforeMove
        BY DEF BeforeMove, Initialising
      <3>2. \A s \in Save : backup'[s] # Absent =>
              job'[s].kind = "metadata" /\ job'[s].pc \notin BeforeMove
        BY <1>2, <2>1, <2>2, <3>1
      <3>3. \A s \in Save : backup'[s] # Absent => disk'.marker \/ spoiled'
        BY <1>2, <2>1
      <3> QED
        BY <3>2, <3>3
    <2>5. \A s \in Save : Holds(s) => Holds(s)'
      BY <2>1, <2>2 DEF Holds, MovedIn
    <2>6. Keeps
      BY <2>1, <2>5 DEF Safe
    <2> QED
      BY <2>1, <2>3, <2>4, <2>6
  <1>5. ASSUME NEW j \in Job, JobStep(j) PROVE Staged' /\ Kept0' /\ Found /\ Keeps
    <2>0. Frame(j)
      BY <1>5, JobStepFrame
    <2>1. \A k \in Save : k # j => /\ job'[k] = job[k] /\ staging'[k] = staging[k]
                                   /\ backup'[k] = backup[k] /\ (Holds(k) => Holds(k)')
      BY <1>0, <2>0, FrameKeeps DEF Frame, Holds
    <2>2. ASSUME /\ j \in Save => /\ job'[j].pc \in {"look", "moveAway", "moveIn"} => staging'[j] = j
                                  /\ backup'[j] # Absent =>
                                       /\ job[j].kind = "metadata" /\ job'[j].pc \notin BeforeMove
                                       /\ disk.marker \/ spoiled
                                  /\ Whole(backup'[j]) => Whole(backup[j]) \/ Holds(j)'
                 /\ Keeps
          PROVE  Staged' /\ Kept0' /\ Found /\ Keeps
      <3>1. Staged'
        BY <1>2, <2>1, <2>2
      <3>2. Kept0'
        BY <1>0, <1>2, <2>0, <2>1, <2>2, FrameKeeps DEF Frame
      <3>3. Found
        BY <2>1, <2>2
      <3> QED
        BY <2>2, <3>1, <3>2, <3>3
    <2>3. ASSUME disk.marker /\ ~spoiled' /\ Whole(disk.live) => Whole(disk'.live),
                 j \in Save => (Holds(j) => Holds(j)')
          PROVE  Keeps
      BY <2>1, <2>3 DEF Safe
    <2>4. CASE Initialise(j)
      <3>1. /\ UNCHANGED <<backup, staging>>
            /\ j \in Save => /\ job'[j].pc \notin {"look", "moveAway", "moveIn"} \cup MovedIn
                             /\ backup[j] = Absent
            /\ disk.marker /\ ~spoiled' /\ Whole(disk.live) => Whole(disk'.live)
        BY <2>4, InitialiseSwapped
      <3>2. Keeps
        BY <1>0, <2>3, <3>1 DEF Holds
      <3> HIDE DEF Keeps
      <3> QED
        BY <2>2, <3>1, <3>2
    <2>5. CASE Refreshed(j) \/ \E got \in {Snapshot, None} : Refresh(j, got)
      <3>1. UNCHANGED <<disk, backup, staging>>
        BY <2>5 DEF Refreshed, Refresh, Read
      <3>2. \/ job'[j].pc \in {"refreshed", "done"}
            \/ job'[j].pc = "warmed" /\ job[j].pc = "warm"
        BY <2>5, ClosersMove DEF Moves, At
      <3>3. job'[j].pc \notin MovedIn \cup {"look", "moveAway", "moveIn"}
        BY <3>2 DEF MovedIn
      <3>4. Keeps
        BY <2>3, <3>1, <3>3 DEF Holds
      <3> HIDE DEF Keeps
      <3>5. j \in Save /\ backup'[j] # Absent =>
              job[j].kind = "metadata" /\ job'[j].pc \notin BeforeMove /\ (disk.marker \/ spoiled)
        BY <1>2, <3>1, <3>2 DEF BeforeMove, Initialising
      <3> QED
        BY <2>2, <3>1, <3>3, <3>4, <3>5
    <2>9. CASE Warmed(j)
      <3>1. UNCHANGED <<disk, backup, staging>>
        BY <2>9 DEF Warmed
      <3>2. job'[j].pc \in {"stage", "readDocument", "profiles", "done", "ensure"} /\ job[j].pc = "warmed"
        BY <2>9, WarmedGoes
      <3>3. job'[j].pc \notin MovedIn \cup {"look", "moveAway", "moveIn"}
        BY <3>2 DEF MovedIn
      <3>4. j \in Save => backup[j] = Absent
        BY <1>2, <3>2 DEF BeforeMove, Initialising
      <3>5. Keeps
        BY <1>0, <2>3, <3>1, <3>4 DEF Holds
      <3> HIDE DEF Keeps
      <3> QED
        BY <2>2, <3>1, <3>3, <3>4, <3>5
    <2>6. CASE Fails(j)
      <3>1. (disk.marker /\ ~spoiled' => disk'.live = disk.live) /\ staging' = staging
        BY <1>0, <2>6 DEF Fails, Spoils
      <3>2. job'[j].pc \in {"rollback", "failed"}
        BY <2>6, ClosersMove DEF Moves
      <3>3. job'[j].pc \notin BeforeMove \cup MovedIn \cup {"look", "moveAway", "moveIn"}
        BY <3>2 DEF BeforeMove, Initialising, MovedIn
      <3>4. \/ backup' = backup
            \/ job[j].pc = "dropBackup" /\ backup' = [backup EXCEPT ![j] = Torn]
        BY <2>6 DEF Fails, At
      <3>5. ASSUME j \in Save
            PROVE  /\ Whole(backup'[j]) => Whole(backup[j])
                   /\ backup'[j] # Absent => job[j].kind = "metadata" /\ (disk.marker \/ spoiled)
                   /\ Holds(j) => Holds(j)'
        <4>1. CASE backup' = backup
          BY <1>2, <3>3, <3>5, <4>1 DEF Holds
        <4>2. CASE job[j].pc = "dropBackup" /\ backup' = [backup EXCEPT ![j] = Torn]
          <5>1. backup'[j] = Torn /\ ~Holds(j)
            BY <1>0, <3>5, <4>2 DEF Holds, MovedIn
          <5>2. job[j].kind = "metadata" /\ (disk.marker \/ spoiled)
            BY <1>0, <3>5, <4>2 DEF Jobs, JobRecord, Kind, Route, Initialising, Closing, Writing,
                                    MarkerOrder, Opened, Swapping, MovedIn
          <5> QED
            BY <1>0, <5>1, <5>2
        <4> QED
          BY <3>4, <4>1, <4>2
      <3>6. Keeps
        BY <2>3, <3>1, <3>5
      <3> HIDE DEF Keeps
      <3> QED
        BY <2>2, <3>1, <3>3, <3>5, <3>6
    <2>7. CASE j \in Save /\ WriteEnvironments(j)
      <3>1. /\ job'[j].pc \in {"look", "moveAway", "moveIn"} => staging'[j] = j
            /\ backup'[j] # Absent => /\ job[j].kind = "metadata" /\ job'[j].pc \notin BeforeMove
                                      /\ disk.marker \/ spoiled
            /\ Whole(backup'[j]) => Whole(backup[j]) \/ Holds(j)'
            /\ Keeps
        BY <2>7, WriteSwapped
      <3> HIDE DEF Keeps
      <3> QED
        BY <2>2, <3>1
    <2>8. CASE j \in Save /\ WriteOthers(j)
      <3>1. /\ job'[j].pc \in {"readSecrets", "document", "readExisting", "overlayCollections",
                               "readForDocument", "refresh", "readTracked", "track", "done"}
            /\ UNCHANGED <<backup, staging>> /\ disk'.live = disk.live
        BY <2>8, WriteOthersGo
      <3>2. job'[j].pc \notin BeforeMove \cup MovedIn \cup {"look", "moveAway", "moveIn"}
        BY <3>1 DEF BeforeMove, Initialising, MovedIn
      <3>3. Keeps
        BY <2>3, <3>1, <3>2 DEF Holds
      <3> HIDE DEF Keeps
      <3>4. backup'[j] # Absent => job[j].kind = "metadata" /\ (disk.marker \/ spoiled)
        BY <1>2, <2>8, <3>1
      <3> QED
        BY <2>2, <2>8, <3>1, <3>2, <3>3, <3>4
    <2> QED
      BY <1>5, <2>4, <2>5, <2>6, <2>7, <2>8, <2>9 DEF JobStep
  <1>6. spoiled => spoiled'
    <2>1. CASE (\E s \in Save : Start(s)) \/ Crash
      BY <1>0, <2>1 DEF Start, Crash
    <2>2. CASE \E j \in Job : JobStep(j)
      BY <2>2, JobStepFrame DEF Frame
    <2> QED
      BY <2>1, <2>2, NextSplits
  <1> HIDE DEF Staged, Kept0, Found, Keeps
  <1> QED
    BY <1>1, <1>3, <1>4, <1>5, <1>6, NextSplits

-----------------------------------------------------------------------------
(* Jobs that are alone: while the store is intact there is at most one on    *)
(* its way, and it neither initialises the store nor undoes anything unless  *)
(* it is the first migration.                                                *)
OneAtATime ==
  /\ Lonely
  /\ intact => \A j \in Active : job[j].alone
  /\ intact /\ Startup \in Active => Untouched
  /\ intact /\ Startup \notin Active => disk.marker
  /\ intact => \A s \in Save : s \in Active => job[s].pc \notin Unmarked \cup Undoing

LEMMA WriteEnvironmentsGo ==
  ASSUME Types, NEW s \in Save, WriteEnvironments(s)
  PROVE  /\ job'[s].pc \in {"validate", "look", "moveAway", "moveIn", "readForEnvironments",
                            "overlayEnvironments", "overlayDocument", "dropBackup", "document",
                            "restore", "cleanUp", "failed"}
         /\ job'[s].pc \in Undoing \cup Over => job[s].pc \in Undoing
  <1>1. CASE \E got \in {overlay, NoSecrets} : ReadOverlay(s, got)
    BY <1>1, ReadersMove DEF Moves, Undoing, Over
  <1>2. CASE Rollback(s) \/ Restore(s) \/ CleanUp(s)
    BY <1>2, WriteMoves DEF Moves, Rollback, Restore, CleanUp, At, Undoing
  <1>3. CASE Stage(s) \/ Validate(s) \/ Look(s) \/ MoveAway(s) \/ MoveIn(s)
    BY <1>3, WriteMoves DEF Moves, Undoing, Over
  <1>4. CASE OverlayEnvironments(s) \/ DropBackup(s)
    BY <1>4, WriteMoves DEF Moves, Undoing, Over
  <1> QED
    BY <1>1, <1>2, <1>3, <1>4 DEF WriteEnvironments

(* A job is over only when it is done, or has failed.                        *)
LEMMA StaysActive ==
  ASSUME Types, NEW j \in Job, JobStep(j), ~Refreshed(j), intact', job[j].pc \notin Undoing
  PROVE  /\ job'[j].pc \notin {"unborn", "failed", "lost"} \cup Undoing
         /\ job'[j].pc = "done" => job[j].kind = "collection" \/ Warmed(j)
         /\ job'[j].pc \in Unmarked => Initialise(j)
         /\ job'[j].pc = "refreshed" => \E got \in {Snapshot, None} : Refresh(j, got)
  <1>0. Jobs
    BY DEF Types
  <1>1. CASE Initialise(j)
    BY <1>1, InitialiseGoes DEF Initialising, Undoing
  <1>2. CASE \E got \in {Snapshot, None} : Refresh(j, got)
    BY <1>2, ClosersMove DEF Moves, Undoing, Unmarked
  <1>6. CASE Warmed(j)
    BY <1>6, WarmedGoes DEF Undoing, Unmarked
  <1>3. CASE Fails(j)
    BY <1>3 DEF Fails
  <1>4. CASE j \in Save /\ WriteEnvironments(j)
    BY <1>4, WriteEnvironmentsGo DEF Undoing, Over, Unmarked
  <1>5. CASE j \in Save /\ WriteOthers(j)
    <2>1. job'[j].pc \in {"readSecrets", "document", "readExisting", "overlayCollections",
                          "readForDocument", "refresh", "readTracked", "track", "done"}
      BY <1>5, WriteOthersGo
    <2>2. ASSUME job'[j].pc = "done" PROVE job[j].kind = "collection"
      <3>1. job'[j].kind = "collection" \/ Track(j)
        <4>1. ~(WriteDocument(j) \/ OverlayDocument(j) \/ Profiles(j) \/ OverlayCollections(j))
          BY <1>5, <2>2, WriteMoves DEF Moves
        <4>2. ~\E got \in {document, Empty} : ReadDocument(j, got)
          BY <1>5, <2>2, ReadersMove DEF Moves
        <4>3. ~\E got \in {overlay, NoSecrets} : ReadSecrets(j, got)
          BY <1>5, <2>2, ReadersMove DEF Moves
        <4>4. ~\E got \in {overlay, NoSecrets} : ReadCollections(j, got) \/ ReadExisting(j, got)
          BY <1>5, <2>2, ReadersMove DEF Moves
        <4>5. ~\E ok \in BOOLEAN : ReadTracked(j, ok)
          BY <1>5, <2>2, ReadersMove DEF Moves
        <4> QED
          BY <1>5, <4>1, <4>2, <4>3, <4>4, <4>5 DEF WriteOthers
      <3>2. job'[j].kind = job[j].kind
        BY <1>0, JobStepFrame, FrameKeeps
      <3> QED
        BY <1>0, <1>5, <3>1, <3>2, ProjectStoreAssumption
           DEF Track, At, Jobs, JobRecord, Kind, Route, Initialising, Closing, Writing, Swapping,
               MovedIn, Undoing
    <2> QED
      BY <2>1, <2>2 DEF Undoing, Unmarked
  <1> QED
    BY <1>1, <1>2, <1>3, <1>4, <1>5, <1>6 DEF JobStep

LEMMA OneAtATimePreserved ==
  ASSUME Types, MarkerOrder, OneAtATime, Next
  PROVE  OneAtATime'
  <1>0. Jobs /\ Startup \in Job /\ Startup \notin Save /\ Save \subseteq Job
    BY ProjectStoreAssumption DEF Types, Job
  <1>1. ASSUME NEW s \in Save, Start(s) PROVE OneAtATime'
    <2>1. /\ Startup \notin Active /\ job[s].pc = "unborn" /\ job'[s].alone = (Active = {})
          /\ \A k \in Job : k # s => job'[k].pc = job[k].pc /\ ~job'[k].alone
          /\ job'[s].pc \in {"promote", "readCollections", "ensure"}
      BY <1>0, <1>1, StartMoves DEF Kind
    <2>2. Active' = Active \cup {s} /\ Startup \notin Active'
      BY <1>0, <2>1 DEF Active, Over
    <2>3. intact' = (intact /\ Active = {}) /\ disk' = disk
      BY <1>1 DEF Start
    <2>4. \A j \in Active' : job'[j].alone => Active' = {j}
      BY <1>0, <2>1, <2>2 DEF Active
    <2>5. intact' => \A j \in Active' : job'[j].alone
      BY <2>1, <2>2, <2>3
    <2>6. intact' => disk'.marker
      BY <2>1, <2>3 DEF OneAtATime, Lonely
    <2>7. intact' => \A k \in Save : k \in Active' => job'[k].pc \notin Unmarked \cup Undoing
      BY <2>1, <2>2, <2>3 DEF Unmarked, Undoing
    <2> QED
      BY <2>2, <2>4, <2>5, <2>6, <2>7 DEF OneAtATime, Lonely
  <1>2. ASSUME Crash PROVE OneAtATime'
    <2>1. Active' \subseteq {Startup} /\ ~intact'
      BY <1>0, <1>2, CrashMoves DEF Active, Job, Crash
    <2> QED
      BY <2>1 DEF OneAtATime, Lonely
  <1>3. ASSUME NEW j \in Job, JobStep(j) PROVE OneAtATime'
    <2>0. Frame(j) /\ j \in Active /\ (intact' /\ disk.marker => disk'.marker)
      BY <1>3, JobStepFrame DEF Frame, Fails
    <2>1. Active' \subseteq Active
      BY <1>0, <2>0, FrameKeeps
    <2>2. \A k \in Active' : job'[k].alone => Active' = {k}
      BY <1>0, <2>0, <2>1, FrameKeeps DEF OneAtATime, Lonely, Active
    <2>3. ASSUME Refreshed(j), intact'
          PROVE  disk'.marker /\ (Active' = {} \/ intact)
      <3>1. disk' = disk /\ disk.marker
        BY <2>0, <2>3 DEF Refreshed, At, MarkerOrder, Opened, OneAtATime
      <3>2. job'[j].pc = "done"
        BY <2>3, ClosersMove DEF Moves
      <3>3. ~intact => Active = {j}
        BY <2>0, <2>3 DEF Refreshed, OneAtATime, Lonely
      <3>4. j \notin Active'
        BY <3>2 DEF Active, Over
      <3> QED
        BY <2>1, <3>1, <3>3, <3>4
    <2>4. CASE intact' /\ Active' # {}
      <3>0. intact
        BY <2>0, <2>3, <2>4 DEF Frame
      <3>1. \A k \in Active' : job'[k].alone
        BY <1>0, <2>0, <2>1, <2>4, <3>0, FrameKeeps DEF OneAtATime, Lonely, Active
      <3>2. Startup \in Active' => Untouched'
        <4> SUFFICES ASSUME Startup \in Active' PROVE Untouched'
          OBVIOUS
        <4>1. j = Startup /\ Untouched
          BY <2>0, <2>1, <3>0 DEF MarkerOrder, OneAtATime, Lonely
        <4> QED
          BY <1>0, <2>0, <4>1, FrameKeeps DEF Untouched, At
      <3>3. Startup \notin Active' => disk'.marker
        <4> SUFFICES ASSUME Startup \notin Active', Startup \in Active PROVE disk'.marker
          BY <2>0, <2>4, <3>0 DEF OneAtATime, Lonely
        <4>1. Active = {Startup}
          BY DEF MarkerOrder
        <4> QED
          BY <2>1, <2>4, <4>1
      <3>4. ASSUME NEW s \in Save, s \in Active' PROVE job'[s].pc \notin Unmarked \cup Undoing
        <4>1. job[s].pc \notin Unmarked \cup Undoing /\ s \in Active
          BY <2>1, <3>0, <3>4 DEF OneAtATime, Lonely
        <4>2. CASE s # j
          BY <1>0, <2>0, <4>1, <4>2, FrameKeeps
        <4>3. CASE s = j
          <5>1. Startup \notin Active
            BY <1>0, <4>1, <4>3 DEF MarkerOrder
          <5>2. disk.marker
            BY <3>0, <5>1 DEF OneAtATime, Lonely
          <5>3. ~Refreshed(s)
            <6>1. Refreshed(s) => job'[s].pc = "done"
              BY <1>0, ClosersMove DEF Moves
            <6> QED
              BY <3>4, <6>1 DEF Active, Over
          <5>4. job'[s].pc \notin Undoing
            BY <1>0, <1>3, <2>4, <4>1, <4>3, <5>3, StaysActive
          <5>5. ASSUME job'[s].pc \in Unmarked PROVE FALSE
            <6>1. Initialise(s)
              BY <1>0, <1>3, <2>4, <4>1, <4>3, <5>3, <5>5, StaysActive
            <6>2. ~(Directories(s) \/ FirstFile(s) \/ LastFile(s) \/ InitDocument(s)
                    \/ InitProfiles(s) \/ InitOverlay(s) \/ Marker(s))
              BY <4>1 DEF Directories, FirstFile, LastFile, InitDocument, InitProfiles, InitOverlay,
                          Marker, At, Unmarked
            <6>3. ~Promote(s)
              BY <1>0, <5>5, InitialiseMoves DEF Moves, Unmarked
            <6>4. Ensure(s)
              BY <6>1, <6>2, <6>3 DEF Initialise
            <6>5. job'[s].pc = "warm"
              BY <1>0, <5>2, <6>4, InitialiseMoves DEF Moves
            <6> QED
              BY <5>5, <6>5 DEF Unmarked
          <5> QED
            BY <4>3, <5>4, <5>5
        <4> QED
          BY <4>2, <4>3
      <3> QED
        BY <2>2, <3>1, <3>2, <3>3, <3>4 DEF OneAtATime, Lonely
    <2>5. CASE intact' /\ Active' = {}
      <3>1. disk'.marker
        <4>1. CASE Refreshed(j)
          BY <2>3, <2>5, <4>1
        <4>2. CASE ~Refreshed(j)
          <5>0. intact /\ j \notin Active'
            BY <2>0, <2>5, <4>2 DEF Frame
          <5>1. CASE j = Startup
            <6>1. job[j].pc \notin Undoing
              BY <1>0, <5>1 DEF Jobs, Route, Undoing, Initialising
            <6>2. job'[j].pc \in Over
              BY <5>0 DEF Active
            <6>3. Warmed(j)
              BY <1>0, <1>3, <2>5, <4>2, <5>1, <6>1, <6>2, StaysActive DEF Over, Jobs
            <6>4. disk' = disk /\ job[j].pc \in Opened /\ job[j].alone
              BY <2>0, <5>0, <6>3 DEF Warmed, At, Opened, OneAtATime
            <6> QED
              BY <6>4 DEF MarkerOrder
          <5>2. CASE j # Startup
            <6>1. Startup \notin Active
              BY <2>0, <5>2 DEF MarkerOrder
            <6> QED
              BY <2>0, <2>5, <5>0, <6>1 DEF OneAtATime, Lonely
          <5> QED
            BY <5>1, <5>2
        <4> QED
          BY <4>1, <4>2
      <3> QED
        BY <2>5, <3>1 DEF OneAtATime, Lonely
    <2>6. CASE ~intact'
      BY <2>2, <2>6 DEF OneAtATime, Lonely
    <2> QED
      BY <2>4, <2>5, <2>6
  <1> QED
    BY <1>1, <1>2, <1>3, NextSplits

-----------------------------------------------------------------------------
(* A whole save of environments that has the store to itself: what it wrote  *)
(* so far is what is there.                                                  *)
Written(s) ==
  /\ job[s].pc \in MovedIn \cup Writing \cup {"refresh", "refreshed"} => disk.live = s
  /\ job[s].pc \in {"dropBackup", "refresh", "refreshed"} \cup Writing =>
       disk.overlay # Torn /\ disk.overlay.environments = s
  /\ job[s].pc \in {"readForDocument", "overlayDocument", "refresh", "refreshed"} => disk.document = s
  /\ job[s].pc \in {"readForDocument", "overlayDocument"} => job[s].variables = s
  /\ job[s].pc = "overlayDocument" => job[s].secrets.environments = s
  /\ job[s].pc \in {"refresh", "refreshed"} => disk.overlay.workspace = s

WholeSave == \A s \in Save : job[s].kind = "metadata" /\ job[s].alone => Written(s)

LEMMA WriteLeavesWritten ==
  ASSUME Types, Swapped, NEW s \in Save, job[s].kind = "metadata", job'[s].alone, job[s].alone,
         Written(s), WriteEnvironments(s) \/ WriteOthers(s)
  PROVE  Written(s)'
  <1>0. /\ Jobs /\ disk \in Disk /\ s \in Job /\ Torn \notin Sensitive /\ NoSecrets \in Sensitive
        /\ staging \in [Save -> Directory] /\ job[s] \in JobRecord /\ s \in Content
        /\ Route("metadata", job[s].pc)
    BY ReadTypes, ProjectStoreAssumption DEF Types, Stored, Job, Jobs, Content
  <1>1. CASE \/ Stage(s) \/ Validate(s) \/ Look(s) \/ MoveAway(s) \/ Rollback(s) \/ Restore(s)
             \/ CleanUp(s)
    <2>1. job'[s].pc \in {"validate", "look", "moveAway", "moveIn", "restore", "cleanUp", "failed"}
      BY <1>1, WriteMoves DEF Moves
    <2> QED
      BY <2>1 DEF Written, MovedIn, Writing
  <1>2. CASE MoveIn(s)
    <2>1. job'[s].pc = "readForEnvironments" /\ job[s].pc = "moveIn"
      BY <1>2, WriteMoves DEF Moves, MoveIn, At
    <2>2. disk'.live = s
      BY <1>0, <1>2, <2>1 DEF MoveIn, Swapped, Disk
    <2> QED
      BY <2>1, <2>2 DEF Written, Writing
  <1>3. CASE OverlayEnvironments(s)
    <2>1. job'[s].pc \in {"dropBackup", "document"} /\ job[s].pc = "overlayEnvironments"
      BY <1>3, WriteMoves DEF Moves, OverlayEnvironments, At
    <2>2. disk'.live = disk.live
          /\ disk'.overlay = [NoSecrets EXCEPT !.workspace = job[s].secrets.workspace, !.environments = s]
      BY <1>0, <1>3 DEF OverlayEnvironments, Disk
    <2>3. disk'.overlay \in Sensitive /\ disk'.overlay.environments = s
      BY <1>0, <2>2 DEF Sensitive, JobRecord
    <2>4. disk.live = s
      BY <2>1 DEF Written, MovedIn
    <2> QED
      BY <1>0, <2>1, <2>2, <2>3, <2>4 DEF Written
  <1>4. CASE DropBackup(s)
    <2>1. job'[s].pc = "document" /\ job[s].pc = "dropBackup" /\ disk' = disk
      BY <1>4, WriteMoves DEF Moves, DropBackup, At
    <2> QED
      BY <2>1 DEF Written, MovedIn
  <1>5. CASE WriteDocument(s)
    <2>1. job'[s].pc = "readForDocument" /\ job[s].pc = "document" /\ ~Kept(s)
      BY <1>5, WriteMoves DEF Moves, WriteDocument, At, Kept
    <2>2. disk'.document = s /\ disk'.live = disk.live /\ disk'.overlay = disk.overlay
      BY <1>0, <1>5, <2>1 DEF WriteDocument, Disk
    <2>3. job' = [job EXCEPT ![s].variables = s, ![s].pc = "readForDocument"]
      BY <1>5, <2>1 DEF WriteDocument
    <2>4. job'[s].variables = s
      BY <1>0, <2>3 DEF Jobs, JobRecord
    <2>5. disk.live = s /\ disk.overlay # Torn /\ disk.overlay.environments = s
      BY <2>1 DEF Written, Writing
    <2> QED
      BY <2>1, <2>2, <2>4, <2>5 DEF Written
  <1>6. CASE \E got \in {overlay, NoSecrets} : ReadOverlay(s, got)
    <2>1. PICK got \in {overlay, NoSecrets} : ReadOverlay(s, got)
      BY <1>6
    <2>2. /\ Moves(s, IF At(s, "readForEnvironments") THEN "overlayEnvironments" ELSE "overlayDocument")
          /\ job'[s].secrets = got /\ job'[s].variables = job[s].variables /\ got = overlay
      BY <2>1, ReadersMove
    <2>3. disk' = disk
      BY <2>1 DEF ReadOverlay, Read
    <2>4. CASE At(s, "readForEnvironments")
      BY <2>2, <2>3, <2>4 DEF Moves, At, Written, MovedIn, Writing
    <2>5. CASE ~At(s, "readForEnvironments")
      <3>1. job'[s].pc = "overlayDocument" /\ job[s].pc = "readForDocument"
        BY <2>1, <2>2, <2>5 DEF Moves, ReadOverlay, At
      <3>2. /\ disk.live = s /\ disk.overlay # Torn /\ disk.overlay.environments = s
            /\ disk.document = s /\ job[s].variables = s
        BY <3>1 DEF Written, Writing
      <3>3. job'[s].secrets.environments = s
        BY <2>2, <3>2 DEF overlay
      <3> QED
        BY <2>2, <2>3, <3>1, <3>2, <3>3 DEF Written
    <2> QED
      BY <2>4, <2>5
  <1>7. CASE OverlayDocument(s)
    <2>1. job'[s].pc = "refresh" /\ job[s].pc = "overlayDocument"
      BY <1>7, WriteMoves DEF Moves, OverlayDocument, At
    <2>2. /\ disk'.live = disk.live /\ disk'.document = disk.document
          /\ disk'.overlay = [NoSecrets EXCEPT !.workspace = job[s].variables,
                                               !.environments = job[s].secrets.environments]
      BY <1>0, <1>7 DEF OverlayDocument, Disk
    <2>3. disk'.overlay \in Sensitive /\ disk'.overlay.environments = job[s].secrets.environments
          /\ disk'.overlay.workspace = job[s].variables
      BY <1>0, <2>2 DEF Sensitive, JobRecord
    <2>4. /\ disk.live = s /\ disk.document = s /\ job[s].variables = s
          /\ job[s].secrets.environments = s
      BY <2>1 DEF Written, Writing
    <2> QED
      BY <1>0, <2>1, <2>2, <2>3, <2>4 DEF Written
  <1>8. ~(Profiles(s) \/ OverlayCollections(s) \/ Track(s)
          \/ (\E got \in {document, Empty} : ReadDocument(s, got))
          \/ (\E ok \in BOOLEAN : ReadTracked(s, ok))
          \/ \E got \in {overlay, NoSecrets} :
               ReadSecrets(s, got) \/ ReadCollections(s, got) \/ ReadExisting(s, got))
    BY <1>0 DEF Profiles, OverlayCollections, Track, ReadDocument, ReadTracked, ReadSecrets,
                ReadCollections, ReadExisting, At, Route, Initialising, Closing, Writing, Swapping, MovedIn, Undoing
  <1> QED
    BY <1>1, <1>2, <1>3, <1>4, <1>5, <1>6, <1>7, <1>8 DEF WriteEnvironments, WriteOthers

LEMMA WholeSavePreserved ==
  ASSUME Types, Swapped, OneAtATime, WholeSave, Next
  PROVE  WholeSave'
  <1>0. Jobs /\ Save \subseteq Job /\ disk \in Disk
    BY DEF Types, Job, Stored
  <1> SUFFICES ASSUME NEW s \in Save, job'[s].kind = "metadata", job'[s].alone
               PROVE  Written(s)'
    BY DEF WholeSave
  <1> DEFINE Late == MovedIn \cup Writing \cup {"refresh", "refreshed"}
  <1>1. job'[s].pc \notin Late => Written(s)'
    BY DEF Written, MovedIn, Writing
  <1>2. ASSUME NEW k \in Save, Start(k) PROVE job'[s].pc \notin Late
    <2>1. s = k
      BY <1>0, <1>2, StartMoves
    <2>2. job'[k].pc \in {"promote", "readCollections", "ensure"}
      BY <1>2, <1>0, StartMoves DEF Kind
    <2> QED
      BY <2>1, <2>2 DEF MovedIn, Writing
  <1>3. ASSUME Crash PROVE job'[s].pc \notin Late
    BY <1>0, <1>3, CrashMoves DEF Over, MovedIn, Writing
  <1>4. ASSUME NEW j \in Job, JobStep(j) PROVE Written(s)'
    <2>0. Frame(j) /\ job[s].alone /\ job[s].kind = "metadata" /\ j \in Active /\ Written(s)
      BY <1>0, <1>4, JobStepFrame, FrameKeeps DEF Frame, WholeSave
    <2>1. CASE s # j
      <3>1. job'[s] = job[s]
        BY <1>0, <2>0, <2>1, FrameKeeps
      <3>2. s \notin Active
        BY <2>0, <2>1 DEF OneAtATime, Lonely
      <3>3. job[s].pc \notin Late
        BY <1>0, <3>2 DEF Active, Over, MovedIn, Writing
      <3> QED
        BY <1>1, <3>1, <3>3
    <2>2. CASE s = j
      <3>1. CASE Initialise(s)
        <4>1. job'[s].pc \notin Late
          BY <1>0, <3>1, InitialiseGoes DEF Initialising, MovedIn, Writing
        <4> QED
          BY <1>1, <4>1
      <3>2. CASE Refreshed(s) \/ Fails(s)
        <4>1. job'[s].pc \in {"done", "rollback", "failed"}
          BY <1>0, <3>2, ClosersMove DEF Moves
        <4>2. job'[s].pc \notin Late
          BY <4>1 DEF MovedIn, Writing
        <4> QED
          BY <1>1, <4>2
      <3>3. CASE \E got \in {Snapshot, None} : Refresh(s, got)
        <4>1. /\ disk' = disk
              /\ job'[s].pc = "warmed" \/ (job'[s].pc = "refreshed" /\ job[s].pc = "refresh")
          BY <1>0, <3>3, ClosersMove DEF Moves, Refresh, Read, At
        <4> QED
          BY <2>0, <4>1 DEF Written, MovedIn, Writing
      <3>5. CASE Warmed(s)
        <4>1. job'[s].pc \notin Late
          BY <1>0, <3>5, WarmedGoes DEF MovedIn, Writing
        <4> QED
          BY <1>1, <4>1
      <3>4. CASE WriteEnvironments(s) \/ WriteOthers(s)
        BY <2>0, <3>4, WriteLeavesWritten
      <3> QED
        BY <1>4, <2>2, <3>1, <3>2, <3>3, <3>4, <3>5 DEF JobStep
    <2> QED
      BY <2>1, <2>2
  <1> QED
    BY <1>1, <1>2, <1>3, <1>4, NextSplits

-----------------------------------------------------------------------------
(* What a job that is alone is about to put into the cache is what is there. *)
Seeing == \A j \in Job :
  job[j].alone /\ job[j].pc \in {"warmed", "refreshed"} => job[j].seen = Snapshot

LEMMA SeeingPreserved ==
  ASSUME Types, OneAtATime, Seeing, Next
  PROVE  Seeing'
  <1>0. Jobs /\ Save \subseteq Job
    BY DEF Types, Job
  <1> SUFFICES ASSUME NEW k \in Job, job'[k].alone, job'[k].pc \in {"warmed", "refreshed"}
               PROVE  (job[k].seen = Snapshot)'
    BY DEF Seeing
  <1>1. ASSUME NEW s \in Save, Start(s) PROVE FALSE
    BY <1>0, <1>1, StartMoves DEF Kind
  <1>2. ASSUME Crash PROVE FALSE
    BY <1>0, <1>2, CrashMoves DEF Over, Job
  <1>3. ASSUME NEW j \in Job, JobStep(j) PROVE (job[k].seen = Snapshot)'
    <2>0. Frame(j) /\ job[k].alone /\ j \in Active
      BY <1>0, <1>3, JobStepFrame, FrameKeeps DEF Frame
    <2>1. k = j
      <3> SUFFICES ASSUME k # j PROVE FALSE
        OBVIOUS
      <3>1. job[k].pc \in {"warmed", "refreshed"}
        BY <1>0, <2>0, FrameKeeps
      <3>2. k \in Active
        BY <3>1 DEF Active, Over
      <3> QED
        BY <2>0, <3>2 DEF OneAtATime, Lonely
    <2>2. PICK got \in {Snapshot, None} : Refresh(j, got)
      <3>1. ~Initialise(j)
        BY <1>0, <2>1, InitialiseMoves DEF Initialise, Moves
      <3>2. ~Refreshed(j) /\ ~Fails(j) /\ ~Warmed(j)
        BY <2>1, ClosersMove, WarmedGoes DEF Moves
      <3>3. ~(j \in Save /\ WriteEnvironments(j))
        BY <2>1, WriteEnvironmentsGo
      <3>4. ~(j \in Save /\ WriteOthers(j))
        BY <2>1, WriteOthersGo
      <3> QED
        BY <1>3, <3>1, <3>2, <3>3, <3>4 DEF JobStep
    <2>3. job'[j].seen = got /\ got = Snapshot
      BY <2>1, <2>2, ClosersMove
    <2>4. disk' = disk
      BY <2>2 DEF Refresh, Read
    <2>5. Snapshot' = Snapshot
      BY <2>4 DEF Snapshot, document, overlay
    <2> QED
      BY <2>1, <2>3, <2>5
  <1> QED
    BY <1>1, <1>2, <1>3, NextSplits

-----------------------------------------------------------------------------
(* An intact store with no save of environments under way: everything        *)
(* belongs together, and what a save carries along is what is there.         *)
Belongs ==
  /\ disk.overlay # Torn /\ disk.live = disk.overlay.environments
  /\ disk.document = disk.overlay.workspace

Carries(j) ==
  /\ job[j].kind = "active" =>
       /\ job[j].pc \in {"readSecrets", "document"} => job[j].variables = disk.document
       /\ job[j].pc = "document" => job[j].secrets.workspace = disk.overlay.workspace
       /\ job[j].pc \in {"readForDocument", "overlayDocument"} =>
            job[j].variables = disk.overlay.workspace
       /\ job[j].pc = "overlayDocument" =>
            job[j].secrets.environments = disk.overlay.environments
  /\ job[j].pc = "overlayCollections" =>
       /\ job[j].secrets.workspace = disk.overlay.workspace
       /\ job[j].secrets.environments = disk.overlay.environments

Minor(j) == j # Startup /\ job[j].kind # "metadata"

Undisturbed ==
  intact => /\ (\A j \in Active : Minor(j)) => Belongs /\ cache = Snapshot
            /\ \A j \in Active : Carries(j)

SameDocuments ==
  /\ disk'.live = disk.live /\ disk'.document = disk.document /\ disk'.overlay # Torn
  /\ disk'.overlay.workspace = disk.overlay.workspace
  /\ disk'.overlay.environments = disk.overlay.environments

LEMMA SameSnapshot ==
  ASSUME Types, Types', Belongs, SameDocuments, disk.marker, disk'.marker
  PROVE  Belongs' /\ Snapshot' = Snapshot
  <1>1. disk.document \in Content /\ disk \in Disk /\ disk' \in Disk /\ Torn \notin Content
    BY ProjectStoreAssumption DEF Types, Stored, Belongs, Disk, Sensitive, Content, Job
  <1>2. Belongs'
    BY DEF Belongs, SameDocuments
  <1>3. document' = document /\ overlay'.workspace = overlay.workspace
        /\ overlay'.environments = overlay.environments
    BY DEF Belongs, SameDocuments, document, overlay
  <1>4. Snapshot' = Snapshot
    BY <1>1, <1>3 DEF Snapshot, SameDocuments
  <1> QED
    BY <1>2, <1>4

LEMMA MinorKeeps ==
  ASSUME Types, OneAtATime, NEW j \in Save, Belongs, Carries(j), Minor(j), job[j].alone, disk.marker,
         Seeing, cache = Snapshot, intact', job[j].pc \notin Unmarked \cup Undoing, JobStep(j), ~Refreshed(j)
  PROVE  SameDocuments /\ Carries(j)' /\ cache' = cache
  <1>0. /\ Jobs /\ disk \in Disk /\ j \in Job /\ job[j] \in JobRecord /\ Torn \notin Sensitive
        /\ NoSecrets \in Sensitive /\ disk.overlay \in Sensitive /\ overlay = disk.overlay
        /\ job[j].kind \in {"active", "profiles", "collection", "migration"} /\ Route(job[j].kind, job[j].pc)
    BY ReadTypes, ProjectStoreAssumption
       DEF Types, Stored, Job, Jobs, Disk, Belongs, overlay, Minor, JobRecord, Kind
  <1>1. job'[j].kind = job[j].kind
    BY <1>0, JobStepFrame, FrameKeeps
  <1>2. document = disk.document
    BY <1>0, ProjectStoreAssumption DEF document, Belongs, Sensitive, Content, Job
  <1>3. ASSUME disk' = disk PROVE SameDocuments
    BY <1>3 DEF SameDocuments, Belongs
  <1>4. CASE Initialise(j)
    <2>1. Promote(j) \/ Ensure(j)
      BY <1>4 DEF Initialise, Directories, FirstFile, LastFile, InitDocument, InitProfiles,
                  InitOverlay, Marker, At, Unmarked
    <2>2. disk' = disk /\ cache' = cache
      BY <2>1 DEF Promote, Ensure, KeepDisk
    <2>3. Carries(j)'
      <3>1. job'[j].pc \notin {"readSecrets", "document", "readForDocument", "overlayDocument",
                              "overlayCollections"}
        BY <1>0, <1>4, InitialiseGoes DEF Initialising
      <3> QED
        BY <3>1 DEF Carries
    <2> QED
      BY <1>3, <2>2, <2>3
  <1>5. CASE \E got \in {Snapshot, None} : Refresh(j, got)
    <2>1. disk' = disk /\ cache' = cache
      BY <1>5 DEF Refresh, Read
    <2>2. job'[j].pc \in {"warmed", "refreshed"}
      BY <1>5, <1>0, ClosersMove DEF Moves
    <2> QED
      BY <1>3, <2>1, <2>2 DEF Carries
  <1>6. CASE Warmed(j)
    <2>1. disk' = disk /\ cache' = job[j].seen
      BY <1>6 DEF Warmed
    <2>2. job[j].pc = "warmed" /\ job'[j].pc \in {"stage", "readDocument", "profiles", "done", "ensure"}
      BY <1>0, <1>6, WarmedGoes
    <2>3. job[j].seen = Snapshot
      BY <1>0, <2>2 DEF Seeing
    <2> QED
      BY <1>3, <2>1, <2>2, <2>3 DEF Carries
  <1>7. ~Fails(j)
    BY DEF Fails
  <1>8. CASE \E got \in {document, Empty} : ReadDocument(j, got)
    <2>1. PICK got \in {document, Empty} : ReadDocument(j, got)
      BY <1>8
    <2>2. Moves(j, IF got = Empty THEN "document" ELSE "readSecrets")
          /\ job'[j].variables = got /\ job'[j].secrets = NoSecrets
          /\ job'[j].alone = (job[j].alone /\ got = document)
      BY <2>1, ReadersMove
    <2>3. disk' = disk /\ cache' = cache /\ intact' = (intact /\ got = document)
      BY <2>1 DEF ReadDocument, Read
    <2>4. job'[j].pc \in {"document", "readSecrets"} /\ (job'[j].pc = "document" => got = Empty)
      BY <2>2 DEF Moves
    <2>5. got = disk.document /\ disk.overlay.workspace = disk.document
      BY <1>2, <2>3 DEF Belongs
    <2>6. NoSecrets.workspace = Empty
      BY DEF NoSecrets
    <2> QED
      BY <1>3, <2>2, <2>3, <2>4, <2>5, <2>6 DEF Carries
  <1>9. CASE \E got \in {overlay, NoSecrets} : ReadSecrets(j, got)
    <2>1. PICK got \in {overlay, NoSecrets} : ReadSecrets(j, got)
      BY <1>9
    <2>0. got = overlay
      BY <2>1 DEF ReadSecrets, Read
    <2>2. /\ Moves(j, "document") /\ job'[j].variables = job[j].variables
          /\ job'[j].secrets = got
      BY <2>1, ReadersMove
    <2>3. disk' = disk /\ cache' = cache /\ job[j].pc = "readSecrets"
      BY <2>1 DEF ReadSecrets, Read, At
    <2>4. job[j].kind = "active" => job[j].variables = disk.document
      BY <2>3 DEF Carries
    <2> QED
      BY <1>0, <1>1, <1>3, <2>0, <2>2, <2>3, <2>4 DEF Carries, Moves
  <1>10. CASE \E got \in {overlay, NoSecrets} : ReadOverlay(j, got)
    <2>1. PICK got \in {overlay, NoSecrets} : ReadOverlay(j, got)
      BY <1>10
    <2>2. job[j].pc = "readForDocument"
      BY <1>0, <2>1 DEF ReadOverlay, At, Route, Initialising, Closing, Writing
    <2>0. got = overlay
      BY <2>1 DEF ReadOverlay, Read
    <2>3. /\ job'[j].pc = "overlayDocument" /\ job'[j].variables = job[j].variables
          /\ job'[j].secrets = got
      BY <2>1, <2>2, ReadersMove DEF Moves, At
    <2>4. disk' = disk /\ cache' = cache
      BY <2>1 DEF ReadOverlay, Read
    <2>5. job[j].kind = "active" => job[j].variables = disk.overlay.workspace
      BY <2>2 DEF Carries
    <2> QED
      BY <1>0, <1>1, <1>3, <2>0, <2>3, <2>4, <2>5 DEF Carries
  <1>11. CASE \E got \in {overlay, NoSecrets} : ReadCollections(j, got)
    <2>1. job'[j].pc = "readExisting"
      BY <1>11, ReadersMove DEF Moves
    <2>2. disk' = disk /\ cache' = cache
      BY <1>11 DEF ReadCollections, Read
    <2> QED
      BY <1>3, <2>1, <2>2 DEF Carries
  <1>12. CASE \E got \in {overlay, NoSecrets} : ReadExisting(j, got)
    <2>1. PICK got \in {overlay, NoSecrets} : ReadExisting(j, got)
      BY <1>12
    <2>0. got = overlay
      BY <2>1 DEF ReadExisting, Read
    <2>2. /\ Moves(j, "overlayCollections") /\ job'[j].secrets.workspace = got.workspace
          /\ job'[j].secrets.environments = got.environments
      BY <2>1, ReadersMove
    <2>3. disk' = disk /\ cache' = cache
      BY <2>1 DEF ReadExisting, Read
    <2> QED
      BY <1>0, <1>3, <2>0, <2>2, <2>3 DEF Carries, Moves
  <1>13. CASE WriteDocument(j)
    <2>1. job'[j].pc = "readForDocument" /\ job[j].pc = "document" /\ cache' = cache
      BY <1>13, WriteMoves DEF Moves, WriteDocument, At, Keep
    <2>2. job[j].kind = "active"
      BY <1>0, <2>1 DEF Route, Initialising, Closing
    <2>3. disk' = [disk EXCEPT !.document = job[j].variables]
      BY <1>13, <2>2 DEF WriteDocument, Kept
    <2>4. job[j].variables = disk.document /\ job[j].secrets.workspace = disk.overlay.workspace
      BY <2>1, <2>2 DEF Carries
    <2>5. SameDocuments /\ disk'.overlay = disk.overlay
      BY <1>0, <2>3, <2>4 DEF SameDocuments, Disk
    <2> DEFINE v == job[j].secrets.workspace
    <2>6. job' = [job EXCEPT ![j].variables = v, ![j].pc = "readForDocument"]
      BY <1>13, <2>2 DEF WriteDocument, Kept
    <2> HIDE DEF v
    <2>7. job'[j].variables = v
      BY <1>0, <2>6 DEF Jobs, JobRecord
    <2> QED
      BY <2>1, <2>4, <2>5, <2>7 DEF Carries, v
  <1>14. CASE OverlayDocument(j)
    <2>1. job'[j].pc = "refresh" /\ job[j].pc = "overlayDocument" /\ cache' = cache
      BY <1>14, WriteMoves DEF Moves, OverlayDocument, At, Keep
    <2>2. job[j].kind = "active"
      BY <1>0, <2>1 DEF Route, Initialising, Closing
    <2>3. job[j].variables = disk.overlay.workspace
          /\ job[j].secrets.environments = disk.overlay.environments
      BY <2>1, <2>2 DEF Carries
    <2>4. /\ disk'.live = disk.live /\ disk'.document = disk.document
          /\ disk'.overlay = [NoSecrets EXCEPT !.workspace = job[j].variables,
                                               !.environments = job[j].secrets.environments]
      BY <1>0, <1>14 DEF OverlayDocument, Disk
    <2>5. disk'.overlay \in Sensitive /\ disk'.overlay.environments = job[j].secrets.environments
          /\ disk'.overlay.workspace = job[j].variables
      BY <1>0, <2>4 DEF Sensitive, JobRecord
    <2> QED
      BY <1>0, <2>1, <2>3, <2>4, <2>5 DEF Carries, SameDocuments
  <1>15. CASE Profiles(j) \/ Track(j)
    <2>1. job'[j].pc \in {"refresh", "done"} /\ cache' = cache
      BY <1>15, WriteMoves DEF Moves, Profiles, Track, Keep, KeepDisk
    <2>2. disk'.live = disk.live /\ disk'.document = disk.document /\ disk'.overlay = disk.overlay
      BY <1>0, <1>15 DEF Profiles, Track, KeepDisk, Disk
    <2> QED
      BY <2>1, <2>2 DEF Carries, SameDocuments, Belongs
  <1>16. CASE OverlayCollections(j)
    <2>1. job'[j].pc = "readTracked" /\ job[j].pc = "overlayCollections" /\ cache' = cache
      BY <1>16, WriteMoves DEF Moves, OverlayCollections, At, Keep
    <2>2. disk'.live = disk.live /\ disk'.document = disk.document /\ disk'.overlay = job[j].secrets
      BY <1>0, <1>16 DEF OverlayCollections, Disk
    <2>3. job[j].secrets \in Sensitive
      BY <1>0 DEF JobRecord
    <2> QED
      BY <1>0, <2>1, <2>2, <2>3 DEF Carries, SameDocuments
  <1>17. CASE \E ok \in BOOLEAN : ReadTracked(j, ok)
    <2>1. job'[j].pc = "track"
      BY <1>17, ReadersMove DEF Moves
    <2>2. disk' = disk /\ cache' = cache
      BY <1>17 DEF ReadTracked, Read
    <2> QED
      BY <1>3, <2>1, <2>2 DEF Carries
  <1>18. ~(\/ Stage(j) \/ Validate(j) \/ Look(j) \/ MoveAway(j) \/ MoveIn(j) \/ OverlayEnvironments(j)
           \/ DropBackup(j) \/ Rollback(j) \/ Restore(j) \/ CleanUp(j))
    BY <1>0 DEF Stage, Validate, Look, MoveAway, MoveIn, OverlayEnvironments, DropBackup, Rollback,
                Restore, CleanUp, At, Route, Initialising, Closing, Writing
  <1> QED
    BY <1>4, <1>5, <1>6, <1>7, <1>8, <1>9, <1>10, <1>11, <1>12, <1>13, <1>14, <1>15, <1>16, <1>17, <1>18
       DEF JobStep, WriteEnvironments, WriteOthers

(* The migration on activation leaves everything as it brought it.           *)
LEMMA StartupSettles ==
  ASSUME Types, MarkerOrder, Progress, OneAtATime, Seeing, intact,
         Warmed(Startup), job[Startup].alone, Active = {Startup}
  PROVE  Undisturbed'
  <1>0. /\ Jobs /\ disk \in Disk /\ Startup \in Job /\ NoSecrets \in Sensitive
        /\ Startup \in Content /\ Torn \notin Sensitive
    BY ReadTypes, ProjectStoreAssumption DEF Types, Stored, Job, Content
  <1>1. /\ job[Startup].pc = "warmed" /\ job'[Startup].pc = "done"
        /\ \A k \in Job : k # Startup => job'[k] = job[k]
    <2>1. Frame(Startup)
      BY <1>0, JobStepFrame DEF JobStep
    <2> QED
      BY <1>0, <2>1, WarmedGoes, FrameKeeps
  <1>2. disk' = disk /\ cache' = job[Startup].seen /\ intact'
    BY DEF Warmed
  <1>3. disk.marker /\ Untouched
    BY <1>0, <1>1 DEF MarkerOrder, Opened, OneAtATime
  <1>4. /\ disk.live = Startup /\ disk.document = Startup
        /\ disk.overlay = [NoSecrets EXCEPT !.workspace = Startup, !.environments = Startup]
    BY <1>3 DEF Progress
  <1>5. /\ disk.overlay.workspace = Startup /\ disk.overlay.environments = Startup
        /\ disk.overlay \in Sensitive
    BY <1>0, <1>4 DEF Sensitive
  <1>6. Belongs /\ Belongs'
    BY <1>0, <1>2, <1>4, <1>5 DEF Belongs
  <1>7. cache' = Snapshot /\ Snapshot' = Snapshot
    BY <1>0, <1>1, <1>2 DEF Seeing, Snapshot, document, overlay
  <1>8. Active' = {}
    BY <1>1 DEF Active, Over
  <1> QED
    BY <1>6, <1>7, <1>8 DEF Undisturbed

LEMMA UndisturbedPreserved ==
  ASSUME Types, Types', MarkerOrder, Progress, OneAtATime, WholeSave, Seeing, Undisturbed, Next
  PROVE  Undisturbed'
  <1>0. Jobs /\ disk \in Disk /\ Startup \in Job /\ Startup \notin Save /\ Save \subseteq Job
    BY ProjectStoreAssumption DEF Types, Job, Stored
  <1> SUFFICES ASSUME intact' PROVE Undisturbed'
    BY DEF Undisturbed
  <1>1. ASSUME NEW s \in Save, Start(s) PROVE Undisturbed'
    <2>1. intact /\ Active = {} /\ disk' = disk /\ cache' = cache
      BY <1>1 DEF Start
    <2>2. Belongs /\ cache = Snapshot
      BY <2>1 DEF Undisturbed
    <2>3. Belongs' /\ Snapshot' = Snapshot
      BY <2>1, <2>2 DEF Belongs, Snapshot, document, overlay
    <2>4. ASSUME NEW k \in Active' PROVE Carries(k)'
      <3>1. k = s
        BY <1>0, <1>1, <2>1, StartMoves DEF Active
      <3>2. job'[s].pc \in {"promote", "readCollections", "ensure"}
        BY <1>0, <1>1, StartMoves DEF Kind
      <3> QED
        BY <3>1, <3>2 DEF Carries
    <2> QED
      BY <2>1, <2>2, <2>3, <2>4 DEF Undisturbed
  <1>2. ~Crash
    BY DEF Crash
  <1>3. ASSUME NEW j \in Job, JobStep(j) PROVE Undisturbed'
    <2>0. /\ Frame(j) /\ j \in Active /\ (disk.marker => disk'.marker) /\ Active' \subseteq Active
          /\ job'[j].kind = job[j].kind
      <3>1. Frame(j) /\ (Fails(j) => ~intact')
        BY <1>3, JobStepFrame DEF Fails
      <3> QED
        BY <1>0, <3>1, FrameKeeps DEF Frame
    <2>1. CASE Refreshed(j)
      <3>2. job[j].alone /\ (intact \/ job[j].kind = "metadata")
        BY <2>0, <2>1 DEF Refreshed, OneAtATime, Lonely
      <3>1. job[j].pc = "refreshed" /\ disk' = disk /\ cache' = job[j].seen /\ disk.marker
        BY <2>1, <3>2 DEF Refreshed, At, MarkerOrder, Opened
      <3>3. Active = {j} /\ job'[j].pc = "done"
        BY <2>0, <2>1, <3>2, ClosersMove DEF OneAtATime, Lonely, Moves
      <3>4. Active' = {}
        BY <2>0, <3>3 DEF Active, Over
      <3>5. Snapshot' = Snapshot /\ cache' = Snapshot
        BY <1>0, <3>1, <3>2 DEF Snapshot, document, overlay, Seeing
      <3>6. Belongs
        <4>1. j # Startup
          BY <1>0, <3>1 DEF Jobs, Route, Initialising
        <4>2. CASE job[j].kind = "metadata"
          <5>1. Written(j)
            BY <1>0, <3>2, <4>1, <4>2 DEF WholeSave, Job
          <5> QED
            BY <3>1, <5>1 DEF Written, Belongs
        <4>3. CASE Minor(j)
          BY <3>2, <3>3, <4>3 DEF Minor, Undisturbed
        <4> QED
          BY <4>1, <4>2, <4>3 DEF Minor
      <3>7. Belongs'
        BY <3>1, <3>6 DEF Belongs
      <3> QED
        BY <3>4, <3>5, <3>7 DEF Undisturbed
    <2>2. CASE ~Refreshed(j)
      <3>1. intact /\ job[j].alone /\ Active = {j} /\ Active' \subseteq {j}
        BY <2>0, <2>2 DEF Frame, OneAtATime, Lonely
      <3>2. CASE Minor(j)
        <4>1. /\ j \in Save /\ disk.marker /\ job[j].pc \notin Unmarked \cup Undoing
              /\ Belongs /\ cache = Snapshot /\ Carries(j)
          BY <1>0, <3>1, <3>2 DEF Minor, Job, OneAtATime, Lonely, Undisturbed
        <4>2. SameDocuments /\ Carries(j)' /\ cache' = cache
          BY <1>3, <2>2, <3>1, <3>2, <4>1, MinorKeeps
        <4>3. Belongs' /\ Snapshot' = Snapshot
          BY <2>0, <4>1, <4>2, SameSnapshot
        <4> QED
          BY <3>1, <4>1, <4>2, <4>3 DEF Undisturbed
      <3>3. CASE ~Minor(j)
        <4>1. job[j].pc \notin Undoing
          <5>1. CASE j = Startup
            BY <1>0, <5>1 DEF Jobs, Route, Undoing, Initialising
          <5>2. CASE j # Startup
            BY <2>0, <3>1, <5>2 DEF OneAtATime, Lonely, Job
          <5> QED
            BY <5>1, <5>2
        <4>2. job[j].kind \in {"migration", "metadata"}
          BY <1>0, <3>3 DEF Minor, Jobs
        <4>7. CASE Warmed(j) /\ j = Startup
          BY <1>0, <3>1, <4>7, StartupSettles
        <4>8. CASE ~(Warmed(j) /\ j = Startup)
          <5>1. job'[j].pc \notin Over
            <6>1. Warmed(j) => job'[j].pc \notin Over
              BY <1>0, <3>3, <4>8, WarmedGoes DEF Minor, Over
            <6> QED
              BY <1>3, <2>2, <4>1, <4>2, <6>1, StaysActive DEF Over
          <5>2. j \in Active' /\ ~Minor(j)'
            BY <2>0, <3>3, <5>1 DEF Active, Minor
          <5>3. job'[j].pc # "overlayCollections"
            <6>1. Route(job'[j].kind, job'[j].pc)
              BY DEF Types, Jobs
            <6> QED
              BY <2>0, <4>2, <6>1 DEF Route, Initialising, Closing, Writing, Swapping, MovedIn, Undoing
          <5>4. Carries(j)'
            BY <2>0, <4>2, <5>3 DEF Carries
          <5> QED
            BY <3>1, <5>2, <5>4 DEF Undisturbed
        <4> QED
          BY <4>7, <4>8
      <3> QED
        BY <3>2, <3>3
    <2> QED
      BY <2>1, <2>2
  <1> QED
    BY <1>1, <1>2, <1>3, NextSplits

-----------------------------------------------------------------------------
(* The inductive invariant. Each part is what the next ones need.            *)
StoreInv ==
  /\ Types /\ Promotion /\ MarkerOrder /\ Progress /\ Swapped
  /\ OneAtATime /\ WholeSave /\ Seeing /\ Undisturbed

LEMMA StoreInvInit ==
  ASSUME Init
  PROVE  StoreInv
  <1>1. Types
    BY InitialTypes
  <1>2. /\ disk.marker = FALSE /\ disk.live = Absent /\ disk.profiles = Absent
        /\ backup = [s \in Save |-> Absent] /\ secret = FALSE /\ spoiled = FALSE
        /\ intact = (job[Startup].pc = "promote")
    BY DEF Init
  <1>3. PICK kind \in [Save -> Kind],
             first \in {Activation, [Fresh("migration") EXCEPT !.pc = "done"]} :
          job = [j \in Job |-> IF j = Startup THEN first ELSE Fresh(kind[j])]
    BY DEF Init
  <1>4. job[Startup] = first
    BY <1>3 DEF Job
  <1>5. /\ job[Startup].pc \in {"promote", "done"} /\ job[Startup].kind = "migration"
        /\ job[Startup].alone = (job[Startup].pc = "promote")
    BY <1>4 DEF Activation, Fresh
  <1>6. ASSUME NEW s \in Save PROVE job[s].pc = "unborn"
    <2>1. job[s] = Fresh(kind[s])
      BY <1>3, ProjectStoreAssumption DEF Job
    <2> QED
      BY <2>1 DEF Fresh
  <1>7. Active = (IF job[Startup].pc = "promote" THEN {Startup} ELSE {}) /\ Untouched
    BY <1>5, <1>6 DEF Active, Over, Untouched, At, Job
  <1>8. Promotion
    BY <1>2, <1>5, <1>6, ProjectStoreAssumption DEF Promotion, Promoted, Initialising, Job
  <1>9. MarkerOrder
    BY <1>2, <1>5, <1>6, <1>7 DEF MarkerOrder, Unmarked, Opened, Swapping, MovedIn, Undoing, Writing, Job
  <1>10. Progress
    BY <1>2, <1>5 DEF Progress, Mixed
  <1>11. Swapped
    BY <1>2, <1>6, ProjectStoreAssumption DEF Swapped, Complete, Safe, Whole, Holds, Content, Job
  <1>12. OneAtATime
    BY <1>2, <1>5, <1>6, <1>7 DEF OneAtATime, Lonely, Unmarked, Undoing
  <1>13. WholeSave
    BY <1>6 DEF WholeSave, Written, MovedIn, Writing
  <1>14. Seeing
    BY <1>5, <1>6 DEF Seeing, Job
  <1>15. Undisturbed
    <2>1. ~Minor(Startup) /\ Carries(Startup)
      BY <1>5 DEF Minor, Carries
    <2> QED
      BY <1>2, <1>7, <2>1 DEF Undisturbed
  <1> QED
    BY <1>1, <1>8, <1>9, <1>10, <1>11, <1>12, <1>13, <1>14, <1>15 DEF StoreInv

LEMMA StoreInvNext ==
  ASSUME StoreInv, [Next]_vars
  PROVE  StoreInv' /\ (disk.marker /\ Complete => Complete' \/ spoiled')
  <1>1. CASE Next
    <2>1. Types'
      BY <1>1, TypesPreserved DEF StoreInv
    <2>2. Promotion' /\ MarkerOrder' /\ Progress'
      BY <1>1, PromotionPreserved, MarkerOrderPreserved, ProgressPreserved DEF StoreInv, OneAtATime
    <2>3. Swapped' /\ (disk.marker /\ Complete => Complete' \/ spoiled')
      BY <1>1, SwappedPreserved DEF StoreInv
    <2>4. OneAtATime' /\ WholeSave' /\ Seeing'
      BY <1>1, OneAtATimePreserved, WholeSavePreserved, SeeingPreserved DEF StoreInv
    <2>5. Undisturbed'
      BY <1>1, <2>1, UndisturbedPreserved DEF StoreInv
    <2> QED
      BY <2>1, <2>2, <2>3, <2>4, <2>5 DEF StoreInv
  <1>2. CASE UNCHANGED vars
    <2> USE <1>2 DEF vars
    <2>1. Types'
      BY DEF StoreInv, Types, Stored, Jobs
    <2>2. Active' = Active /\ Untouched' = Untouched /\ Complete' = Complete /\ Snapshot' = Snapshot
      BY DEF Active, Untouched, At, Complete, Snapshot, document, overlay
    <2>3. Promotion' /\ MarkerOrder' /\ Progress'
      BY <2>2 DEF StoreInv, Promotion, MarkerOrder, Progress, Mixed
    <2>4. Swapped'
      BY <2>2 DEF StoreInv, Swapped, Safe, Holds
    <2>5. OneAtATime' /\ WholeSave' /\ Seeing'
      BY <2>2 DEF StoreInv, OneAtATime, Lonely, WholeSave, Written, Seeing
    <2>6. Undisturbed'
      BY <2>2 DEF StoreInv, Undisturbed, Minor, Carries, Belongs
    <2> QED
      BY <2>1, <2>2, <2>3, <2>4, <2>5, <2>6 DEF StoreInv
  <1> QED
    BY <1>1, <1>2

LEMMA StoreInvHolds == Spec => []StoreInv
  <1>1. Init => StoreInv
    BY StoreInvInit
  <1>2. StoreInv /\ [Next]_vars => StoreInv'
    BY StoreInvNext
  <1> QED
    BY <1>1, <1>2, PTL DEF Spec

(* Documents, backups and jobs have the types they are meant to have.        *)
THEOREM ProjectStoreTypeCorrect == Spec => []TypeOK
  <1>1. StoreInv => TypeOK
    BY DEF StoreInv, Types, Stored, Jobs, JobRecord, TypeOK
  <1> QED
    BY <1>1, StoreInvHolds, PTL

(* "redacted profiles are not persisted without credentials": whoever wrote  *)
(* the redacted profiles stored, or found, a secret first, wherever saves    *)
(* overlap and wherever one fails or the editor crashes.                     *)
THEOREM RedactionComesLater == Spec => []CredentialsBeforeRedaction
  <1>1. StoreInv => CredentialsBeforeRedaction
    BY DEF StoreInv, Promotion, CredentialsBeforeRedaction
  <1> QED
    BY <1>1, StoreInvHolds, PTL

(* "config.json last": a marker means that all the migration brings is       *)
(* there, unless a save came first, however often it failed or crashed.      *)
THEOREM MarkerMeansMigrated == Spec => []MigrationIsWhole
  <1>1. StoreInv => MigrationIsWhole
    BY DEF StoreInv, Progress, Untouched, MigrationIsWhole
  <1> QED
    BY <1>1, StoreInvHolds, PTL

(* No step loses the last complete set of environments: neither the swap of  *)
(* directories, nor its roll-back beside the swap of another save, nor a     *)
(* crash between any two of their steps, nor a migration beside them, until  *)
(* one that found no marker writes its files, or config.json, after another  *)
(* job has set it.                                                           *)
THEOREM NoSetIsLost == Spec => EnvironmentsSurvive
  <1>1. StoreInv /\ [Next]_vars => [disk.marker /\ Complete => Complete' \/ spoiled']_vars
    BY StoreInvNext
  <1> QED
    BY <1>1, StoreInvHolds, PTL DEF Spec, EnvironmentsSurvive

(* Left alone, the store is consistent again after one whole save, whatever  *)
(* was lost, torn or mixed up before it.                                     *)
THEOREM AWholeSaveSettles == Spec => []UndisturbedStoreIsConsistent
  <1>1. StoreInv => UndisturbedStoreIsConsistent
    BY DEF StoreInv, Undisturbed, Belongs, UndisturbedStoreIsConsistent
  <1> QED
    BY <1>1, StoreInvHolds, PTL
=============================================================================
