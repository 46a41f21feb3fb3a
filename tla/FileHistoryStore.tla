--------------------------- MODULE FileHistoryStore ---------------------------
(***************************************************************************)
(* src/history/file-history-store.ts: the history document in the global   *)
(* storage directory, an in-memory cache of it, and a write queue.         *)
(* append, delete, clear and setMaxEntries go through the queue; list and  *)
(* get do not. The directory belongs to the extension, not to a window:    *)
(* every open editor window has a store of its own on the same file.       *)
(*                                                                         *)
(* A read, a write and a rename take effect at one point each and complete *)
(* later; moving a damaged file away is a rename of its own after the read. *)
(* Entries are abstract identifiers, newest first in the document.         *)
(***************************************************************************)
EXTENDS Integers, Sequences, SequencesExt, Filtered

CONSTANTS
  Window,      \* windows with a store on the file
  Entry,       \* entries that may be appended, each once
  Caps,        \* values of the history.maxEntries setting
  MaxQueue,    \* bound on the tasks waiting in one write queue
  Missing, Corrupt, Unloaded     \* no file, a file that does not parse, no value

ASSUME FileHistoryStoreAssumption ==
  /\ Caps \subseteq Nat \ {0} /\ MaxQueue \in Nat \ {0}
  /\ {Missing, Corrupt, Unloaded} \intersect Seq(Entry) = {}

VARIABLES
  file,      \* the document on disk
  issued,    \* entries handed to append so far, in that order
  windows,   \* each window's FileHistoryStore
  overtaken  \* windows whose list or get put an older document in the cache,
             \* or moved a newer one away

historyVars == <<file, issued, windows, overtaken>>

Task == [op : {"append", "delete"}, entry : Entry] \union [op : {"setMaxEntries"}, cap : Caps]
          \union [op : {"clear"}]

(* phase is that of the running task, the head of the queue; seen is what   *)
(* its read saw and target what its write stores; asked is set while a list *)
(* or get is reading, listing is what it saw.                               *)
Fresh(n) == [cache |-> Unloaded, maxEntries |-> n, queue |-> <<>>, phase |-> "idle",
             seen |-> Unloaded, target |-> Unloaded, asked |-> FALSE, listing |-> Unloaded]

(* readDocument *)
Contents(f) == IF f \in {Missing, Corrupt} THEN <<>> ELSE f

HistoryInit ==
  /\ file \in {Missing, Corrupt} \union {<<e>> : e \in Entry}
  /\ issued = Contents(file)
  /\ windows \in [Window -> {Fresh(n) : n \in Caps}]
  /\ overtaken = {}

-----------------------------------------------------------------------------
(* Faulty: the cap is overrun by one. *)
TrimmedTooLate(entries, n) == SubSeq(entries, 1, IF Len(entries) <= n THEN Len(entries) ELSE n + 1)

Trimmed(entries, n) == SubSeq(entries, 1, IF Len(entries) < n THEN Len(entries) ELSE n)

(* quarantineCorruptHistory renames whatever file is there, if it can. *)
Quarantined == {Missing, file}

(* What the store answers: the cache, or what it would read. *)
Visible(w) == IF windows[w].cache = Unloaded THEN Contents(file) ELSE windows[w].cache

Update(w, s) == windows' = [windows EXCEPT ![w] = s]

(* enqueue: a settled task, resolved or rejected, lets the next one start.  *)
Settled(s) == [s EXCEPT !.queue = Tail(@), !.phase = "idle",
                        !.seen = Unloaded, !.target = Unloaded]

Writing(s, entries) == [s EXCEPT !.phase = "writing", !.target = entries]

(* An append puts its entry first and drops an older copy.                  *)
Added(e, entries) == <<e>> \o Without(entries, e)

(* The body of a task once it has the entries: what it writes, if anything. *)
Proceed(s, entries) ==
  LET task == Head(s.queue)
      next == CASE task.op = "append" ->
                     Trimmed(Added(task.entry, entries), s.maxEntries)
                [] task.op = "delete" -> Without(entries, task.entry)
                [] task.op = "setMaxEntries" -> Trimmed(entries, s.maxEntries)
  IN IF task.op # "append" /\ Len(next) = Len(entries)
       THEN Settled(s)
       ELSE Writing(s, next)

-----------------------------------------------------------------------------
(* append, delete, clear, setMaxEntries are called. *)
Enqueue(w, task) ==
  /\ Len(windows[w].queue) < MaxQueue
  /\ task.op = "append" => task.entry \notin ToSet(issued)
  /\ issued' = IF task.op = "append" THEN Append(issued, task.entry) ELSE issued
  /\ Update(w, [windows[w] EXCEPT !.queue = Append(@, task)])
  /\ UNCHANGED <<file, overtaken>>

(* The queue starts its next task; setMaxEntries sets the cap first. The    *)
(* cached entries are used if there are any, otherwise the file is read.    *)
StartTask(w) ==
  /\ windows[w].phase = "idle" /\ windows[w].queue # <<>>
  /\ UNCHANGED <<issued, overtaken>>
  /\ LET task == Head(windows[w].queue)
         s == IF task.op = "setMaxEntries"
                THEN [windows[w] EXCEPT !.maxEntries = task.cap] ELSE windows[w]
     IN CASE task.op = "clear" -> Update(w, Writing(s, <<>>)) /\ UNCHANGED file
          [] task.op # "clear" /\ s.cache # Unloaded ->
               Update(w, Proceed(s, s.cache)) /\ UNCHANGED file
          [] OTHER ->
               /\ UNCHANGED file
               /\ \/ Update(w, [s EXCEPT !.phase = "loading", !.seen = file])
                  \/ Update(w, Settled(s))          \* the read rejects

(* A task saw a damaged file: it is moved away before the task goes on.     *)
TaskQuarantines(w) ==
  /\ windows[w].phase = "loading" /\ windows[w].seen = Corrupt
  /\ Update(w, [windows[w] EXCEPT !.seen = Missing])
  /\ file' \in Quarantined
  /\ UNCHANGED <<issued, overtaken>>

(* loadEntries of a task completes: the cache is assigned unconditionally.  *)
LoadCompletes(w) ==
  /\ windows[w].phase = "loading" /\ windows[w].seen # Corrupt
  /\ LET s == [windows[w] EXCEPT !.cache = Contents(windows[w].seen)]
     IN Update(w, Proceed(s, s.cache))
  /\ UNCHANGED <<file, issued, overtaken>>

WriteSucceeds(w) ==
  /\ windows[w].phase = "writing"
  /\ file' = windows[w].target
  /\ Update(w, Settled([windows[w] EXCEPT !.cache = windows[w].target]))
  /\ UNCHANGED <<issued, overtaken>>

(* Faulty: the cache is updated before the file is written.                 *)
WriteFailsCached(w) ==
  /\ windows[w].phase = "writing"
  /\ file' \in {file, Corrupt}
  /\ Update(w, Settled([windows[w] EXCEPT !.cache = windows[w].target]))
  /\ UNCHANGED <<issued, overtaken>>

(* Faulty: a rejected task stays at the head of the queue.                  *)
WriteFailsBlocking(w) ==
  /\ windows[w].phase = "writing"
  /\ file' \in {file, Corrupt}
  /\ Update(w, [windows[w] EXCEPT !.phase = "idle", !.seen = Unloaded, !.target = Unloaded])
  /\ UNCHANGED <<issued, overtaken>>

(* The write rejects, before it touched the file or halfway. *)
WriteFails(w) ==
  /\ windows[w].phase = "writing"
  /\ file' \in {file, Corrupt}
  /\ Update(w, Settled(windows[w]))
  /\ UNCHANGED <<issued, overtaken>>

(* list or get with nothing cached: an unqueued read of the file. *)
ListAsks(w) ==
  /\ windows[w].cache = Unloaded /\ windows[w].listing = Unloaded /\ ~windows[w].asked
  /\ Update(w, [windows[w] EXCEPT !.asked = TRUE])
  /\ UNCHANGED <<file, issued, overtaken>>

(* The read sees the file, or rejects. *)
ListReads(w) ==
  /\ windows[w].asked
  /\ \E f \in {file, Unloaded} :
       Update(w, [windows[w] EXCEPT !.asked = FALSE, !.listing = f])
  /\ UNCHANGED <<file, issued, overtaken>>

(* The pending list or get saw what the store has, or a task is loading.    *)
UpToDate(w) ==
  /\ Contents(windows[w].listing) = Visible(w)
  /\ windows[w].phase = "loading" => Contents(windows[w].seen) = Contents(windows[w].listing)

(* The read saw a damaged file. What is moved away is whatever is there by  *)
(* now, the document a task has written since included.                     *)
ListQuarantines(w) ==
  /\ windows[w].listing = Corrupt
  /\ Update(w, [windows[w] EXCEPT !.listing = Missing])
  /\ file' \in Quarantined
  /\ overtaken' = IF file' = file \/ UpToDate(w) THEN overtaken ELSE overtaken \union {w}
  /\ UNCHANGED issued

(* loadEntries of list completes and assigns the cache, whatever happened   *)
(* since the read.                                                          *)
ListCompletes(w) ==
  /\ windows[w].listing \notin {Unloaded, Corrupt}
  /\ overtaken' = IF UpToDate(w) THEN overtaken ELSE overtaken \union {w}
  /\ Update(w, [windows[w] EXCEPT !.cache = Contents(windows[w].listing), !.listing = Unloaded])
  /\ UNCHANGED <<file, issued>>

(* The window is reloaded or crashes: memory is lost, and a write in        *)
(* progress may have happened, not happened, or have been cut in two.       *)
Reopen(w, n) ==
  /\ file' \in IF windows[w].phase = "writing" THEN {file, windows[w].target, Corrupt} ELSE {file}
  /\ Update(w, Fresh(n))
  /\ overtaken' = overtaken \ {w}
  /\ UNCHANGED issued
-----------------------------------------------------------------------------
TaskStep(w) ==
  StartTask(w) \/ TaskQuarantines(w) \/ LoadCompletes(w) \/ WriteSucceeds(w) \/ WriteFails(w)

ListStep(w) == ListReads(w) \/ ListQuarantines(w) \/ ListCompletes(w)

HistoryNext ==
  \E w \in Window :
    \/ TaskStep(w) \/ ListStep(w)
    \/ \E task \in Task : Enqueue(w, task)
    \/ ListAsks(w)
    \/ \E n \in Caps : Reopen(w, n)

HistorySpec == HistoryInit /\ [][HistoryNext]_historyVars

(* File operations complete. *)
FairSpec == HistorySpec /\ \A w \in Window : WF_historyVars(TaskStep(w)) /\ WF_historyVars(ListStep(w))
-----------------------------------------------------------------------------
FileContents == {Missing, Corrupt} \union Seq(Entry)
MaybeLoaded == {Unloaded} \union Seq(Entry)
MaybeRead == {Unloaded} \union FileContents

HistoryTypeOK ==
  /\ file \in FileContents
  /\ issued \in Seq(Entry) /\ overtaken \subseteq Window
  /\ windows \in [Window ->
       [cache : MaybeLoaded, maxEntries : Caps, queue : Seq(Task),
        phase : {"idle", "loading", "writing"},
        seen : MaybeRead, target : MaybeLoaded, asked : BOOLEAN, listing : MaybeRead]]

(* A loaded cache is the document on disk, unless list or get, which read    *)
(* outside the queue, completed after a newer write or moved that write's   *)
(* document away for a damaged one it had read before; a failed write may   *)
(* have damaged the file.                                                   *)
CacheMirrorsFile ==
  \A w \in Window \ overtaken :
    windows[w].cache # Unloaded => file = Corrupt \/ windows[w].cache = Contents(file)

(* A task that fails does not stop the ones behind it: everything handed to *)
(* the store settles.                                                       *)
Waiting(w, e) == \E i \in DOMAIN windows[w].queue : windows[w].queue[i] = [op |-> "append", entry |-> e]
AppendsSettle == \A w \in Window, e \in Entry : Waiting(w, e) ~> ~Waiting(w, e)
=============================================================================
