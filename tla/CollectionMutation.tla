------------------------- MODULE CollectionMutation -------------------------
(***************************************************************************)
(* Collections are directories with an order marker each. A command on     *)
(* them (CollectionMutationService, src/collections/mutation/service.ts)   *)
(* changes the disk, reads and rewrites the marker of one or two           *)
(* collections, and asks for a refresh of the tree (discovery.ts). Each of *)
(* these is awaited on its own, so commands may overlap, and any may fail. *)
(*                                                                         *)
(* A location is a collection followed by folder names, and for a request  *)
(* by the name of its file. The disk, and the two order maps of a marker,  *)
(* are functions on sequences, so that what stands below a folder moves in *)
(* all of them alike.                                                      *)
(***************************************************************************)
EXTENDS Naturals, FiniteSets, SequencesExt, Filtered

CONSTANTS
  Collections, Folders, Requests,  \* names
  Alphabet,                        \* all of them in the order of the locale
  Depth,                           \* bound on the nesting of folders
  MaxJobs,                         \* bound on the number of commands
  Layouts                          \* what may be there at first

VARIABLES
  disk,      \* what is there: identities of folders and files by location
  marker,    \* the order marker of each collection
  shown,     \* the disk and the markers the tree was built from
  scan,      \* refreshInFlight and refreshQueued
  job,       \* the commands
  intact     \* so far no command failed, misread a marker or met another

treeVars == <<disk, marker, shown, scan, job, intact>>

Jobs == 1..MaxJobs
Blank == [folders |-> <<>>, requests |-> <<>>]
Idle == [kind |-> "none", from |-> <<>>, to |-> <<>>, names |-> <<>>]
View(d, m) == [disk |-> d, marker |-> m]

(* Where things can be, by what they are: isPlace says so of one location,   *)
(* isTree of all that are on a disk, isOrder of the keys and names of a map, *)
(* which has no empty lists (marker.ts drops them when it reads and writes). *)
Names == Folders \cup Requests
isPlace(l) ==
  /\ l \in Seq(Collections \cup Names) \ {<<>>}
  /\ Head(l) \in Collections /\ Tail(l) \in Seq(Names)
isTree(places) == \A l \in places : isPlace(l) /\ \A n \in 1..Len(l) : SubSeq(l, 1, n) \in places
isOrder(map, kind) ==
  /\ map = [k \in DOMAIN map |-> map[k]]
  /\ \A k \in DOMAIN map : k \in Seq(Names) /\ map[k] \in Seq(kind) \ {<<>>}

(* The places a map lists, within its collection; and a marker that speaks   *)
(* only of what is there.                                                   *)
listed(map) == UNION {{Append(k, n) : n \in ToSet(map[k])} : k \in DOMAIN map}
matches(m, c, places) ==
  /\ m = [folders |-> m.folders, requests |-> m.requests]
  /\ isOrder(m.folders, Folders) /\ isOrder(m.requests, Requests)
  /\ \A p \in listed(m.folders) \cup listed(m.requests) : <<c>> \o p \in places

(* A name tells a file of a request from a directory.                       *)
ASSUME NamesAreApart ==
  Requests \cap (Collections \cup Folders) = {} /\ IsFiniteSet(Names)

(* The locale puts all names in an order.                                   *)
ASSUME LocaleIsTotal == Alphabet \in Seq(Names) /\ Names \subseteq ToSet(Alphabet)

ASSUME LayoutsAreSound ==
  \A layout \in Layouts :
    /\ isTree(layout.disk)
    /\ \A c \in DOMAIN layout.marker : matches(layout.marker[c], c, layout.disk)

TreeInit ==
  /\ \E layout \in Layouts :
       /\ disk = [l \in layout.disk |-> l]
       /\ marker = [c \in Collections |->
                      IF c \in DOMAIN layout.marker THEN layout.marker[c] ELSE Blank]
  /\ shown = View(disk, marker)
  /\ scan = [phase |-> "idle", queued |-> FALSE, view |-> shown]
  /\ job = [j \in Jobs |-> [op |-> Idle, pc |-> "unborn", doc |-> Blank, carry |-> Blank]]
  /\ intact = TRUE

-----------------------------------------------------------------------------
(* Locations, and functions on sequences. *)
isRequest(l) == Last(l) \in Requests
isCollection(l) == Len(l) = 1
below(f, from) == {k \in DOMAIN f : IsPrefix(from, k)}
there(k, from, to) == to \o SubSeq(k, Len(from) + 1, Len(k))
without(f, from) == [k \in DOMAIN f \ below(f, from) |-> f[k]]
carried(f, from, to) ==
  [k \in {there(k, from, to) : k \in below(f, from)} |-> f[there(k, to, from)]]
made(l, id) == [p \in {SubSeq(l, 1, n) : n \in 1..(Len(l) - 1)} |-> id]

(* upsertOrderName, removeOrderName, renameOrderName in the list of the      *)
(* siblings of l; a list that becomes empty is not written (marker.ts).     *)
field(l) == IF isRequest(l) THEN "requests" ELSE "folders"
siblingKey(l) == Tail(Front(l))
listAt(map, k) == IF k \in DOMAIN map THEN map[k] ELSE <<>>
put(map, k, names) == IF names = <<>> THEN [i \in DOMAIN map \ {k} |-> map[i]]
                      ELSE [i \in DOMAIN map \cup {k} |-> IF i = k THEN names ELSE map[i]]
list(m, l) == listAt(m[field(l)], siblingKey(l))
withList(m, l, names) == [m EXCEPT ![field(l)] = put(@, siblingKey(l), names)]

upserted(m, l) == withList(m, l, Append(Without(list(m, l), Last(l)), Last(l)))
removed(m, l) == withList(m, l, Without(list(m, l), Last(l)))
renamed(m, l, to) == withList(m, l, ReplaceAll(list(m, l), Last(l), Last(to)))

(* remapOrderMapKeys. Where an entry for the new place was left behind, the  *)
(* order of the keys in the file decides which of the two stays.            *)
first(f, g) == [k \in DOMAIN f \cup DOMAIN g |-> IF k \in DOMAIN f THEN f[k] ELSE g[k]]
rekeyed(m, from, to) ==
  LET old(map) == without(map, from)
      new(map) == carried(map, from, to) IN
  {[folders |-> first(new(m.folders), old(m.folders)),
    requests |-> first(new(m.requests), old(m.requests))],
   [folders |-> first(old(m.folders), new(m.folders)),
    requests |-> first(old(m.requests), new(m.requests))]}

(* Faulty: the entries of the folder stay behind. *)
droppedName(m, l) == removed(m, l)

(* removeFolderFromMarker; extractRemappedOrderSubtree; and what of it is    *)
(* laid over the marker of the target (duplicateFolderInMarker likewise).   *)
dropped(m, l) ==
  LET rest == removed(m, l) IN
  [folders |-> without(rest.folders, Tail(l)), requests |-> without(rest.requests, Tail(l))]

extracted(m, from, to) ==
  [folders |-> carried(m.folders, Tail(from), Tail(to)),
   requests |-> carried(m.requests, Tail(from), Tail(to))]
overlaid(m, extra) ==
  [folders |-> first(extra.folders, m.folders), requests |-> first(extra.requests, m.requests)]

-----------------------------------------------------------------------------
(* What the tree shows of a view: the folders that hold requests, with their *)
(* parents, and those a marker lists.                                       *)
listedFolders(v, c) == {<<c>> \o p : p \in listed(v.marker[c].folders)}
collectionsIn(v) == {c \in Collections : <<c>> \in DOMAIN v.disk}
requestsIn(v) == {l \in DOMAIN v.disk : isRequest(l)}
foldersIn(v) ==
  {l \in UNION {{SubSeq(k, 1, n) : n \in 1..Len(k)} :
                  k \in requestsIn(v) \cup UNION {listedFolders(v, c) : c \in collectionsIn(v)}} :
     ~isCollection(l) /\ ~isRequest(l)}
nodesIn(v) == {<<c>> : c \in collectionsIn(v)} \cup foldersIn(v) \cup requestsIn(v)

(* orderIdsByNames, orderRequestIds: listed names first, then the locale.   *)
place(v, l) ==
  LET names == list(v.marker[Head(l)], l)
      at(s) == CHOOSE i \in DOMAIN s : s[i] = Last(l) /\ \A h \in 1..(i - 1) : s[h] # Last(l) IN
  IF Last(l) \in ToSet(names) THEN at(names) ELSE Len(names) + at(Alphabet)
siblings(l, k) == Len(l) = Len(k) /\ Front(l) = Front(k) /\ isRequest(l) = isRequest(k)

-----------------------------------------------------------------------------
(* The commands the tree offers. A name that is taken is refused, the name   *)
(* of a copy is one that is free.                                           *)
Op(kind, from, to) == [kind |-> kind, from |-> from, to |-> to, names |-> <<>>]
children(l) == {Append(l, n) : n \in Requests \cup (IF Len(l) > Depth THEN {} ELSE Folders)}
roots == {<<c>> : c \in Collections}
parents(v) == {l \in nodesIn(v) : ~isRequest(l)}
alike(l) == IF isCollection(l) THEN roots
            ELSE {k \in children(Front(l)) : siblings(k, l)}
fits(from, to) ==
  to = <<>> \/ \A k \in below(disk, from) : Len(there(k, from, to)) <= Depth + (IF isRequest(k) THEN 2 ELSE 1)

Offers ==
  {Op("create", <<>>, l) : l \in roots \cup UNION {children(p) : p \in parents(shown)}}
  \cup (UNION {{Op(kind, l, k) : kind \in {"rename", "duplicate"}, k \in alike(l)} :
                 l \in nodesIn(shown)})
  \cup {Op("delete", l, <<>>) : l \in nodesIn(shown)}
  \cup {Op("move", l, Append(p, Last(l))) :
          l \in {n \in nodesIn(shown) : ~isCollection(n)},
          p \in parents(shown)}

Reorders ==
  UNION {{[Op("reorder", l, l) EXCEPT !.names = names] :
            names \in SetToSeqs({Last(k) : k \in {n \in nodesIn(shown) :
                                                    ~isCollection(n) /\ siblings(n, l)}})} :
           l \in {n \in nodesIn(shown) : ~isCollection(n)}}

Active == {j \in Jobs : job[j].pc \notin {"unborn", "done", "failed"}}
At(j, pc) == job[j].pc = pc
Enter(j, pc) == job' = [job EXCEPT ![j].pc = pc]

Permitted(op) ==
  CASE op.kind = "reorder" -> TRUE
    [] op.kind = "delete" -> TRUE
    [] op.kind = "create" -> op.to \notin DOMAIN disk
    [] OTHER -> /\ op.to \notin DOMAIN disk /\ fits(op.from, op.to)
                /\ ~IsPrefix(op.from, op.to)

Begin(j) ==
  /\ At(j, "unborn") /\ \A i \in 1..(j - 1) : ~At(i, "unborn")
  /\ \E op \in Offers \cup Reorders :
       /\ Permitted(op)
       /\ job' = [job EXCEPT ![j].op = op, ![j].pc = IF op.kind = "reorder" THEN "read" ELSE "apply"]
  /\ intact' = (intact /\ Active = {})
  /\ UNCHANGED <<disk, marker, shown, scan>>

-----------------------------------------------------------------------------
(* The change of the disk. Nothing is overwritten by a rename; a new file    *)
(* and a copy replace what is there. Missing parents are made.              *)
Overwrites(op) == isRequest(op.to) \/ op.kind = "duplicate"

Changed(j, op) ==
  CASE op.kind = "create" ->
         IF Overwrites(op) THEN first([l \in {op.to} |-> <<j>>], first(disk, made(op.to, <<j>>)))
         ELSE first(disk, first(made(op.to, <<j>>), [l \in {op.to} |-> <<j>>]))
    [] op.kind = "delete" -> without(disk, op.from)
    [] op.kind = "duplicate" ->
         first([l \in DOMAIN carried(disk, op.from, op.to) |-> <<j>>], first(disk, made(op.to, <<j>>)))
    [] OTHER -> first(carried(disk, op.from, op.to),
                      first(without(disk, op.from), made(op.to, <<j>>)))

(* The marker is a file of its collection and goes with it. *)
MarkersAfter(op) ==
  [c \in Collections |->
     IF op.kind \in {"rename", "duplicate"} /\ op.to = <<c>> THEN marker[Head(op.from)]
     ELSE IF op.kind \in {"rename", "delete"} /\ op.from = <<c>> THEN Blank
     ELSE marker[c]]

Apply(j) ==
  LET op == job[j].op IN
  /\ At(j, "apply")
  /\ op.kind = "create" \/ (op.from \in DOMAIN disk /\ fits(op.from, op.to))
  /\ op.kind \in {"rename", "move"} => op.to \notin DOMAIN disk
  /\ disk' = Changed(j, op)
  /\ marker' = MarkersAfter(op)
  /\ job' = [job EXCEPT ![j].pc = CASE op.kind = "delete" /\ isCollection(op.from) -> "refresh"
                                    [] op.kind = "create" /\ isCollection(op.to) -> "write"
                                    [] OTHER -> "read"]
  /\ UNCHANGED <<shown, scan, intact>>

(* The marker that is updated first, and whether another round follows.     *)
home(op) == IF op.kind \in {"move", "delete"} THEN Head(op.from) ELSE Head(op.to)
Twice(op) == op.kind = "move" /\ (isRequest(op.from) \/ Head(op.from) # Head(op.to))

(* What updateMarker makes of a marker. *)
Updated(op, m) ==
  LET from == Tail(op.from)
      to == Tail(op.to) IN
  IF isCollection(op.to) THEN {m}
  ELSE CASE op.kind = "create" -> {upserted(m, op.to)}
         [] op.kind = "delete" \/ Twice(op) -> {dropped(m, op.from)}
         [] op.kind = "rename" -> {renamed(r, op.from, op.to) : r \in rekeyed(m, from, to)}
         [] op.kind = "move" /\ ~Twice(op) ->
              {upserted(removed(r, op.from), op.to) : r \in rekeyed(m, from, to)}
         [] op.kind = "duplicate" -> {upserted(overlaid(m, extracted(m, op.from, op.to)), op.to)}
         [] op.kind = "reorder" -> {withList(m, op.to, op.names)}

(* A marker that cannot be read is replaced by a fresh one. *)
Read(j, got) ==
  LET op == job[j].op IN
  /\ At(j, "read") /\ got \in {marker[home(op)], Blank}
  /\ \E doc \in Updated(op, got) :
       job' = [job EXCEPT ![j].doc = doc, ![j].pc = "write",
                          ![j].carry = IF Twice(op) THEN extracted(got, op.from, op.to) ELSE Blank]
  /\ intact' = (intact /\ got = marker[home(op)])
  /\ UNCHANGED <<disk, marker, shown, scan>>

(* Writing a marker makes the directory it belongs to. *)
WriteTo(c, j, doc) ==
  /\ marker' = [marker EXCEPT ![c] = doc]
  /\ disk' = first(disk, [l \in {<<c>>} |-> <<j>>])

Write(j) ==
  /\ At(j, "write")
  /\ WriteTo(home(job[j].op), j, job[j].doc)
  /\ Enter(j, IF Twice(job[j].op) THEN "readTarget" ELSE "refresh")
  /\ UNCHANGED <<shown, scan, intact>>

(* Faulty: the order inside the folder is left behind. *)
ReadTargetBare(j, got) ==
  LET op == job[j].op IN
  /\ At(j, "readTarget") /\ got \in {marker[Head(op.to)], Blank}
  /\ job' = [job EXCEPT ![j].doc = upserted(got, op.to), ![j].pc = "writeTarget"]
  /\ intact' = (intact /\ got = marker[Head(op.to)])
  /\ UNCHANGED <<disk, marker, shown, scan>>

ReadTarget(j, got) ==
  LET op == job[j].op IN
  /\ At(j, "readTarget") /\ got \in {marker[Head(op.to)], Blank}
  /\ job' = [job EXCEPT ![j].doc = upserted(overlaid(got, job[j].carry), op.to),
                        ![j].pc = "writeTarget"]
  /\ intact' = (intact /\ got = marker[Head(op.to)])
  /\ UNCHANGED <<disk, marker, shown, scan>>

WriteTarget(j) ==
  /\ At(j, "writeTarget")
  /\ WriteTo(Head(job[j].op.to), j, job[j].doc)
  /\ Enter(j, "refresh")
  /\ UNCHANGED <<shown, scan, intact>>

(* A file operation rejects; a copy may be begun, a marker half written,     *)
(* which readers take for an empty one. The tree is not refreshed.          *)
Fails(j) ==
  LET op == job[j].op
      torn(c) == [marker EXCEPT ![c] = Blank] IN
  /\ j \in Active /\ ~At(j, "refresh") /\ ~At(j, "waiting")
  /\ \/ At(j, "apply") /\ op.kind = "duplicate" /\ ~isRequest(op.to) /\ UNCHANGED marker
        /\ disk' = first(disk, [l \in {op.to} |-> <<j>>])
     \/ At(j, "write") /\ marker' = torn(home(op)) /\ UNCHANGED disk
     \/ At(j, "writeTarget") /\ marker' = torn(Head(op.to)) /\ UNCHANGED disk
     \/ UNCHANGED <<disk, marker>>
  /\ Enter(j, "failed")
  /\ intact' = FALSE
  /\ UNCHANGED <<shown, scan>>

-----------------------------------------------------------------------------
(* refresh: one scan at a time; asking during a scan queues another one, and *)
(* whoever asked waits until none is queued.                                *)

(* Faulty: who asks during a scan is content with it. *)
AskJoining(j) ==
  /\ At(j, "refresh")
  /\ scan' = IF scan.phase = "idle" THEN [scan EXCEPT !.phase = "asked"] ELSE scan
  /\ Enter(j, "waiting")
  /\ UNCHANGED <<disk, marker, shown, intact>>

Ask(j) ==
  /\ At(j, "refresh")
  /\ scan' = IF scan.phase = "idle" THEN [scan EXCEPT !.phase = "asked"]
             ELSE [scan EXCEPT !.queued = TRUE]
  /\ Enter(j, "waiting")
  /\ UNCHANGED <<disk, marker, shown, intact>>

Scan ==
  /\ scan.phase = "asked"
  /\ scan' = [scan EXCEPT !.phase = "scanned", !.view = View(disk, marker)]
  /\ UNCHANGED <<disk, marker, shown, job, intact>>

Publish ==
  /\ scan.phase = "scanned"
  /\ shown' = scan.view
  /\ scan' = [scan EXCEPT !.phase = IF scan.queued THEN "asked" ELSE "idle", !.queued = FALSE]
  /\ job' = [j \in Jobs |-> IF At(j, "waiting") /\ ~scan.queued
                            THEN [job[j] EXCEPT !.pc = "done"] ELSE job[j]]
  /\ UNCHANGED <<disk, marker, intact>>

TreeNext ==
  \/ \E j \in Jobs :
       \/ Begin(j) \/ Apply(j) \/ Write(j) \/ WriteTarget(j) \/ Fails(j) \/ Ask(j)
       \/ \E got \in {marker[c] : c \in Collections} \cup {Blank} : Read(j, got) \/ ReadTarget(j, got)
  \/ Scan \/ Publish

TreeSpec == TreeInit /\ [][TreeNext]_treeVars

-----------------------------------------------------------------------------
(* "avoids out-of-order last-write-wins": once no command is under way and   *)
(* none failed, the tree shows what is on disk, however commands and scans   *)
(* overlapped.                                                              *)
TreeIsCurrent ==
  (\A j \in Jobs : job[j].pc \in {"unborn", "done"}) => shown = View(disk, marker)

(* After commands that did not disturb each other, markers speak of what is  *)
(* there: no list of a folder that is gone, no name without a directory or a *)
(* file. Otherwise the tree shows folders that no command can remove.       *)
MarkersMatchDisk ==
  intact /\ Active = {} =>
    \A c \in Collections :
      \A p \in listed(marker[c].folders) \cup listed(marker[c].requests) :
        <<c>> \o p \in DOMAIN disk

(* "nested order survives": two siblings that are siblings still, be it      *)
(* under another name or in another collection, are shown in the order they  *)
(* had, unless the user reordered them or renamed one that has no place of   *)
(* its own in the marker.                                                   *)
Exempt(op, l, k) ==
  \/ op.kind = "reorder" /\ siblings(op.to, l)
  \/ /\ op.kind = "rename"
     /\ \E m \in {l, k} : m = op.from /\ Last(m) \notin ToSet(list(shown.marker[Head(m)], m))

Subjects(v) == {l \in nodesIn(v) \cap DOMAIN v.disk : ~isCollection(l)}
KeepsShownOrder ==
  intact' /\ shown' # shown =>
    \A l, k \in Subjects(shown), l2, k2 \in Subjects(shown') :
      /\ siblings(l, k) /\ siblings(l2, k2)
      /\ shown.disk[l] = shown'.disk[l2] /\ shown.disk[k] = shown'.disk[k2]
      /\ \A j \in Jobs : shown.disk[l] # <<j>> /\ shown.disk[k] # <<j>>
      /\ place(shown, l) < place(shown, k)
      /\ \A j \in Active : ~Exempt(job[j].op, l, k)
      => place(shown', l2) < place(shown', k2)
OrderSurvives == [][KeepsShownOrder]_treeVars
=============================================================================
