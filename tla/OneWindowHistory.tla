--------------------------- MODULE OneWindowHistory ---------------------------
(***************************************************************************)
(* The history store of an editor with one window, seen through what list  *)
(* and get answer. With a second window on the same file neither its cache *)
(* nor its answers can be right: nothing tells it of the other's writes.   *)
(***************************************************************************)
EXTENDS FileHistoryStore

CONSTANT TheWindow

ASSUME OneWindow == Window = {TheWindow}

Log == INSTANCE HistoryLog WITH log <- Visible(TheWindow), cap <- windows[TheWindow].maxEntries

(* The store behaves as the HistoryRepository contract says, list and get    *)
(* among its steps: every operation happens once, entirely, in order, or not *)
(* at all. The one exception is a read outside the queue that a write of the *)
(* queue overtook: what it puts in the cache, or moves away as damaged, is    *)
(* no longer what the store had. It ends when the window is opened again.     *)
ImplementsHistoryLog ==
  /\ Log!Init
  /\ [][overtaken # {} \/ overtaken' # {} \/ Log!Next]_<<Visible(TheWindow),
                                                         windows[TheWindow].maxEntries>>
=============================================================================
