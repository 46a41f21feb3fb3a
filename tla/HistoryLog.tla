------------------------------ MODULE HistoryLog ------------------------------
(***************************************************************************)
(* What HistoryRepository (src/history/repository.ts) promises to its one  *)
(* client: a log of entries, newest first, bounded by a retention cap.     *)
(* Operations that fail change nothing. The cap may be lowered without the *)
(* log being trimmed (the trim is a write of its own, and may fail); the   *)
(* next append trims it.                                                   *)
(***************************************************************************)
EXTENDS Integers, Sequences, Filtered

CONSTANTS Entry, Caps

VARIABLES log, cap

Trimmed(entries, n) == SubSeq(entries, 1, IF Len(entries) < n THEN Len(entries) ELSE n)
With(e, entries) == <<e>> \o Without(entries, e)

(* append, delete, clear and the trim of setMaxEntries. *)
Outcomes ==
  {Trimmed(With(e, log), cap) : e \in Entry} \union {Without(log, e) : e \in Entry}
    \union {<<>>, Trimmed(log, cap)}

Change == log' \in Outcomes /\ UNCHANGED cap

SetMaxEntries == cap' \in Caps /\ log' \in {log, Trimmed(log, cap')}

(* The window is closed and opened again: an operation in progress may or   *)
(* may not have happened; a write cut in two loses the document.            *)
Reopen == cap' \in Caps /\ log' \in Outcomes \union {log}

Next == Change \/ SetMaxEntries \/ Reopen

Init == log \in Seq(Entry) /\ cap \in Caps

Spec == Init /\ [][Next]_<<log, cap>>
=============================================================================
