--------------------------- MODULE SecretRepository ---------------------------
(***************************************************************************)
(* DefaultAuthenticationSecretRepository (src/auth/authentication-         *)
(* resolver.ts): credentials in Secret Storage under a canonical key, or   *)
(* still under the key of an older version, from where the first read      *)
(* moves them. Calls on one field of a profile wait for each other.        *)
(*                                                                         *)
(* A call goes through several calls of Secret Storage, each of which      *)
(* takes effect at once or is rejected. `said` is not part of the program: *)
(* it is what the calls that returned amount to.                           *)
(***************************************************************************)
EXTENDS Naturals, Sequences

CONSTANTS
  Keys,      \* fields of profiles
  Tokens,    \* credentials
  None,      \* no credential
  Callers    \* operations that call the repository, one call at a time each

ASSUME SecretRepositoryAssumption == None \notin Tokens

VARIABLES
  canonical,  \* canonical[k]: what is stored under the canonical key
  legacy,     \* legacy[k]: what is stored under the legacy key
  fieldLocks, \* fieldLocks[k]: callers in the order of their calls on k
  call,       \* call[c]: the last call of c and how far it is
  said        \* said[k]: the credential by the calls that returned

storage == <<canonical, legacy>>
repository == <<storage, fieldLocks, call, said>>

Values == Tokens \cup {None}
UnderWay == {"asked", "missing", "found", "moved", "half"}
Returned == {"settled", "rejected"}
Call == [do : {"get", "store", "delete"}, key : Keys, value : Values,
         at : UnderWay \cup Returned]
NoCall == [at |-> "none"]

RepositoryInit ==
  /\ canonical \in [Keys -> Values] /\ legacy \in [Keys -> Values]
  /\ fieldLocks = [k \in Keys |-> <<>>]
  /\ call = [c \in Callers |-> NoCall]
  /\ said = [k \in Keys |-> IF canonical[k] # None THEN canonical[k] ELSE legacy[k]]

(* What a call of get returns. *)
Readable(k) == IF canonical[k] # None THEN canonical[k] ELSE legacy[k]

-----------------------------------------------------------------------------
(* withFieldLock: a call waits for all earlier ones on its field.            *)
Ask(c, do, k, v) ==
  /\ call' = [call EXCEPT ![c] = [do |-> do, key |-> k, value |-> v, at |-> "asked"]]
  /\ fieldLocks' = [fieldLocks EXCEPT ![k] = Append(@, c)]
  /\ UNCHANGED <<storage, said>>

Forget(c) == call' = [call EXCEPT ![c] = NoCall] /\ UNCHANGED <<storage, fieldLocks, said>>

(* Faulty: calls do not wait. *)
TurnAnyway(c) == call[c].at = "asked"

Turn(c) == call[c].at = "asked" /\ Head(fieldLocks[call[c].key]) = c

At(c, do, at) == call[c].at = at /\ call[c].do = do

Return(c, v, how) ==
  /\ call' = [call EXCEPT ![c].value = v, ![c].at = how]
  /\ fieldLocks' = [fieldLocks EXCEPT ![call[c].key] = Tail(@)]

Advance(c, v, at) ==
  call' = [call EXCEPT ![c].value = v, ![c].at = at] /\ UNCHANGED fieldLocks

(* get *)
ReadCanonical(c) ==
  /\ Turn(c) /\ call[c].do = "get"
  /\ LET v == canonical[call[c].key] IN
     IF v # None THEN Return(c, v, "settled") ELSE Advance(c, None, "missing")
  /\ UNCHANGED <<storage, said>>

ReadLegacy(c) ==
  /\ At(c, "get", "missing")
  /\ LET v == legacy[call[c].key] IN
     IF v = None THEN Return(c, None, "settled") ELSE Advance(c, v, "found")
  /\ UNCHANGED <<storage, said>>

SetCanonical(c) ==
  /\ At(c, "get", "found")
  /\ canonical' = [canonical EXCEPT ![call[c].key] = call[c].value]
  /\ Advance(c, call[c].value, "moved")
  /\ UNCHANGED <<legacy, said>>

DropLegacy(c) ==
  /\ At(c, "get", "moved")
  /\ legacy' = [legacy EXCEPT ![call[c].key] = None]
  /\ Return(c, call[c].value, "settled")
  /\ UNCHANGED <<canonical, said>>

(* The move is best-effort: what was read is returned all the same.          *)
MoveRejected(c) ==
  /\ At(c, "get", "found") \/ At(c, "get", "moved")
  /\ Return(c, call[c].value, "settled")
  /\ UNCHANGED <<storage, said>>

(* store *)
StoreValue(c) ==
  /\ Turn(c) /\ call[c].do = "store"
  /\ canonical' = [canonical EXCEPT ![call[c].key] = call[c].value]
  /\ said' = [said EXCEPT ![call[c].key] = call[c].value]
  /\ Return(c, call[c].value, "settled")
  /\ UNCHANGED legacy

(* delete *)
DeleteCanonical(c) ==
  /\ Turn(c) /\ call[c].do = "delete"
  /\ canonical' = [canonical EXCEPT ![call[c].key] = None]
  /\ Advance(c, None, "half")
  /\ UNCHANGED <<legacy, said>>

DeleteLegacy(c) ==
  /\ At(c, "delete", "half")
  /\ legacy' = [legacy EXCEPT ![call[c].key] = None]
  /\ said' = [said EXCEPT ![call[c].key] = None]
  /\ Return(c, None, "settled")
  /\ UNCHANGED canonical

(* Any other rejection is passed on, whatever was done before it.            *)
Rejected(c) ==
  /\ Turn(c) \/ At(c, "get", "missing") \/ At(c, "delete", "half")
  /\ said' = [said EXCEPT ![call[c].key] = Readable(call[c].key)]
  /\ Return(c, None, "rejected")
  /\ UNCHANGED storage

Works(c) ==
  \/ ReadCanonical(c) \/ ReadLegacy(c) \/ SetCanonical(c) \/ DropLegacy(c)
  \/ StoreValue(c) \/ DeleteCanonical(c) \/ DeleteLegacy(c)

(* The window goes away: calls under way end where they are.                 *)
Lost ==
  /\ fieldLocks' = [k \in Keys |-> <<>>]
  /\ call' = [c \in Callers |-> NoCall]
  /\ said' = [k \in Keys |-> IF fieldLocks[k] = <<>> THEN said[k] ELSE Readable(k)]
  /\ UNCHANGED storage

(* Whoever calls: a caller has one call under way at a time.                 *)
Calls(c) ==
  /\ call[c].at \notin UnderWay
  /\ \/ \E k \in Keys, v \in Tokens : Ask(c, "store", k, v)
     \/ \E do \in {"get", "delete"}, k \in Keys : Ask(c, do, k, None)
     \/ Forget(c)

RepositoryNext ==
  \/ \E c \in Callers : Calls(c) \/ Works(c) \/ MoveRejected(c) \/ Rejected(c)
  \/ Lost

RepositorySpec == RepositoryInit /\ [][RepositoryNext]_repository

-----------------------------------------------------------------------------
(* "Serializes get/store/delete per profile field so lazy migrate cannot     *)
(* race delete": with no call under way a field reads as the calls that      *)
(* returned left it. Reading it, and moving it meanwhile, changes nothing,   *)
(* and what was deleted or replaced does not come back.                      *)
ReturnedCallsHold == \A k \in Keys : fieldLocks[k] = <<>> => Readable(k) = said[k]
=============================================================================
