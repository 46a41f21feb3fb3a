---------------------- MODULE AuthenticationProfiles_proofs ----------------------
(* The repository of secrets, for any keys, callers and credentials and any    *)
(* order of calls: the callers in a lock are those with a call under way on    *)
(* its key, only the first of them has begun, and what it has found is still   *)
(* there. Then the panel: AuthenticationProfiles calls the repository as       *)
(* RepositorySpec allows, one call at a time for each operation, on fields of  *)
(* profiles, and no operation begins while a call of it is under way. So what  *)
(* is proved about any callers holds of the operations of the panel. Last, the *)
(* credentials: an operation that is alone touches fields nothing is expected  *)
(* of, and a save has copied a field before it moves what is expected.         *)
EXTENDS AuthenticationProfiles, TLAPS

Types ==
  /\ canonical \in [Keys -> Values] /\ legacy \in [Keys -> Values] /\ said \in [Keys -> Values]
  /\ fieldLocks \in [Keys -> Seq(Callers)]
  /\ call \in [Callers -> Call \cup {NoCall}]

On(c, k) == call[c].at \in UnderWay /\ call[c].key = k
OnNext(c, k) == call'[c].at \in UnderWay /\ call'[c].key = k

(* The callers in a lock, each once. *)
LockHolds ==
  \A k \in Keys :
    /\ \A i \in DOMAIN fieldLocks[k] : On(fieldLocks[k][i], k)
    /\ \A i, j \in DOMAIN fieldLocks[k] : fieldLocks[k][i] = fieldLocks[k][j] => i = j
    /\ \A c \in Callers : On(c, k) /\ call[c].at # "asked" =>
         fieldLocks[k] # <<>> /\ Head(fieldLocks[k]) = c
    /\ \A c \in Callers : On(c, k) => \E i \in DOMAIN fieldLocks[k] : fieldLocks[k][i] = c

(* What a call has found out, done or is to do. *)
Found(c) ==
  /\ call[c].at \in {"missing", "found"} => call[c].do = "get" /\ canonical[call[c].key] = None
  /\ call[c].at = "found" => call[c].value = legacy[call[c].key] /\ call[c].value # None
  /\ call[c].at = "moved" => /\ call[c].do = "get" /\ call[c].value # None
                             /\ canonical[call[c].key] = call[c].value
  /\ call[c].at = "half" => call[c].do = "delete" /\ canonical[call[c].key] = None
  /\ call[c].at = "asked" /\ call[c].do = "store" => call[c].value # None

(* A field reads as was said, but while it is being deleted. *)
ReadsAsSaid(k) == Readable(k) = said[k] \/ \E c \in Callers : On(c, k) /\ call[c].at = "half"

CallsHold == \A c \in Callers : Found(c)
FieldsHold == \A k \in Keys : ReadsAsSaid(k)

Inv == Types /\ LockHolds /\ CallsHold /\ FieldsHold

-----------------------------------------------------------------------------
(* Callers. *)

(* The parts of a call under way. *)
LEMMA CallParts ==
  ASSUME Types, NEW c \in Callers, call[c].at # "none"
  PROVE  /\ call[c] \in Call /\ call[c].key \in Keys /\ call[c].value \in Values
         /\ call[c].do \in {"get", "store", "delete"}
  BY DEF Types, Call, NoCall

(* Whoever may go on is the first in its lock, and the only one to have begun. *)
LEMMA FirstIsAlone ==
  ASSUME Inv, NEW c \in Callers, Turn(c) \/ call[c].at \in UnderWay \ {"asked"}
  PROVE  /\ On(c, call[c].key) /\ call[c].key \in Keys
         /\ fieldLocks[call[c].key] # <<>> /\ Head(fieldLocks[call[c].key]) = c
         /\ \A d \in Callers : On(d, call[c].key) /\ call[d].at # "asked" => d = c
  <1>1. call[c].at \in UnderWay /\ call[c].key \in Keys
    BY CallParts DEF Inv, Turn, UnderWay
  <1> DEFINE k == call[c].key
  <1>2. On(c, k) /\ fieldLocks[k] # <<>>
    BY <1>1 DEF On, Inv, LockHolds
  <1>3. Head(fieldLocks[k]) = c
    BY <1>1, <1>2 DEF Turn, Inv, LockHolds
  <1> QED
    BY <1>1, <1>2, <1>3 DEF Inv, LockHolds

-----------------------------------------------------------------------------
(* Locks. *)

(* A call joins the lock of its field. *)
LEMMA AskLocks ==
  ASSUME Inv, NEW c \in Callers, call[c].at \notin UnderWay,
         NEW do \in {"get", "store", "delete"}, NEW k \in Keys, NEW v \in Values,
         Ask(c, do, k, v)
  PROVE  Types' /\ LockHolds'
  <1>1. Types'
    <2>1. [do |-> do, key |-> k, value |-> v, at |-> "asked"] \in Call
      BY DEF Call, UnderWay
    <2>2. Append(fieldLocks[k], c) \in Seq(Callers)
      BY DEF Inv, Types
    <2> QED
      BY <2>1, <2>2 DEF Inv, Types, Ask, storage
  <1>2. \A d \in Callers, q \in Keys : d # c => (OnNext(d, q) <=> On(d, q)) /\ call'[d] = call[d]
    BY DEF On, OnNext, Ask, Inv, Types
  <1>3. \A q \in Keys : OnNext(c, q) <=> q = k
    BY DEF On, OnNext, Ask, Inv, Types, UnderWay
  <1>4. call'[c].at = "asked"
    BY DEF Ask, Inv, Types
  <1>5. \A q \in Keys : \A i \in DOMAIN fieldLocks[q] : fieldLocks[q][i] # c /\ fieldLocks[q][i] \in Callers
    BY DEF Inv, LockHolds, On, Types
  <1> SUFFICES ASSUME NEW q \in Keys
               PROVE  /\ \A i \in DOMAIN fieldLocks'[q] : OnNext(fieldLocks'[q][i], q)
                      /\ \A i, j \in DOMAIN fieldLocks'[q] : fieldLocks'[q][i] = fieldLocks'[q][j] => i = j
                      /\ \A d \in Callers : OnNext(d, q) /\ call'[d].at # "asked" =>
                           fieldLocks'[q] # <<>> /\ Head(fieldLocks'[q]) = d
                      /\ \A d \in Callers : OnNext(d, q) => \E i \in DOMAIN fieldLocks'[q] : fieldLocks'[q][i] = d
    BY <1>1 DEF LockHolds, On, OnNext
  <1>6. CASE q # k
    <2>1. fieldLocks'[q] = fieldLocks[q]
      BY <1>6 DEF Ask, Inv, Types
    <2> QED
      BY <1>2, <1>3, <1>5, <1>6, <2>1 DEF Inv, LockHolds
  <1>7. CASE q = k
    <2> DEFINE n == Len(fieldLocks[k])
    <2>1. /\ fieldLocks'[q] = Append(fieldLocks[k], c) /\ n \in Nat
          /\ DOMAIN fieldLocks[k] = 1..n /\ DOMAIN fieldLocks'[q] = 1..(n + 1)
          /\ fieldLocks'[q][n + 1] = c /\ \A i \in 1..n : fieldLocks'[q][i] = fieldLocks[k][i]
      BY <1>7 DEF Ask, Inv, Types
    <2>2. \A i \in DOMAIN fieldLocks'[q] : OnNext(fieldLocks'[q][i], q)
      BY <1>2, <1>3, <1>5, <1>7, <2>1 DEF Inv, LockHolds
    <2>3. \A i, j \in DOMAIN fieldLocks'[q] : fieldLocks'[q][i] = fieldLocks'[q][j] => i = j
      BY <1>5, <1>7, <2>1 DEF Inv, LockHolds
    <2>4. fieldLocks'[q] # <<>>
      <3>1. n + 1 \in DOMAIN fieldLocks'[q]
        BY <2>1
      <3> QED
        BY <3>1
    <2>5. fieldLocks[k] # <<>> => Head(fieldLocks'[q]) = Head(fieldLocks[k])
      BY <2>1 DEF Inv, Types
    <2>6. ASSUME NEW d \in Callers, OnNext(d, q), call'[d].at # "asked"
          PROVE  fieldLocks'[q] # <<>> /\ Head(fieldLocks'[q]) = d
      <3>1. d # c /\ On(d, k) /\ call[d].at # "asked"
        BY <1>2, <1>4, <1>7, <2>6
      <3>2. fieldLocks[k] # <<>> /\ Head(fieldLocks[k]) = d
        BY <3>1 DEF Inv, LockHolds
      <3> QED
        BY <2>4, <2>5, <3>2
    <2>7. ASSUME NEW d \in Callers, OnNext(d, q)
          PROVE  \E i \in DOMAIN fieldLocks'[q] : fieldLocks'[q][i] = d
      <3>1. CASE d = c
        <4>1. n + 1 \in DOMAIN fieldLocks'[q]
          BY <2>1
        <4> QED
          BY <2>1, <3>1, <4>1
      <3>2. CASE d # c
        <4>1. PICK i \in DOMAIN fieldLocks[k] : fieldLocks[k][i] = d
          BY <1>2, <1>7, <2>7, <3>2 DEF Inv, LockHolds
        <4>2. i \in DOMAIN fieldLocks'[q]
          BY <2>1
        <4> QED
          BY <2>1, <4>1, <4>2
      <3> QED
        BY <3>1, <3>2
    <2> QED
      BY <2>2, <2>3, <2>6, <2>7
  <1> QED
    BY <1>6, <1>7

(* A call goes on: nobody moves. *)
LEMMA AdvanceLocks ==
  ASSUME Inv, NEW c \in Callers, Turn(c) \/ call[c].at \in UnderWay \ {"asked"},
         NEW v \in Values, NEW at \in UnderWay, Advance(c, v, at),
         canonical' \in [Keys -> Values], legacy' \in [Keys -> Values], said' \in [Keys -> Values]
  PROVE  /\ Types' /\ LockHolds'
         /\ call'[c] = [call[c] EXCEPT !.value = v, !.at = at]
         /\ \A d \in Callers : d # c => call'[d] = call[d]
         /\ \A d \in Callers, q \in Keys : OnNext(d, q) <=> On(d, q)
  <1>0. call[c].at # "none"
    BY DEF Turn, UnderWay
  <1>1. call[c] \in Call
    BY <1>0, CallParts DEF Inv
  <1>2. call'[c] = [call[c] EXCEPT !.value = v, !.at = at] /\ call'[c] \in Call
    BY <1>1 DEF Advance, Inv, Types, Call
  <1>3. \A d \in Callers : d # c => call'[d] = call[d]
    BY DEF Advance, Inv, Types
  <1>4. Types'
    BY <1>2, <1>3 DEF Advance, Inv, Types
  <1>5. ASSUME NEW d \in Callers, NEW q \in Keys
        PROVE  OnNext(d, q) <=> On(d, q)
    <2>1. call[c].at \in UnderWay
      BY DEF Turn, UnderWay
    <2>2. call'[c].key = call[c].key /\ call'[c].at = at
      BY <1>1, <1>2 DEF Call
    <2>3. CASE d = c
      BY <2>1, <2>2, <2>3 DEF On, OnNext
    <2> QED
      BY <1>3, <2>3 DEF On, OnNext
  <1>6. LockHolds'
    <2>1. fieldLocks' = fieldLocks
      BY DEF Advance
    <2>2. \A q \in Keys : On(c, q) => fieldLocks[q] # <<>> /\ Head(fieldLocks[q]) = c
      BY FirstIsAlone DEF On
    <2>3. \A q \in Keys : \A i \in DOMAIN fieldLocks[q] : fieldLocks[q][i] \in Callers
      BY DEF Inv, Types
    <2> QED
      BY <1>3, <1>5, <2>1, <2>2, <2>3 DEF Inv, LockHolds, On, OnNext
  <1> QED
    BY <1>2, <1>3, <1>4, <1>5, <1>6

(* A call returns: the next one in the lock may begin. *)
LEMMA ReturnLocks ==
  ASSUME Inv, NEW c \in Callers, Turn(c) \/ call[c].at \in UnderWay \ {"asked"},
         NEW v \in Values, NEW how \in Returned, Return(c, v, how),
         canonical' \in [Keys -> Values], legacy' \in [Keys -> Values], said' \in [Keys -> Values]
  PROVE  /\ Types' /\ LockHolds'
         /\ call'[c].at = how
         /\ \A d \in Callers : d # c => call'[d] = call[d]
         /\ \A d \in Callers, q \in Keys : OnNext(d, q) <=> On(d, q) /\ d # c
  <1>0. call[c].at # "none"
    BY DEF Turn, UnderWay
  <1>1. call[c] \in Call
    BY <1>0, CallParts DEF Inv
  <1>2. call'[c] = [call[c] EXCEPT !.value = v, !.at = how] /\ call'[c] \in Call
    BY <1>1 DEF Return, Inv, Types, Call
  <1>3. \A d \in Callers : d # c => call'[d] = call[d]
    BY DEF Return, Inv, Types
  <1> DEFINE k == call[c].key
  <1>4. /\ k \in Keys /\ fieldLocks[k] # <<>> /\ Head(fieldLocks[k]) = c
        /\ \A d \in Callers : On(d, k) /\ call[d].at # "asked" => d = c
        /\ On(c, k)
    BY FirstIsAlone
  <1> DEFINE n == Len(fieldLocks[k])
  <1>5. /\ fieldLocks'[k] = Tail(fieldLocks[k]) /\ n \in Nat \ {0}
        /\ DOMAIN fieldLocks[k] = 1..n /\ DOMAIN fieldLocks'[k] = 1..(n - 1)
        /\ fieldLocks[k][1] = c /\ \A i \in 1..(n - 1) : fieldLocks'[k][i] = fieldLocks[k][i + 1]
        /\ fieldLocks'[k] \in Seq(Callers)
    BY <1>4 DEF Return, Inv, Types
  <1>6. \A q \in Keys : q # k => fieldLocks'[q] = fieldLocks[q]
    BY DEF Return, Inv, Types
  <1>7. Types'
    BY <1>2, <1>3, <1>4, <1>5, <1>6 DEF Return, Inv, Types
  <1>8. \A d \in Callers, q \in Keys : OnNext(d, q) <=> On(d, q) /\ d # c
    BY <1>1, <1>2, <1>3 DEF On, OnNext, Call, UnderWay, Returned
  <1>9. ASSUME NEW q \in Keys
        PROVE  /\ \A i \in DOMAIN fieldLocks'[q] : OnNext(fieldLocks'[q][i], q)
               /\ \A i, j \in DOMAIN fieldLocks'[q] : fieldLocks'[q][i] = fieldLocks'[q][j] => i = j
               /\ \A d \in Callers : OnNext(d, q) => \E i \in DOMAIN fieldLocks'[q] : fieldLocks'[q][i] = d
               /\ \A d \in Callers : OnNext(d, q) /\ call'[d].at # "asked" =>
                    fieldLocks'[q] # <<>> /\ Head(fieldLocks'[q]) = d
    <2>1. CASE q # k
      <3>1. \A i \in DOMAIN fieldLocks[q] : fieldLocks[q][i] # c /\ fieldLocks[q][i] \in Callers
        BY <1>1, <2>1 DEF Inv, LockHolds, On, Types
      <3> QED
        BY <1>3, <1>6, <1>8, <2>1, <3>1 DEF Inv, LockHolds
    <2>2. CASE q = k
      <3> HIDE DEF n, k
      <3>1. \A i \in 1..(n - 1) : i + 1 \in 1..n /\ fieldLocks'[k][i] = fieldLocks[k][i + 1]
        BY <1>5
      <3>2. \A i \in 1..n : fieldLocks[k][i] = c => i = 1
        <4>1. 1 \in 1..n
          BY <1>5
        <4> QED
          BY <1>4, <1>5, <4>1 DEF Inv, LockHolds
      <3>3. \A i \in 1..(n - 1) : fieldLocks'[k][i] # c /\ fieldLocks'[k][i] \in Callers
        <4>1. ASSUME NEW i \in 1..(n - 1) PROVE i + 1 # 1
          BY <1>5
        <4> QED
          BY <1>4, <1>5, <3>1, <3>2, <4>1 DEF Inv, Types
      <3>4. \A i \in 1..n : On(fieldLocks[k][i], k)
        BY <1>4, <1>5 DEF Inv, LockHolds
      <3>5. \A i \in 1..(n - 1) : OnNext(fieldLocks'[k][i], k)
        BY <1>4, <1>8, <3>1, <3>3, <3>4
      <3>6. ASSUME NEW i \in 1..(n - 1), NEW j \in 1..(n - 1), fieldLocks'[k][i] = fieldLocks'[k][j]
            PROVE  i = j
        <4>1. i + 1 = j + 1
          BY <1>4, <1>5, <3>1, <3>6 DEF Inv, LockHolds
        <4> QED
          BY <4>1
      <3>7. ASSUME NEW d \in Callers, OnNext(d, k)
            PROVE  \E i \in 1..(n - 1) : fieldLocks'[k][i] = d
        <4>1. PICK j \in 1..n : fieldLocks[k][j] = d
          BY <1>4, <1>5, <1>8, <3>7 DEF Inv, LockHolds
        <4>2. j # 1
          BY <1>4, <1>5, <1>8, <3>7, <4>1
        <4>3. j - 1 \in 1..(n - 1) /\ (j - 1) + 1 = j
          BY <1>5, <4>2
        <4>4. fieldLocks'[k][j - 1] = fieldLocks[k][(j - 1) + 1]
          BY <3>1, <4>3
        <4> QED
          BY <4>1, <4>3, <4>4
      <3>8. \A d \in Callers : OnNext(d, k) => call'[d].at = "asked"
        BY <1>3, <1>4, <1>8
      <3> QED
        BY <1>5, <2>2, <3>5, <3>6, <3>7, <3>8
    <2> QED
      BY <2>1, <2>2
  <1>10. LockHolds'
    BY <1>9 DEF LockHolds, On, OnNext
  <1> QED
    BY <1>2, <1>3, <1>7, <1>8, <1>10

-----------------------------------------------------------------------------
(* Steps. *)

(* Steps that only touch the field of one call leave other calls and fields. *)
LEMMA OthersHold ==
  ASSUME Inv, NEW c \in Callers, NEW k \in Keys, k = call[c].key,
         Turn(c) \/ call[c].at \in UnderWay \ {"asked"},
         \A q \in Keys : q # k =>
            canonical'[q] = canonical[q] /\ legacy'[q] = legacy[q] /\ said'[q] = said[q],
         \A d \in Callers : d # c => call'[d] = call[d],
         \A d \in Callers, q \in Keys : d # c => (OnNext(d, q) <=> On(d, q))
  PROVE  /\ \A d \in Callers : d # c => Found(d)'
         /\ \A q \in Keys : q # k => ReadsAsSaid(q)'
         /\ call[c].at # "half" => Readable(k) = said[k]
  <1>1. \A d \in Callers : On(d, k) /\ call[d].at # "asked" => d = c
    BY FirstIsAlone
  <1>2. ASSUME NEW d \in Callers, d # c
        PROVE  Found(d)'
    <2>1. Found(d) /\ call'[d] = call[d]
      BY <1>2 DEF Inv, CallsHold
    <2>2. CASE call[d].at \in {"missing", "found", "moved", "half"}
      <3>1. On(d, call[d].key) /\ call[d].key \in Keys
        BY <2>2, CallParts DEF On, UnderWay, Inv
      <3>2. call[d].key # k
        BY <1>1, <1>2, <2>2, <3>1
      <3> QED
        BY <2>1, <3>1, <3>2 DEF Found
    <2> QED
      BY <2>1, <2>2 DEF Found
  <1>3. ASSUME NEW q \in Keys, q # k
        PROVE  ReadsAsSaid(q)'
    <2>1. ReadsAsSaid(q) /\ Readable(q)' = Readable(q) /\ said'[q] = said[q]
      BY <1>3 DEF Inv, FieldsHold, Readable
    <2>2. CASE Readable(q) = said[q]
      BY <2>1, <2>2 DEF ReadsAsSaid
    <2>3. CASE \E d \in Callers : On(d, q) /\ call[d].at = "half"
      <3>1. PICK d \in Callers : On(d, q) /\ call[d].at = "half"
        BY <2>3
      <3>2. d # c
        BY <1>3, <3>1 DEF On
      <3>3. OnNext(d, q) /\ call'[d].at = "half"
        BY <3>1, <3>2
      <3> QED
        BY <3>3 DEF ReadsAsSaid, On, OnNext
    <2> QED
      BY <2>1, <2>2, <2>3 DEF ReadsAsSaid
  <1>4. call[c].at # "half" => Readable(k) = said[k]
    BY <1>1 DEF Inv, FieldsHold, ReadsAsSaid
  <1> QED
    BY <1>2, <1>3, <1>4

(* A step by which a call goes on preserves the invariant if it does so for  *)
(* that call and its field.                                                  *)
LEMMA AdvanceHolds ==
  ASSUME Inv, NEW c \in Callers, NEW k \in Keys, k = call[c].key,
         Turn(c) \/ call[c].at \in UnderWay \ {"asked"},
         NEW v \in Values, NEW at \in UnderWay \ {"asked"}, Advance(c, v, at),
         canonical' \in [Keys -> Values], legacy' \in [Keys -> Values], said' = said,
         \A q \in Keys : q # k => canonical'[q] = canonical[q] /\ legacy'[q] = legacy[q],
         /\ at \in {"missing", "found"} => call[c].do = "get" /\ canonical'[k] = None
         /\ at = "found" => v = legacy'[k] /\ v # None
         /\ at = "moved" => call[c].do = "get" /\ v # None /\ canonical'[k] = v
         /\ at = "half" => call[c].do = "delete" /\ canonical'[k] = None,
         at # "half" => Readable(k)' = Readable(k),
         call[c].at # "half"
  PROVE  Inv'
  <1>1. said' \in [Keys -> Values]
    BY DEF Inv, Types
  <1>2. /\ Types' /\ LockHolds'
        /\ call'[c] = [call[c] EXCEPT !.value = v, !.at = at]
        /\ \A d \in Callers : d # c => call'[d] = call[d]
        /\ \A d \in Callers, q \in Keys : OnNext(d, q) <=> On(d, q)
    BY <1>1, AdvanceLocks
  <1>3. call[c] \in Call /\ On(c, k)
    BY FirstIsAlone, CallParts DEF Turn, UnderWay, Inv
  <1>4. /\ call'[c].value = v /\ call'[c].at = at
        /\ call'[c].key = k /\ call'[c].do = call[c].do
    BY <1>2, <1>3 DEF Call
  <1>5. /\ \A d \in Callers : d # c => Found(d)'
        /\ \A q \in Keys : q # k => ReadsAsSaid(q)'
        /\ Readable(k) = said[k]
    BY <1>2, OthersHold
  <1>6. Found(c)'
    BY <1>4 DEF Found
  <1>7. ReadsAsSaid(k)'
    <2>1. CASE at = "half"
      <3>1. OnNext(c, k) /\ call'[c].at = "half"
        BY <1>2, <1>3, <1>4, <2>1
      <3> QED
        BY <3>1 DEF ReadsAsSaid, On, OnNext
    <2>2. CASE at # "half"
      BY <1>5, <2>2 DEF ReadsAsSaid, Readable
    <2> QED
      BY <2>1, <2>2
  <1> QED
    BY <1>2, <1>5, <1>6, <1>7 DEF Inv, CallsHold, FieldsHold

(* A step by which a call returns preserves it if the field reads as is said *)
(* afterwards.                                                               *)
LEMMA ReturnHolds ==
  ASSUME Inv, NEW c \in Callers, NEW k \in Keys, k = call[c].key,
         Turn(c) \/ call[c].at \in UnderWay \ {"asked"},
         NEW v \in Values, NEW how \in Returned, Return(c, v, how),
         canonical' \in [Keys -> Values], legacy' \in [Keys -> Values], said' \in [Keys -> Values],
         \A q \in Keys : q # k =>
            canonical'[q] = canonical[q] /\ legacy'[q] = legacy[q] /\ said'[q] = said[q],
         call[c].at # "half" /\ Readable(k) = said[k]
            => Readable(k)' = said'[k],
         call[c].at = "half" => Readable(k)' = said'[k]
  PROVE  Inv'
  <1>1. /\ Types' /\ LockHolds' /\ call'[c].at = how
        /\ \A d \in Callers : d # c => call'[d] = call[d]
        /\ \A d \in Callers, q \in Keys : OnNext(d, q) <=> On(d, q) /\ d # c
    BY ReturnLocks
  <1>2. /\ \A d \in Callers : d # c => Found(d)'
        /\ \A q \in Keys : q # k => ReadsAsSaid(q)'
        /\ call[c].at # "half" => Readable(k) = said[k]
    BY <1>1, OthersHold
  <1>3. Found(c)'
    BY <1>1 DEF Found, Returned
  <1>4. ReadsAsSaid(k)'
    BY <1>2 DEF ReadsAsSaid
  <1> QED
    BY <1>1, <1>2, <1>3, <1>4 DEF Inv, CallsHold, FieldsHold

(* get, store and delete. *)
LEMMA WorksHolds ==
  ASSUME Inv, SecretRepositoryAssumption, NEW c \in Callers, Works(c)
  PROVE  Inv'
  <1> SUFFICES ASSUME NEW k, k = call[c].key PROVE Inv'
    OBVIOUS
  <1> DEFINE Ready == Turn(c) \/ call[c].at \in UnderWay \ {"asked"}
  <1>1. Ready => k \in Keys /\ call[c].value \in Values
    BY FirstIsAlone, CallParts DEF Turn, UnderWay, Inv
  <1>2. /\ canonical \in [Keys -> Values] /\ legacy \in [Keys -> Values]
        /\ said \in [Keys -> Values] /\ None \in Values
    BY DEF Inv, Types, Values
  <1>3. Found(c)
    BY DEF Inv, CallsHold
  <1>4. CASE ReadCanonical(c)
    <2>1. Ready /\ call[c].at = "asked" /\ call[c].do = "get"
      BY <1>4 DEF ReadCanonical, Turn
    <2>2. /\ storage' = storage /\ said' = said
          /\ \/ canonical[k] # None /\ Return(c, canonical[k], "settled")
             \/ canonical[k] = None /\ Advance(c, None, "missing")
      BY <1>4 DEF ReadCanonical
    <2>3. canonical[k] \in Values
      BY <1>1, <1>2, <2>1
    <2>4. CASE canonical[k] # None /\ Return(c, canonical[k], "settled")
      BY <1>1, <1>2, <2>1, <2>2, <2>3, <2>4, ReturnHolds DEF storage, Returned, Readable
    <2>5. CASE canonical[k] = None /\ Advance(c, None, "missing")
      BY <1>1, <1>2, <2>1, <2>2, <2>5, AdvanceHolds DEF storage, UnderWay, Readable
    <2> QED
      BY <2>2, <2>4, <2>5
  <1>5. CASE ReadLegacy(c)
    <2>1. Ready /\ call[c].at = "missing" /\ call[c].do = "get" /\ canonical[k] = None
      BY <1>3, <1>5 DEF ReadLegacy, At, UnderWay, Found
    <2>2. /\ storage' = storage /\ said' = said
          /\ \/ legacy[k] = None /\ Return(c, None, "settled")
             \/ legacy[k] # None /\ Advance(c, legacy[k], "found")
      BY <1>5 DEF ReadLegacy
    <2>3. legacy[k] \in Values
      BY <1>1, <1>2, <2>1
    <2>4. CASE legacy[k] = None /\ Return(c, None, "settled")
      BY <1>1, <1>2, <2>1, <2>2, <2>4, ReturnHolds DEF storage, Returned, Readable
    <2>5. CASE legacy[k] # None /\ Advance(c, legacy[k], "found")
      BY <1>1, <1>2, <2>1, <2>2, <2>3, <2>5, AdvanceHolds DEF storage, UnderWay, Readable
    <2> QED
      BY <2>2, <2>4, <2>5
  <1>6. CASE SetCanonical(c)
    <2>1. /\ Ready /\ call[c].at = "found" /\ call[c].do = "get" /\ canonical[k] = None
          /\ call[c].value = legacy[k] /\ call[c].value # None
      BY <1>3, <1>6 DEF SetCanonical, At, UnderWay, Found
    <2>2. /\ canonical' = [canonical EXCEPT ![k] = call[c].value]
          /\ Advance(c, call[c].value, "moved") /\ legacy' = legacy /\ said' = said
      BY <1>6 DEF SetCanonical
    <2>3. /\ canonical' \in [Keys -> Values] /\ canonical'[k] = call[c].value
          /\ \A q \in Keys : q # k => canonical'[q] = canonical[q]
      BY <1>1, <1>2, <2>1, <2>2
    <2>4. Readable(k)' = Readable(k)
      BY <2>1, <2>2, <2>3 DEF Readable
    <2> QED
      BY <1>1, <1>2, <2>1, <2>2, <2>3, <2>4, AdvanceHolds DEF UnderWay
  <1>7. CASE DropLegacy(c)
    <2>1. /\ Ready /\ call[c].at = "moved" /\ call[c].value # None
          /\ canonical[k] = call[c].value
      BY <1>3, <1>7 DEF DropLegacy, At, UnderWay, Found
    <2>2. /\ legacy' = [legacy EXCEPT ![k] = None] /\ canonical' = canonical /\ said' = said
          /\ Return(c, call[c].value, "settled")
      BY <1>7 DEF DropLegacy
    <2>3. legacy' \in [Keys -> Values] /\ \A q \in Keys : q # k => legacy'[q] = legacy[q]
      BY <1>1, <1>2, <2>1, <2>2
    <2>4. Readable(k)' = Readable(k)
      BY <2>1, <2>2 DEF Readable
    <2> QED
      BY <1>1, <1>2, <2>1, <2>2, <2>3, <2>4, ReturnHolds DEF Returned
  <1>8. CASE StoreValue(c)
    <2>1. Ready /\ call[c].at = "asked" /\ call[c].do = "store" /\ call[c].value # None
      BY <1>3, <1>8 DEF StoreValue, Turn, Found
    <2>2. /\ canonical' = [canonical EXCEPT ![k] = call[c].value] /\ legacy' = legacy
          /\ said' = [said EXCEPT ![k] = call[c].value] /\ Return(c, call[c].value, "settled")
      BY <1>8 DEF StoreValue
    <2>3. /\ canonical' \in [Keys -> Values] /\ said' \in [Keys -> Values]
          /\ canonical'[k] = call[c].value /\ said'[k] = call[c].value
          /\ \A q \in Keys : q # k => canonical'[q] = canonical[q] /\ said'[q] = said[q]
      BY <1>1, <1>2, <2>1, <2>2
    <2>4. Readable(k)' = said'[k]
      BY <2>1, <2>2, <2>3 DEF Readable
    <2> QED
      BY <1>1, <1>2, <2>1, <2>2, <2>3, <2>4, ReturnHolds DEF Returned
  <1>9. CASE DeleteCanonical(c)
    <2>1. Ready /\ call[c].at = "asked" /\ call[c].do = "delete"
      BY <1>9 DEF DeleteCanonical, Turn
    <2>2. /\ canonical' = [canonical EXCEPT ![k] = None] /\ legacy' = legacy /\ said' = said
          /\ Advance(c, None, "half")
      BY <1>9 DEF DeleteCanonical
    <2>3. /\ canonical' \in [Keys -> Values] /\ canonical'[k] = None
          /\ \A q \in Keys : q # k => canonical'[q] = canonical[q]
      BY <1>1, <1>2, <2>1, <2>2
    <2> QED
      BY <1>1, <1>2, <2>1, <2>2, <2>3, AdvanceHolds DEF UnderWay
  <1>10. CASE DeleteLegacy(c)
    <2>1. Ready /\ call[c].at = "half" /\ canonical[k] = None
      BY <1>3, <1>10 DEF DeleteLegacy, At, UnderWay, Found
    <2>2. /\ legacy' = [legacy EXCEPT ![k] = None] /\ canonical' = canonical
          /\ said' = [said EXCEPT ![k] = None] /\ Return(c, None, "settled")
      BY <1>10 DEF DeleteLegacy
    <2>3. /\ legacy' \in [Keys -> Values] /\ said' \in [Keys -> Values]
          /\ legacy'[k] = None /\ said'[k] = None
          /\ \A q \in Keys : q # k => legacy'[q] = legacy[q] /\ said'[q] = said[q]
      BY <1>1, <1>2, <2>1, <2>2
    <2>4. Readable(k)' = said'[k]
      BY <2>1, <2>2, <2>3 DEF Readable
    <2> QED
      BY <1>1, <1>2, <2>1, <2>2, <2>3, <2>4, ReturnHolds DEF Returned
  <1> QED
    BY <1>4, <1>5, <1>6, <1>7, <1>8, <1>9, <1>10 DEF Works

(* Rejections of Secret Storage. *)
LEMMA RejectionsHold ==
  ASSUME Inv, NEW c \in Callers, MoveRejected(c) \/ Rejected(c)
  PROVE  Inv'
  <1> SUFFICES ASSUME NEW k, k = call[c].key PROVE Inv'
    OBVIOUS
  <1> DEFINE Ready == Turn(c) \/ call[c].at \in UnderWay \ {"asked"}
  <1>1. Ready
    BY DEF MoveRejected, Rejected, At, UnderWay
  <1>2. k \in Keys /\ call[c].value \in Values
    BY <1>1, FirstIsAlone, CallParts DEF Turn, UnderWay, Inv
  <1>3. /\ canonical \in [Keys -> Values] /\ legacy \in [Keys -> Values]
        /\ said \in [Keys -> Values] /\ None \in Values
    BY DEF Inv, Types, Values
  <1>4. CASE MoveRejected(c)
    <2>1. /\ canonical' = canonical /\ legacy' = legacy /\ said' = said
          /\ Return(c, call[c].value, "settled") /\ call[c].at # "half"
      BY <1>4 DEF MoveRejected, At, storage
    <2>2. Readable(k)' = Readable(k)
      BY <2>1 DEF Readable
    <2> QED
      BY <1>1, <1>2, <1>3, <2>1, <2>2, ReturnHolds DEF Returned
  <1>5. CASE Rejected(c)
    <2>1. /\ canonical' = canonical /\ legacy' = legacy /\ Return(c, None, "rejected")
          /\ said' = [said EXCEPT ![k] = Readable(k)]
      BY <1>5 DEF Rejected, storage
    <2>2. Readable(k)' = Readable(k) /\ Readable(k) \in Values
      BY <1>2, <1>3, <2>1 DEF Readable
    <2>3. /\ said' \in [Keys -> Values] /\ said'[k] = Readable(k)
          /\ \A q \in Keys : q # k => said'[q] = said[q]
      BY <1>2, <1>3, <2>1, <2>2
    <2> QED
      BY <1>1, <1>2, <1>3, <2>1, <2>2, <2>3, ReturnHolds DEF Returned
  <1> QED
    BY <1>4, <1>5

(* A new call, or one whose result is taken. *)
LEMMA CallsPreserve ==
  ASSUME Inv, SecretRepositoryAssumption, NEW c \in Callers, Calls(c)
  PROVE  Inv'
  <1>1. call[c].at \notin UnderWay
    BY DEF Calls
  <1>2. /\ storage' = storage /\ said' = said
        /\ \A d \in Callers : d # c => call'[d] = call[d]
        /\ call'[c].at \in {"asked", "none"}
    BY DEF Calls, Ask, Forget, Inv, Types, NoCall
  <1>3. Types' /\ LockHolds'
    <2>1. ASSUME NEW do \in {"get", "store", "delete"}, NEW k \in Keys, NEW v \in Values, Ask(c, do, k, v)
          PROVE  Types' /\ LockHolds'
      BY <1>1, <2>1, AskLocks
    <2>2. CASE Forget(c)
      <3>1. Types' /\ fieldLocks' = fieldLocks
        BY <2>2 DEF Forget, storage, Inv, Types
      <3>2. \A d \in Callers, q \in Keys : OnNext(d, q) <=> On(d, q)
        BY <1>1, <1>2, <2>2 DEF On, OnNext, Forget, UnderWay, Inv, Types, NoCall
      <3>3. \A d \in Callers, q \in Keys : On(d, q) => d # c
        BY <1>1 DEF On
      <3>4. \A q \in Keys : \A i \in DOMAIN fieldLocks[q] : fieldLocks[q][i] \in Callers
        BY DEF Inv, Types
      <3> QED
        BY <1>2, <3>1, <3>2, <3>3, <3>4 DEF Inv, LockHolds, On, OnNext
    <2>3. Tokens \subseteq Values /\ None \in Values
      BY DEF Values
    <2> QED
      BY <2>1, <2>2, <2>3 DEF Calls
  <1>4. ASSUME NEW d \in Callers PROVE Found(d)'
    <2>1. CASE d = c
      <3>1. call'[c].at = "asked" /\ call'[c].do = "store" => call'[c].value # None
        BY DEF Calls, Ask, Forget, Inv, Types, NoCall, SecretRepositoryAssumption
      <3> QED
        BY <1>2, <2>1, <3>1 DEF Found
    <2>2. CASE d # c
      BY <1>2, <2>2 DEF Found, storage, Inv, CallsHold
    <2> QED
      BY <2>1, <2>2
  <1>5. ASSUME NEW q \in Keys PROVE ReadsAsSaid(q)'
    <2>1. Readable(q)' = Readable(q) /\ said'[q] = said[q] /\ ReadsAsSaid(q)
      BY <1>2 DEF Readable, storage, Inv, FieldsHold
    <2>2. ASSUME NEW d \in Callers, On(d, q), call[d].at = "half"
          PROVE  ReadsAsSaid(q)'
      <3>1. call'[d] = call[d]
        BY <1>1, <1>2, <2>2 DEF On
      <3> QED
        BY <2>2, <3>1 DEF ReadsAsSaid, On
    <2> QED
      BY <2>1, <2>2 DEF ReadsAsSaid
  <1> QED
    BY <1>3, <1>4, <1>5 DEF Inv, CallsHold, FieldsHold

(* The window goes away. *)
LEMMA LostHolds ==
  ASSUME Inv, Lost
  PROVE  Inv'
  <1>1. /\ canonical' = canonical /\ legacy' = legacy
        /\ fieldLocks' = [k \in Keys |-> <<>>] /\ call' = [c \in Callers |-> NoCall]
        /\ said' = [k \in Keys |-> IF fieldLocks[k] = <<>> THEN said[k] ELSE Readable(k)]
    BY DEF Lost, storage
  <1>2. \A k \in Keys : Readable(k)' = Readable(k) /\ Readable(k) \in Values
    BY <1>1 DEF Readable, Inv, Types
  <1>3. Types'
    <2>1. <<>> \in Seq(Callers)
      OBVIOUS
    <2> QED
      BY <1>1, <1>2, <2>1 DEF Inv, Types
  <1>4. \A c \in Callers : call'[c].at = "none"
    BY <1>1 DEF NoCall
  <1>5. LockHolds'
    <2>1. \A k \in Keys : fieldLocks'[k] = <<>> /\ DOMAIN fieldLocks'[k] = {}
      BY <1>1
    <2> QED
      BY <1>4, <2>1 DEF LockHolds, On, UnderWay
  <1>6. CallsHold'
    BY <1>4 DEF CallsHold, Found
  <1>7. ASSUME NEW k \in Keys PROVE Readable(k)' = said'[k]
    <2>1. CASE fieldLocks[k] = <<>>
      <3>1. \A c \in Callers : ~(On(c, k) /\ call[c].at = "half")
        BY <2>1 DEF Inv, LockHolds
      <3> QED
        BY <1>1, <1>2, <2>1, <3>1 DEF Inv, FieldsHold, ReadsAsSaid
    <2>2. CASE fieldLocks[k] # <<>>
      BY <1>1, <1>2, <2>2
    <2> QED
      BY <2>1, <2>2
  <1> QED
    BY <1>3, <1>5, <1>6, <1>7 DEF Inv, FieldsHold, ReadsAsSaid

-----------------------------------------------------------------------------
(* Theorems. *)

LEMMA InitHolds ==
  ASSUME RepositoryInit
  PROVE  Inv
  <1>1. \A c \in Callers : call[c].at = "none"
    BY DEF RepositoryInit, NoCall
  <1>2. \A k \in Keys : fieldLocks[k] = <<>> /\ DOMAIN fieldLocks[k] = {}
    <2>1. \A k \in Keys : fieldLocks[k] = <<>>
      BY DEF RepositoryInit
    <2>2. DOMAIN <<>> = {}
      OBVIOUS
    <2> QED
      BY <2>1, <2>2
  <1>3. \A k \in Keys : Readable(k) = said[k]
    BY DEF RepositoryInit, Readable
  <1>4. Types
    <2>1. <<>> \in Seq(Callers)
      OBVIOUS
    <2> QED
      BY <2>1 DEF RepositoryInit, Types
  <1> QED
    BY <1>1, <1>2, <1>3, <1>4
    DEF Inv, LockHolds, CallsHold, FieldsHold, Found, ReadsAsSaid, On, UnderWay

LEMMA NextHolds == SecretRepositoryAssumption /\ Inv /\ [RepositoryNext]_repository => Inv'
  <1> SUFFICES ASSUME SecretRepositoryAssumption, Inv, [RepositoryNext]_repository
               PROVE  Inv'
    OBVIOUS
  <1>1. CASE RepositoryNext
    BY <1>1, WorksHolds, RejectionsHold, CallsPreserve, LostHolds DEF RepositoryNext
  <1>2. CASE UNCHANGED repository
    <2>1. UNCHANGED <<canonical, legacy, fieldLocks, call, said>>
      BY <1>2 DEF repository, storage
    <2> QED
      BY <2>1 DEF Inv, Types, LockHolds, CallsHold, FieldsHold, Found, ReadsAsSaid, On, Readable
  <1> QED
    BY <1>1, <1>2

(* Whoever calls the repository, in whatever order calls are made, rejected  *)
(* and cut off: a field with no call under way reads as the calls that       *)
(* returned left it.                                                         *)
THEOREM ReturnedCallsAlwaysHold == RepositorySpec => []ReturnedCallsHold
  <1>1. Inv => ReturnedCallsHold
    <2> SUFFICES ASSUME Inv, NEW k \in Keys, fieldLocks[k] = <<>>
                 PROVE  Readable(k) = said[k]
      BY DEF ReturnedCallsHold
    <2>1. \A c \in Callers : ~(On(c, k) /\ call[c].at = "half")
      BY DEF Inv, LockHolds
    <2> QED
      BY <2>1 DEF Inv, FieldsHold, ReadsAsSaid
  <1> QED
    BY <1>1, InitHolds, NextHolds, SecretRepositoryAssumption, PTL DEF RepositorySpec

-----------------------------------------------------------------------------
(* The operations of the panel. *)

SimpleOperation ==
  [kind : {"store", "clear", "apply", "resolve"}, stage : {"calling"}, alone : BOOLEAN]
Save ==
  [kind : {"save"}, stage : {"copying", "clearing", "undoing"}, alone : BOOLEAN,
   list : Lists, base : Lists, pairs : SUBSET (Profiles \X Profiles),
   todo : SUBSET (Profiles \X Profiles \X Part)]
Operation == {Idle} \cup SimpleOperation \cup Save

PanelTypes == settings \in Lists /\ baseline \in Lists /\ op \in [Callers -> Operation]

(* An idle operation has no call, a save copies from renamed profiles only. *)
OperationHolds(c) ==
  /\ op[c].stage = "idle" => call[c].at = "none"
  /\ op[c].stage = "copying" => \A i \in op[c].todo : <<i[1], i[2]>> \in op[c].pairs
  /\ op[c].stage = "copying" /\ call[c].at # "none" /\ call[c].do = "get" =>
       \E q \in Profiles : <<call[c].key[1], q>> \in op[c].pairs

PanelInv == Inv /\ PanelTypes /\ \A c \in Callers : OperationHolds(c)

-----------------------------------------------------------------------------
(* Operations. *)

LEMMA OperationParts ==
  ASSUME NEW o \in Operation
  PROVE  /\ o.stage = "idle" => o = Idle
         /\ o.stage = "calling" => o \in SimpleOperation
         /\ o.stage \in {"copying", "clearing", "undoing"} => o \in Save
         /\ o.stage \in {"idle", "calling", "copying", "clearing", "undoing"}
  BY DEF Operation, SimpleOperation, Save, Idle

LEMMA TodoChanges ==
  ASSUME NEW o \in Save, NEW T \in SUBSET (Profiles \X Profiles \X Part)
  PROVE  /\ [o EXCEPT !.todo = T] \in Save /\ [o EXCEPT !.todo = T].todo = T
         /\ [o EXCEPT !.todo = T].stage = o.stage /\ [o EXCEPT !.todo = T].pairs = o.pairs
         /\ [o EXCEPT !.todo = T].kind = o.kind /\ [o EXCEPT !.todo = T].alone = o.alone
         /\ [o EXCEPT !.todo = T].base = o.base /\ [o EXCEPT !.todo = T].list = o.list
  BY DEF Save

LEMMA StageChanges ==
  ASSUME NEW o \in Save, NEW T \in SUBSET (Profiles \X Profiles \X Part),
         NEW at \in {"clearing", "undoing"}
  PROVE  /\ [o EXCEPT !.stage = at, !.todo = T] \in Save
         /\ [o EXCEPT !.stage = at, !.todo = T].stage = at
  BY DEF Save

LEMMA AloneChanges ==
  ASSUME NEW o \in SimpleOperation \cup Save, NEW b \in BOOLEAN
  PROVE  /\ [o EXCEPT !.alone = b] \in SimpleOperation \cup Save
         /\ [o EXCEPT !.alone = b].stage = o.stage
         /\ [o EXCEPT !.alone = b].kind = o.kind /\ [o EXCEPT !.alone = b].alone = b
         /\ o \in Save => /\ [o EXCEPT !.alone = b].todo = o.todo
                          /\ [o EXCEPT !.alone = b].pairs = o.pairs
                          /\ [o EXCEPT !.alone = b].base = o.base
                          /\ [o EXCEPT !.alone = b].list = o.list
  BY DEF SimpleOperation, Save

(* What is configured are profiles. *)
LEMMA ListsOfProfiles ==
  ASSUME AuthenticationProfilesAssumption, NEW l \in Lists
  PROVE  Range(l) \subseteq Profiles /\ l \in Seq(Profiles)
  BY DEF AuthenticationProfilesAssumption, Range

LEMMA RenamedProfiles ==
  ASSUME AuthenticationProfilesAssumption, NEW old \in Lists, NEW new \in Lists
  PROVE  renamed(old, new) \in SUBSET (Profiles \X Profiles)
  <1>1. old \in Seq(Profiles) /\ new \in Seq(Profiles)
    BY ListsOfProfiles
  <1>2. ASSUME Len(old) = Len(new), NEW i \in DOMAIN old
        PROVE  <<old[i], new[i]>> \in Profiles \X Profiles
    BY <1>1, <1>2
  <1> QED
    BY <1>2 DEF renamed

(* Other operations do not notice, but may learn that they are not alone. *)
LEMMA OthersKeep ==
  ASSUME NEW d \in Callers, op[d] \in Operation, OperationHolds(d), call'[d] = call[d],
         op'[d] = op[d] \/ (op[d] # Idle /\ op'[d] = [op[d] EXCEPT !.alone = FALSE])
  PROVE  OperationHolds(d)' /\ op'[d] \in Operation
  <1>1. CASE op'[d] = op[d]
    BY <1>1 DEF OperationHolds
  <1>2. CASE op[d] # Idle /\ op'[d] = [op[d] EXCEPT !.alone = FALSE]
    <2>1. op[d] \in SimpleOperation \cup Save
      BY <1>2 DEF Operation
    <2>2. op'[d] \in Operation /\ op'[d].stage = op[d].stage
      BY <1>2, <2>1, AloneChanges DEF Operation
    <2>3. op[d].stage = "copying" => op'[d].todo = op[d].todo /\ op'[d].pairs = op[d].pairs
      BY <1>2, <2>1, AloneChanges, OperationParts
    <2> QED
      BY <2>2, <2>3 DEF OperationHolds
  <1> QED
    BY <1>1, <1>2

(* A step of the repository stays within one call. *)
LEMMA SameCall ==
  ASSUME Inv, NEW c \in Callers, Works(c) \/ MoveRejected(c) \/ Rejected(c)
  PROVE  /\ call[c].at \in UnderWay
         /\ call'[c].key = call[c].key /\ call'[c].do = call[c].do
         /\ \A d \in Callers : d # c => call'[d] = call[d]
         /\ call'[c].at # "none"
  <1>1. call[c].at \in UnderWay
    BY DEF Works, ReadCanonical, ReadLegacy, SetCanonical, DropLegacy, StoreValue,
           DeleteCanonical, DeleteLegacy, MoveRejected, Rejected, Turn, At, UnderWay
  <1>2. call[c] \in Call
    BY <1>1, CallParts DEF UnderWay, Inv
  <1>3. \E v \in Values, at \in UnderWay \cup Returned :
           /\ call' = [call EXCEPT ![c].value = v, ![c].at = at]
    <2>1. call[c].value \in Values /\ None \in Values
      BY <1>2 DEF Call, Values
    <2>2. call[c].key \in Keys => canonical[call[c].key] \in Values /\ legacy[call[c].key] \in Values
      BY DEF Inv, Types
    <2>3. call[c].key \in Keys
      BY <1>2 DEF Call
    <2>4. ASSUME NEW v \in Values, NEW at \in UnderWay \cup Returned, Return(c, v, at) \/ Advance(c, v, at)
          PROVE  call' = [call EXCEPT ![c].value = v, ![c].at = at]
      BY <2>4 DEF Return, Advance
    <2>5. \E v \in Values, at \in UnderWay \cup Returned : Return(c, v, at) \/ Advance(c, v, at)
      BY <2>1, <2>2, <2>3
      DEF Works, ReadCanonical, ReadLegacy, SetCanonical, DropLegacy, StoreValue,
          DeleteCanonical, DeleteLegacy, MoveRejected, Rejected, UnderWay, Returned
    <2> QED
      BY <2>4, <2>5
  <1>4. \A d \in Callers : d # c => call'[d] = call[d]
    BY <1>3 DEF Inv, Types
  <1>5. PICK v \in Values, at \in UnderWay \cup Returned : call'[c] = [call[c] EXCEPT !.value = v, !.at = at]
    BY <1>3 DEF Inv, Types
  <1>6. call'[c].key = call[c].key /\ call'[c].do = call[c].do /\ call'[c].at = at
    BY <1>2, <1>5 DEF Call
  <1> QED
    BY <1>1, <1>4, <1>6 DEF UnderWay, Returned

(* An operation begins. *)
LEMMA BeginHolds ==
  ASSUME PanelInv, NEW c \in Callers, NEW task \in SimpleOperation \cup Save, NEW keys,
         Begin(c, task, keys),
         \A d \in Callers : d # c => call'[d] = call[d],
         task.stage = "copying" =>
            call'[c].at = "none" /\ \A i \in task.todo : <<i[1], i[2]>> \in task.pairs
  PROVE  /\ PanelTypes' /\ \A d \in Callers : OperationHolds(d)'
         /\ call[c].at = "none"
  <1> DEFINE others == {d \in Callers : changes(d)}
  <1>1. op[c] = Idle /\ call[c].at = "none"
    BY DEF Begin, Admit, PanelInv, OperationHolds, Idle
  <1>2. op' = [d \in Callers |->
              IF d = c THEN [task EXCEPT !.alone = others = {}]
              ELSE IF d \in others THEN [op[d] EXCEPT !.alone = FALSE] ELSE op[d]]
    BY DEF Begin
  <1>3. /\ op'[c] \in SimpleOperation \cup Save /\ op'[c].stage = task.stage
        /\ task \in Save => op'[c].todo = task.todo /\ op'[c].pairs = task.pairs
    <2>1. PICK b \in BOOLEAN : b = (others = {})
      OBVIOUS
    <2>2. op'[c] = [task EXCEPT !.alone = b]
      BY <1>2, <2>1
    <2> QED
      BY <2>2, AloneChanges
  <1>4. task.stage # "idle" /\ (task.stage = "copying" => task \in Save)
    BY DEF SimpleOperation, Save
  <1>5. OperationHolds(c)'
    BY <1>3, <1>4 DEF OperationHolds
  <1>6. ASSUME NEW d \in Callers, d # c
        PROVE  OperationHolds(d)' /\ op'[d] \in Operation
    <2>1. op'[d] = op[d] \/ (op[d] # Idle /\ op'[d] = [op[d] EXCEPT !.alone = FALSE])
      BY <1>2, <1>6 DEF changes, busy, Idle
    <2>2. call'[d] = call[d] /\ op[d] \in Operation /\ OperationHolds(d)
      BY <1>6 DEF PanelInv, PanelTypes
    <2> QED
      BY <2>1, <2>2, OthersKeep
  <1>7. op' \in [Callers -> Operation]
    BY <1>2, <1>3, <1>6 DEF Operation
  <1>8. settings' = settings /\ baseline' = baseline
    BY DEF Begin
  <1> QED
    BY <1>1, <1>5, <1>6, <1>7, <1>8 DEF PanelInv, PanelTypes

(* An operation goes on or ends. *)
LEMMA GoOnHolds ==
  ASSUME PanelInv, NEW c \in Callers, NEW o \in Operation, op' = [op EXCEPT ![c] = o],
         \A d \in Callers : d # c => call'[d] = call[d],
         settings' \in Lists, baseline' \in Lists,
         o.stage = "idle" => call'[c].at = "none",
         o.stage = "copying" => \A i \in o.todo : <<i[1], i[2]>> \in o.pairs,
         o.stage = "copying" /\ call'[c].at # "none" /\ call'[c].do = "get" =>
            \E q \in Profiles : <<call'[c].key[1], q>> \in o.pairs
  PROVE  PanelTypes' /\ \A d \in Callers : OperationHolds(d)'
  <1>1. op'[c] = o /\ op' \in [Callers -> Operation]
    BY DEF PanelInv, PanelTypes
  <1>2. OperationHolds(c)'
    BY <1>1 DEF OperationHolds
  <1>3. ASSUME NEW d \in Callers, d # c
        PROVE  OperationHolds(d)'
    <2>1. op'[d] = op[d] /\ call'[d] = call[d] /\ op[d] \in Operation /\ OperationHolds(d)
      BY <1>3 DEF PanelInv, PanelTypes
    <2> QED
      BY <2>1, OthersKeep
  <1> QED
    BY <1>1, <1>2, <1>3 DEF PanelTypes

-----------------------------------------------------------------------------
(* What the operations ask of the repository. *)

LEMMA CallStep ==
  ASSUME NEW c \in Callers, call[c].at \notin UnderWay
  PROVE  /\ \A k \in Keys, v \in Tokens : Ask(c, "store", k, v) => RepositoryNext
         /\ \A do \in {"get", "delete"}, k \in Keys : Ask(c, do, k, None) => RepositoryNext
         /\ Forget(c) => RepositoryNext
  BY DEF Calls, RepositoryNext

LEMMA OneCall ==
  ASSUME Inv, NEW c \in Callers
  PROVE  /\ \A do, k, v : Ask(c, do, k, v) =>
              /\ \A d \in Callers : d # c => call'[d] = call[d]
              /\ call'[c].at = "asked" /\ call'[c].do = do /\ call'[c].key = k
         /\ Forget(c) => /\ \A d \in Callers : d # c => call'[d] = call[d]
                         /\ call'[c].at = "none"
  BY DEF Ask, Forget, NoCall, Inv, Types

(* What each action does: the panel stays well formed, and the repository is *)
(* called as it may be.                                                      *)
WellBehaved ==
  /\ PanelTypes' /\ \A d \in Callers : OperationHolds(d)'
  /\ RepositoryNext \/ UNCHANGED repository

-----------------------------------------------------------------------------
(* Credentials, tokens and runs. *)

LEMMA Entering ==
  ASSUME PanelInv, AuthenticationProfilesAssumption, NEW c \in Callers,
         StoreSecret(c) \/ ClearSecret(c) \/ ApplyTokens(c)
  PROVE  WellBehaved
  <1>1. settings \in Lists /\ Range(settings) \subseteq Profiles
    BY ListsOfProfiles DEF PanelInv, PanelTypes
  <1>2. \A p \in Range(settings), f \in Field : <<p, f>> \in Keys
    BY <1>1 DEF AuthenticationProfilesAssumption
  <1>3. PICK kind \in {"store", "clear", "apply"}, k \in Keys, keys \in SUBSET Keys :
           /\ Begin(c, Simple(kind), keys)
           /\ \/ \E v \in Tokens : Ask(c, "store", k, v)
              \/ Ask(c, "delete", k, None)
    <2>1. CASE StoreSecret(c)
      <3>1. PICK p \in Range(settings), v \in Tokens :
               Begin(c, Simple("store"), {<<p, "credential">>}) /\ Ask(c, "store", <<p, "credential">>, v)
        BY <2>1 DEF StoreSecret
      <3> QED
        BY <1>2, <3>1 DEF Field
    <2>2. CASE ClearSecret(c)
      <3>1. PICK p \in Range(settings) :
               Begin(c, Simple("clear"), {<<p, "credential">>}) /\ Ask(c, "delete", <<p, "credential">>, None)
        BY <2>2 DEF ClearSecret
      <3> QED
        BY <1>2, <3>1 DEF Field
    <2>3. CASE ApplyTokens(c)
      <3>1. PICK p \in Range(settings), v \in Values :
               /\ Begin(c, Simple("apply"), {<<p, "session">>})
               /\ Ask(c, IF v = None THEN "delete" ELSE "store", <<p, "session">>, v)
        BY <2>3 DEF ApplyTokens
      <3>2. v = None \/ v \in Tokens
        BY DEF Values
      <3>3. \/ v = None /\ Ask(c, "delete", <<p, "session">>, None)
            \/ v \in Tokens /\ Ask(c, "store", <<p, "session">>, v)
        BY <3>1, <3>2
      <3> QED
        BY <1>2, <3>1, <3>3 DEF Field
    <2> QED
      BY <2>1, <2>2, <2>3
  <1>4. Simple(kind) \in SimpleOperation /\ Simple(kind).stage # "copying"
    BY DEF Simple, SimpleOperation
  <1>5. \A d \in Callers : d # c => call'[d] = call[d]
    BY <1>3, OneCall DEF PanelInv
  <1>6. /\ PanelTypes' /\ \A d \in Callers : OperationHolds(d)'
        /\ call[c].at = "none"
    BY <1>3, <1>4, <1>5, BeginHolds
  <1>7. RepositoryNext
    BY <1>3, <1>6, CallStep DEF UnderWay
  <1> QED
    BY <1>6, <1>7 DEF WellBehaved

LEMMA Resolving ==
  ASSUME PanelInv, AuthenticationProfilesAssumption, NEW c \in Callers, Resolve(c)
  PROVE  WellBehaved
  <1>1. settings \in Lists /\ Range(settings) \subseteq Profiles
    BY ListsOfProfiles DEF PanelInv, PanelTypes
  <1>2. PICK p \in Range(settings), f \in Field :
           /\ Admit(c) /\ op' = [op EXCEPT ![c] = Simple("resolve")]
           /\ Ask(c, "get", <<p, f>>, None) /\ UNCHANGED <<settings, baseline>>
    BY DEF Resolve
  <1>3. <<p, f>> \in Keys
    BY <1>1 DEF AuthenticationProfilesAssumption
  <1>4. call[c].at = "none"
    BY <1>2 DEF Admit, PanelInv, OperationHolds, Idle
  <1>5. Simple("resolve") \in Operation /\ Simple("resolve").stage = "calling"
    BY DEF Simple, Operation, SimpleOperation
  <1>6. PanelTypes' /\ \A d \in Callers : OperationHolds(d)'
    BY <1>2, <1>5, OneCall, GoOnHolds DEF PanelInv, PanelTypes
  <1>7. RepositoryNext
    BY <1>2, <1>3, <1>4, CallStep DEF UnderWay
  <1> QED
    BY <1>6, <1>7 DEF WellBehaved

(* An operation ends once its call has returned. *)
LEMMA Ending ==
  ASSUME PanelInv, NEW c \in Callers,
         call[c].at \notin UnderWay, Forget(c), op' = [op EXCEPT ![c] = Idle],
         settings' \in Lists, baseline' \in Lists
  PROVE  WellBehaved
  <1>1. Idle \in Operation /\ Idle.stage = "idle"
    BY DEF Idle, Operation
  <1>2. PanelTypes' /\ \A d \in Callers : OperationHolds(d)'
    BY <1>1, OneCall, GoOnHolds DEF PanelInv
  <1> QED
    BY <1>2, CallStep DEF WellBehaved

LEMMA Returning ==
  ASSUME PanelInv, AuthenticationProfilesAssumption, NEW c \in Callers,
         SecretChanged(c) \/ TokensApplied(c) \/ GiveUp(c) \/ Resolved(c)
  PROVE  WellBehaved
  <1>1. settings \in Lists /\ baseline \in Lists
    BY DEF PanelInv, PanelTypes
  <1>2. CASE SecretChanged(c)
    <2>1. /\ call[c].at = "settled" /\ Forget(c) /\ op' = [op EXCEPT ![c] = Idle]
          /\ settings' = settings /\ baseline' = settings
      BY <1>2 DEF SecretChanged, End
    <2> QED
      BY <1>1, <2>1, Ending DEF UnderWay
  <1>3. CASE TokensApplied(c)
    <2>1. /\ call[c].at = "settled" /\ Forget(c) /\ op' = [op EXCEPT ![c] = Idle]
          /\ settings' = settings /\ baseline' \in {baseline, settings}
      BY <1>3 DEF TokensApplied, End
    <2> QED
      BY <1>1, <2>1, Ending DEF UnderWay
  <1>4. CASE GiveUp(c)
    <2>1. /\ call[c].at = "rejected" /\ Forget(c) /\ op' = [op EXCEPT ![c] = Idle]
          /\ settings' = settings /\ baseline' = baseline
      BY <1>4 DEF GiveUp
    <2> QED
      BY <1>1, <2>1, Ending DEF UnderWay
  <1>5. CASE Resolved(c)
    <2>1. /\ call[c].at = "settled" /\ op[c].kind = "resolve"
          /\ settings' = settings /\ baseline' = baseline
          /\ \/ Forget(c) /\ op' = [op EXCEPT ![c] = Idle]
             \/ Ask(c, "get", <<call[c].key[1], "credential">>, None) /\ op' = op
      BY <1>5 DEF Resolved
    <2>2. CASE Forget(c) /\ op' = [op EXCEPT ![c] = Idle]
      BY <1>1, <2>1, <2>2, Ending DEF UnderWay
    <2>3. CASE Ask(c, "get", <<call[c].key[1], "credential">>, None) /\ op' = op
      <3>1. call[c].key \in Keys
        BY <2>1, CallParts DEF PanelInv, Inv
      <3>2. <<call[c].key[1], "credential">> \in Keys
        BY <3>1 DEF AuthenticationProfilesAssumption, Field
      <3>3. RepositoryNext
        BY <2>1, <2>3, <3>2, CallStep DEF UnderWay
      <3>4. op[c] \in Operation /\ op' = [op EXCEPT ![c] = op[c]]
        BY <2>3 DEF PanelInv, PanelTypes
      <3>5. op[c].stage = "calling"
        BY <2>1 DEF Operation, Idle, SimpleOperation, Save, PanelInv, PanelTypes
      <3>6. PanelTypes' /\ \A d \in Callers : OperationHolds(d)'
        <4>1. \A d \in Callers : d # c => call'[d] = call[d]
          BY <2>3, OneCall DEF PanelInv
        <4>2. settings' \in Lists /\ baseline' \in Lists
          BY <2>1 DEF PanelInv, PanelTypes
        <4> QED
          BY <1>1, <3>4, <3>5, <4>1, <4>2, GoOnHolds
      <3> QED
        BY <3>3, <3>6 DEF WellBehaved
    <2> QED
      BY <2>1, <2>2, <2>3
  <1> QED
    BY <1>2, <1>3, <1>4, <1>5

-----------------------------------------------------------------------------
(* Saves. *)

LEMMA BeginningSave ==
  ASSUME PanelInv, AuthenticationProfilesAssumption, NEW c \in Callers, BeginSave(c)
  PROVE  WellBehaved
  <1>1. PICK list \in Lists, keys \in {{}, Keys} : Begin(c, Saving(list), keys) /\ UNCHANGED repository
    BY DEF BeginSave
  <1> DEFINE pairs == renamed(baseline, list)
  <1>2. baseline \in Lists
    BY DEF PanelInv, PanelTypes
  <1>3. pairs \in SUBSET (Profiles \X Profiles)
    BY <1>2, RenamedProfiles
  <1>4. /\ toCopy(pairs) \in SUBSET (Profiles \X Profiles \X Part)
        /\ \A i \in toCopy(pairs) : <<i[1], i[2]>> \in pairs
    <2> HIDE DEF pairs
    <2> QED
      BY <1>3 DEF toCopy
  <1>5. /\ Saving(list) \in Save /\ Saving(list).todo = toCopy(pairs) /\ Saving(list).pairs = pairs
    BY <1>2, <1>3, <1>4 DEF Save, Saving
  <1>6. call' = call /\ op[c] = Idle
    BY <1>1 DEF repository, Begin, Admit
  <1>7. call'[c].at = "none"
    BY <1>6 DEF PanelInv, OperationHolds, Idle
  <1>8. PanelTypes' /\ \A d \in Callers : OperationHolds(d)'
    BY <1>1, <1>4, <1>5, <1>6, <1>7, BeginHolds
  <1> QED
    BY <1>1, <1>8 DEF WellBehaved

(* Something is done, or found needless, for a part of a profile. *)
LEMMA DoingLess ==
  ASSUME PanelInv, NEW c \in Callers, op[c].stage \in {"copying", "clearing", "undoing"},
         NEW T, T \subseteq op[c].todo, op' = [op EXCEPT ![c].todo = T],
         UNCHANGED <<settings, baseline>>,
         \A d \in Callers : d # c => call'[d] = call[d],
         op[c].stage = "copying" /\ call'[c].at # "none" /\ call'[c].do = "get" =>
            \E q \in Profiles : <<call'[c].key[1], q>> \in op[c].pairs
  PROVE  PanelTypes' /\ \A d \in Callers : OperationHolds(d)'
  <1>1. op[c] \in Save
    BY OperationParts DEF PanelInv, PanelTypes
  <1>2. T \in SUBSET (Profiles \X Profiles \X Part)
    BY <1>1 DEF Save
  <1> DEFINE o == [op[c] EXCEPT !.todo = T]
  <1>3. o \in Operation /\ o.stage = op[c].stage /\ o.pairs = op[c].pairs /\ o.todo = T
    BY <1>1, <1>2, TodoChanges DEF Operation
  <1>4. op' = [op EXCEPT ![c] = o]
    OBVIOUS
  <1>5. o.stage = "copying" => \A i \in o.todo : <<i[1], i[2]>> \in o.pairs
    BY <1>3 DEF PanelInv, OperationHolds
  <1>6. settings' \in Lists /\ baseline' \in Lists /\ o.stage # "idle"
    BY <1>3 DEF PanelInv, PanelTypes
  <1> HIDE DEF o
  <1> QED
    BY <1>3, <1>4, <1>5, <1>6, GoOnHolds

(* A save has the repository read, stored to or cleared. *)
LEMMA Asking ==
  ASSUME PanelInv, AuthenticationProfilesAssumption, NEW c \in Callers,
         CopyField(c) \/ ClearField(c)
  PROVE  WellBehaved
  <1>1. PICK do \in {"get", "delete"}, item \in op[c].todo :
           /\ call[c].at = "none" /\ item[3] # "metadata" /\ Ask(c, do, <<item[1], item[3]>>, None)
           /\ UNCHANGED <<settings, baseline, op>>
           /\ op[c].stage \in {"copying", "clearing", "undoing"}
           /\ do = "get" => op[c].stage = "copying"
           /\ do = "delete" => op[c].stage # "copying"
    BY DEF CopyField, ClearField, panel
  <1>2. op[c] \in Save
    BY <1>1, OperationParts DEF PanelInv, PanelTypes
  <1>3. item[1] \in Profiles /\ item[2] \in Profiles /\ item[3] \in Field
    BY <1>1, <1>2 DEF Save, Part
  <1>4. RepositoryNext
    BY <1>1, <1>3, CallStep DEF AuthenticationProfilesAssumption, UnderWay
  <1>5. /\ \A d \in Callers : d # c => call'[d] = call[d]
        /\ call'[c].do = do /\ call'[c].key = <<item[1], item[3]>>
    BY <1>1, OneCall DEF PanelInv
  <1>6. op[c].stage = "copying" => <<item[1], item[2]>> \in op[c].pairs
    BY <1>1 DEF PanelInv, OperationHolds
  <1>7. op' = [op EXCEPT ![c].todo = op[c].todo]
    BY <1>1, <1>2 DEF PanelInv, PanelTypes, Save
  <1>8. op[c].stage = "copying" => \E q \in Profiles : <<call'[c].key[1], q>> \in op[c].pairs
    BY <1>3, <1>5, <1>6
  <1>9. PanelTypes' /\ \A d \in Callers : OperationHolds(d)'
    BY <1>1, <1>5, <1>7, <1>8, DoingLess
  <1> QED
    BY <1>4, <1>9 DEF WellBehaved

LEMMA Storing ==
  ASSUME PanelInv, AuthenticationProfilesAssumption, NEW c \in Callers, FieldRead(c)
  PROVE  WellBehaved
  <1> DEFINE p == call[c].key[1]
  <1> DEFINE f == call[c].key[2]
  <1>1. /\ op[c].stage = "copying" /\ call[c].at = "settled" /\ call[c].do = "get"
        /\ UNCHANGED <<settings, baseline>>
    BY DEF FieldRead
  <1>2. call[c].key \in Keys /\ call[c].value \in Values
    BY <1>1, CallParts DEF PanelInv, Inv
  <1>3. p \in Profiles /\ f \in Field
    BY <1>2 DEF AuthenticationProfilesAssumption
  <1>4. \E q \in Profiles : <<p, q>> \in op[c].pairs
    BY <1>1 DEF PanelInv, OperationHolds
  <1>5. target(c, p) \in Profiles
    BY <1>4 DEF target
  <1>6. CASE call[c].value = None
    <2>1. Forget(c) /\ op' = [op EXCEPT ![c].todo = op[c].todo \ {<<p, target(c, p), f>>}]
      BY <1>6 DEF FieldRead
    <2>2. PICK T : T \subseteq op[c].todo /\ op' = [op EXCEPT ![c].todo = T]
      BY <2>1
    <2>3. PanelTypes' /\ \A d \in Callers : OperationHolds(d)'
      BY <1>1, <2>1, <2>2, OneCall, DoingLess DEF PanelInv
    <2> QED
      BY <1>1, <2>1, <2>3, CallStep DEF WellBehaved, UnderWay
  <1>7. CASE call[c].value # None
    <2>1. Ask(c, "store", <<target(c, p), f>>, call[c].value) /\ op' = op
      BY <1>7 DEF FieldRead
    <2>2. <<target(c, p), f>> \in Keys /\ call[c].value \in Tokens
      BY <1>2, <1>3, <1>5, <1>7 DEF AuthenticationProfilesAssumption, Values
    <2>3. RepositoryNext
      BY <1>1, <2>1, <2>2, CallStep DEF UnderWay
    <2>4. op[c] \in Save
      BY <1>1, OperationParts DEF PanelInv, PanelTypes
    <2>5. op' = [op EXCEPT ![c].todo = op[c].todo]
      BY <2>1, <2>4 DEF PanelInv, PanelTypes, Save
    <2>6. /\ \A d \in Callers : d # c => call'[d] = call[d]
          /\ call'[c].do = "store"
      BY <2>1, OneCall DEF PanelInv
    <2>7. PanelTypes' /\ \A d \in Callers : OperationHolds(d)'
      BY <1>1, <2>5, <2>6, DoingLess
    <2> QED
      BY <2>3, <2>7 DEF WellBehaved
  <1> QED
    BY <1>6, <1>7

LEMMA Done ==
  ASSUME PanelInv, AuthenticationProfilesAssumption, NEW c \in Callers,
         FieldCopied(c) \/ FieldCleared(c) \/ Remount(c) \/ DeleteSession(c)
  PROVE  WellBehaved
  <1>1. CASE FieldCopied(c) \/ FieldCleared(c)
    <2>1. /\ op[c].stage \in {"copying", "clearing", "undoing"} /\ call[c].at = "settled"
          /\ Forget(c) /\ UNCHANGED <<settings, baseline>>
      BY <1>1 DEF FieldCopied, FieldCleared
    <2>2. PICK T : T \subseteq op[c].todo /\ op' = [op EXCEPT ![c].todo = T]
      <3>1. {i \in op[c].todo : <<i[2], i[3]>> # call[c].key} \subseteq op[c].todo
        OBVIOUS
      <3>2. {i \in op[c].todo : <<i[1], i[3]>> # call[c].key} \subseteq op[c].todo
        OBVIOUS
      <3>3. \/ op' = [op EXCEPT ![c].todo = {i \in op[c].todo : <<i[2], i[3]>> # call[c].key}]
            \/ op' = [op EXCEPT ![c].todo = {i \in op[c].todo : <<i[1], i[3]>> # call[c].key}]
        BY <1>1 DEF FieldCopied, FieldCleared
      <3> QED
        BY <3>1, <3>2, <3>3
    <2>3. PanelTypes' /\ \A d \in Callers : OperationHolds(d)'
      BY <2>1, <2>2, OneCall, DoingLess DEF PanelInv
    <2> QED
      BY <2>1, <2>3, CallStep DEF WellBehaved, UnderWay
  <1>2. CASE Remount(c) \/ DeleteSession(c)
    <2>1. /\ op[c].stage \in {"copying", "clearing", "undoing"} /\ call[c].at = "none"
          /\ UNCHANGED <<settings, baseline, repository>>
      BY <1>2 DEF Remount, DeleteSession
    <2>2. PICK T : T \subseteq op[c].todo /\ op' = [op EXCEPT ![c].todo = T]
      <3>1. PICK item : op' = [op EXCEPT ![c].todo = op[c].todo \ {item}]
        BY <1>2 DEF Remount, DeleteSession
      <3> QED
        BY <3>1
    <2>3. /\ call' = call
          /\ op[c].stage = "copying" => call'[c].at = "none"
      BY <2>1 DEF repository
    <2>4. PanelTypes' /\ \A d \in Callers : OperationHolds(d)'
      BY <2>1, <2>2, <2>3, DoingLess
    <2> QED
      BY <2>1, <2>4 DEF WellBehaved
  <1> QED
    BY <1>1, <1>2

(* What there is to clear are parts of profiles. *)
LEMMA LaterTodo ==
  ASSUME AuthenticationProfilesAssumption, NEW save \in Save
  PROVE  /\ toClear(save) \in SUBSET (Profiles \X Profiles \X Part)
         /\ toUndo(save) \in SUBSET (Profiles \X Profiles \X Part)
  <1>1. save.pairs \subseteq Profiles \X Profiles /\ Field \subseteq Part
    BY DEF Save, Part
  <1>2. toClear(save) \in SUBSET (Profiles \X Profiles \X Part)
    <2>1. Range(save.base) \ Range(save.list) \subseteq Profiles
      BY ListsOfProfiles DEF Save
    <2>2. {r[1] : r \in save.pairs} \subseteq Profiles
      BY <1>1
    <2> QED
      BY <1>1, <2>1, <2>2 DEF toClear
  <1>3. toUndo(save) \in SUBSET (Profiles \X Profiles \X Part)
    BY <1>1 DEF toUndo
  <1> QED
    BY <1>2, <1>3

LEMMA Writing ==
  ASSUME PanelInv, AuthenticationProfilesAssumption, NEW c \in Callers,
         WriteSettings(c) \/ WriteFails(c)
  PROVE  WellBehaved
  <1>1. op[c].stage = "copying" /\ baseline' = baseline /\ UNCHANGED repository
    BY DEF WriteSettings, WriteFails
  <1>2. op[c] \in Save /\ baseline \in Lists /\ settings \in Lists
    BY <1>1, OperationParts DEF PanelInv, PanelTypes
  <1>3. settings' \in Lists
    BY <1>2 DEF WriteSettings, WriteFails, Save
  <1>4. PICK at \in {"clearing", "undoing"}, T \in SUBSET (Profiles \X Profiles \X Part) :
           op' = [op EXCEPT ![c].stage = at, ![c].todo = T]
    BY <1>2, LaterTodo DEF WriteSettings, WriteFails
  <1> DEFINE o == [op[c] EXCEPT !.stage = at, !.todo = T]
  <1>5. o \in Operation /\ o.stage = at
    BY <1>2, <1>4, StageChanges DEF Operation
  <1>6. op' = [op EXCEPT ![c] = o]
    BY <1>4 DEF PanelInv, PanelTypes
  <1>7. call' = call
    BY <1>1 DEF repository
  <1>8. PanelTypes' /\ \A d \in Callers : OperationHolds(d)'
    <2> HIDE DEF o
    <2> QED
      BY <1>1, <1>2, <1>3, <1>4, <1>5, <1>6, <1>7, GoOnHolds
  <1> QED
    BY <1>1, <1>8 DEF WellBehaved

LEMMA EndingSave ==
  ASSUME PanelInv, NEW c \in Callers, EndSave(c)
  PROVE  WellBehaved
  <1>1. /\ op' = [op EXCEPT ![c] = Idle] /\ call[c].at = "none" /\ UNCHANGED repository
        /\ settings' = settings /\ baseline' \in {settings, baseline}
    BY DEF EndSave
  <1>2. Idle \in Operation /\ Idle.stage = "idle"
    BY DEF Idle, Operation
  <1>3. settings' \in Lists /\ baseline' \in Lists /\ call' = call
    BY <1>1 DEF PanelInv, PanelTypes, repository
  <1>4. PanelTypes' /\ \A d \in Callers : OperationHolds(d)'
    BY <1>1, <1>2, <1>3, GoOnHolds
  <1> QED
    BY <1>1, <1>4 DEF WellBehaved

-----------------------------------------------------------------------------
(* Steps of the repository, and the window. *)

LEMMA RepositorySteps ==
  ASSUME PanelInv, NEW c \in Callers, Proceeds(c) \/ Reject(c)
  PROVE  WellBehaved
  <1>1. Works(c) \/ MoveRejected(c) \/ Rejected(c)
    BY DEF Proceeds, Reject
  <1>2. UNCHANGED <<settings, baseline, op>>
    BY DEF Proceeds, Reject, panel
  <1>3. /\ call[c].at \in UnderWay /\ call'[c].key = call[c].key /\ call'[c].do = call[c].do
        /\ \A d \in Callers : d # c => call'[d] = call[d]
    BY <1>1, SameCall DEF PanelInv
  <1>4. PanelTypes'
    BY <1>2 DEF PanelInv, PanelTypes
  <1>5. ASSUME NEW d \in Callers PROVE OperationHolds(d)'
    BY <1>2, <1>3 DEF PanelInv, OperationHolds, UnderWay
  <1>6. RepositoryNext
    BY <1>1 DEF RepositoryNext
  <1> QED
    BY <1>4, <1>5, <1>6 DEF WellBehaved

LEMMA Reloading ==
  ASSUME PanelInv, Reload
  PROVE  WellBehaved
  <1>1. /\ Lost /\ op' = [c \in Callers |-> Idle] /\ settings' = settings /\ baseline' = settings
        /\ call' = [c \in Callers |-> NoCall]
    BY DEF Reload, Lost
  <1>2. PanelTypes'
    BY <1>1 DEF PanelInv, PanelTypes, Operation
  <1>3. ASSUME NEW d \in Callers PROVE OperationHolds(d)'
    BY <1>1 DEF OperationHolds, Idle, NoCall
  <1> QED
    BY <1>1, <1>2, <1>3 DEF WellBehaved, RepositoryNext

-----------------------------------------------------------------------------
(* Theorems. *)

LEMMA PanelStarts ==
  ASSUME Init
  PROVE  PanelInv
  <1>1. Inv
    BY InitHolds DEF Init
  <1>2. PanelTypes
    BY DEF Init, PanelTypes, Operation
  <1>3. ASSUME NEW c \in Callers PROVE OperationHolds(c)
    BY DEF Init, RepositoryInit, OperationHolds, Idle, NoCall
  <1> QED
    BY <1>1, <1>2, <1>3 DEF PanelInv

LEMMA PanelSteps ==
  PanelInv /\ [Next]_allVars => PanelInv' /\ [RepositoryNext]_repository
  <1> SUFFICES ASSUME PanelInv, [Next]_allVars
               PROVE  PanelInv' /\ [RepositoryNext]_repository
    OBVIOUS
  <1>1. CASE Next
    <2>1. WellBehaved
      BY <1>1, AuthenticationProfilesAssumption, Entering, Resolving, Returning, BeginningSave,
         Asking, Storing, Done, Writing, EndingSave, RepositorySteps, Reloading DEF Next
    <2>2. Inv'
      BY <2>1, NextHolds, SecretRepositoryAssumption DEF WellBehaved, PanelInv
    <2> QED
      BY <2>1, <2>2 DEF WellBehaved, PanelInv
  <1>2. CASE UNCHANGED allVars
    <2>1. UNCHANGED <<settings, baseline, op, repository>>
      BY <1>2 DEF allVars, panel
    <2>2. Inv'
      BY <2>1, NextHolds, SecretRepositoryAssumption DEF PanelInv
    <2>3. call' = call
      BY <2>1 DEF repository
    <2> QED
      BY <2>1, <2>2, <2>3 DEF PanelInv, PanelTypes, OperationHolds
  <1> QED
    BY <1>1, <1>2

(* Every behaviour of the panel's operations, the runs, the rejections and   *)
(* the reloads is one of the repository with callers that have one call      *)
(* under way at a time.                                                      *)
THEOREM OperationsCallTheRepository == Spec => RepositorySpec
  <1>1. Init => RepositoryInit
    BY DEF Init
  <1> QED
    BY <1>1, PanelStarts, PanelSteps, PTL DEF Spec, RepositorySpec

(* So saves, logins, prompts and runs find what the calls that returned left *)
(* in a field, whatever was rejected and wherever the window was reloaded.   *)
THEOREM PanelCallsHold == Spec => []ReturnedCallsHold
  BY OperationsCallTheRepository, ReturnedCallsAlwaysHold

-----------------------------------------------------------------------------
(* What the user may expect of a field. An operation that changes something  *)
(* and is alone works on fields nothing is expected of: the one that is      *)
(* entered, those of new ids, into which a save copies, and those of ids     *)
(* that are not configured any more. What it has copied so far reads as its  *)
(* origin. Once two of them overlap nothing is expected of any field.        *)
Owing == owed \in [Keys -> Values] /\ session \in [Profiles -> Values \cup {Absent}]
Nothing == owed = nothingOwed

Kept ==
  \A k \in Keys : owed[k] # None =>
    /\ k[1] \in Range(settings) /\ Readable(k) = owed[k]
    /\ k[2] = "session" => session[k[1]] = owed[k]

Apart == \A c, d \in Callers : c # d /\ changes(c) /\ changes(d) => ~op[c].alone
Overlapping == \A c \in Callers : changes(c) /\ ~op[c].alone => Nothing
OnlyReads == \A c \in Callers : op[c].kind = "resolve" /\ call[c].at # "none" => call[c].do = "get"

EntersOne(c) ==
  call[c].at # "none" =>
    /\ call[c].key[1] \in Range(settings) /\ owed[call[c].key] = None
    /\ op[c].kind = "apply" <=> call[c].key[2] = "session"
    /\ call[c].do # "get"
    /\ call[c].do = "delete" => call[c].value = None
    /\ call[c].do = "store" /\ call[c].at = "settled" => Readable(call[c].key) = call[c].value

Copied(c, r) ==
  /\ \A f \in Field : \/ <<r[1], r[2], f>> \in op[c].todo
                      \/ Readable(<<r[1], f>>) \in {None, Readable(<<r[2], f>>)}
  /\ \/ <<r[1], r[2], "metadata">> \in op[c].todo
     \/ session[r[1]] \in {Absent, session[r[2]]}

CopyingFrom(c, r, f) ==
  /\ call[c].do = "get" /\ call[c].key = <<r[1], f>>
  /\ call[c].at = "settled" => call[c].value = Readable(<<r[1], f>>)

CopyingTo(c, r, f) ==
  /\ call[c].do = "store" /\ call[c].key = <<r[2], f>>
  /\ call[c].at # "rejected" => call[c].value = Readable(<<r[1], f>>)
  /\ call[c].at = "settled" => Readable(<<r[2], f>>) = call[c].value

Copies(c) ==
  /\ op[c].pairs = renamed(op[c].base, op[c].list)
  /\ Nothing \/ op[c].base = settings
  /\ \A r \in op[c].pairs : Copied(c, r)
  /\ call[c].at # "none" =>
       \E r \in op[c].pairs, f \in Field : CopyingFrom(c, r, f) \/ CopyingTo(c, r, f)

Clears(c) ==
  \/ Nothing
  \/ /\ \A i \in op[c].todo : i[1] \notin Range(settings)
     /\ call[c].at # "none" => call[c].key[1] \notin Range(settings)

Quiet(c) == changes(c) /\ op[c].alone

Expects(c) ==
  Quiet(c) =>
    /\ op[c].stage = "calling" => EntersOne(c)
    /\ op[c].stage = "copying" => Copies(c)
    /\ op[c].stage \in {"clearing", "undoing"} => Clears(c)

OwedInv ==
  /\ PanelInv /\ Owing /\ Kept /\ Apart /\ Overlapping /\ OnlyReads
  /\ \A c \in Callers : Expects(c)

(* Nothing a field may be expected to hold is touched. *)
Still == UNCHANGED <<settings, session, owed>> /\ \A k \in Keys : Readable(k)' = Readable(k)

LEMMA Stages ==
  ASSUME PanelTypes, NEW c \in Callers
  PROVE  /\ op[c].stage \in {"copying", "clearing", "undoing"} => changes(c) /\ op[c] \in Save
         /\ op[c].stage = "calling" => /\ op[c] \in SimpleOperation
                                       /\ changes(c) <=> op[c].kind # "resolve"
         /\ op[c].stage = "idle" => op[c] = Idle /\ ~changes(c)
         /\ op[c].kind = "resolve" => op[c].stage = "calling"
         /\ op[c].stage \in {"idle", "calling", "copying", "clearing", "undoing"}
  <1>1. op[c] \in Operation
    BY DEF PanelTypes
  <1> QED
    BY <1>1 DEF Operation, SimpleOperation, Save, Idle, changes, busy

(* The ids of a renamed profile. *)
LEMMA PairsDiffer ==
  ASSUME AuthenticationProfilesAssumption, NEW old \in Lists, NEW new \in Lists,
         NEW r \in renamed(old, new)
  PROVE  /\ r = <<r[1], r[2]>> /\ r[1] \in Profiles /\ r[2] \in Profiles
         /\ r[1] \in Range(old) \ Range(new) /\ r[2] \in Range(new) \ Range(old)
         /\ \A s \in renamed(old, new) : s[1] = r[1] \/ s[2] = r[2] => s = r
  <1>1. /\ old \in Seq(Profiles) /\ new \in Seq(Profiles)
        /\ \A i, j \in DOMAIN old : old[i] = old[j] => i = j
        /\ \A i, j \in DOMAIN new : new[i] = new[j] => i = j
    BY ListsOfProfiles DEF AuthenticationProfilesAssumption, IsInjective
  <1>2. Len(old) = Len(new) /\ DOMAIN old = DOMAIN new
    BY <1>1 DEF renamed
  <1>3. PICK i \in DOMAIN old : /\ r = <<old[i], new[i]>>
                                /\ old[i] \notin Range(new) /\ new[i] \notin Range(old)
    BY <1>2 DEF renamed
  <1>4. old[i] \in Profiles /\ new[i] \in Profiles /\ old[i] \in Range(old) /\ new[i] \in Range(new)
    BY <1>1, <1>2 DEF Range
  <1>5. ASSUME NEW s \in renamed(old, new), s[1] = r[1] \/ s[2] = r[2]
        PROVE  s = r
    <2>1. PICK j \in DOMAIN old : s = <<old[j], new[j]>>
      BY <1>2 DEF renamed
    <2> QED
      BY <1>1, <1>2, <1>3, <1>5, <2>1
  <1> QED
    BY <1>3, <1>4, <1>5

(* What a step of the repository does to what is read. *)
LEMMA StepReads ==
  ASSUME Inv, NEW c \in Callers, Works(c) \/ MoveRejected(c) \/ Rejected(c),
         NEW k, k = call[c].key
  PROVE  /\ k \in Keys
         /\ \A q \in Keys : q # k => Readable(q)' = Readable(q)
         /\ call[c].do = "get" =>
              /\ Readable(k)' = Readable(k)
              /\ call'[c].at = "settled" => call'[c].value = Readable(k)
         /\ call[c].do = "store" =>
              \/ /\ call'[c].at = "settled" /\ call'[c].value = call[c].value
                 /\ Readable(k)' = call[c].value
              \/ call'[c].at = "rejected" /\ Readable(k)' = Readable(k)
         /\ call[c].do = "delete" => call'[c].value = None
  <1>1. call[c].at \in UnderWay
    BY SameCall
  <1>2. call[c] \in Call /\ k \in Keys
    BY <1>1, CallParts DEF UnderWay, Inv, Call
  <1>3. \A v, at : Return(c, v, at) \/ Advance(c, v, at) => call'[c].value = v /\ call'[c].at = at
    BY <1>2 DEF Return, Advance, Inv, Types, Call
  <1>4. canonical \in [Keys -> Values] /\ legacy \in [Keys -> Values] /\ Found(c)
    BY DEF Inv, Types, CallsHold
  <1>5. CASE ReadCanonical(c)
    BY <1>2, <1>3, <1>5 DEF ReadCanonical, Turn, storage, Readable
  <1>6. CASE ReadLegacy(c)
    BY <1>2, <1>3, <1>4, <1>6 DEF ReadLegacy, At, storage, Readable, Found
  <1>7. CASE SetCanonical(c)
    <2>1. /\ call[c].do = "get" /\ canonical[k] = None /\ call[c].value = legacy[k]
          /\ call[c].value # None /\ legacy' = legacy
          /\ canonical' = [canonical EXCEPT ![k] = call[c].value] /\ call'[c].at = "moved"
      BY <1>3, <1>4, <1>7 DEF SetCanonical, At, Found
    <2>2. canonical'[k] = call[c].value /\ \A q \in Keys : q # k => canonical'[q] = canonical[q]
      BY <1>2, <1>4, <2>1
    <2> QED
      BY <1>2, <2>1, <2>2 DEF Readable
  <1>8. CASE DropLegacy(c)
    <2>1. /\ call[c].do = "get" /\ canonical[k] = call[c].value /\ call[c].value # None
          /\ canonical' = canonical /\ legacy' = [legacy EXCEPT ![k] = None]
          /\ call'[c].value = call[c].value
      BY <1>3, <1>4, <1>8 DEF DropLegacy, At, Found
    <2>2. \A q \in Keys : q # k => legacy'[q] = legacy[q]
      BY <1>4, <2>1
    <2> QED
      BY <1>2, <2>1, <2>2 DEF Readable
  <1>9. CASE StoreValue(c)
    <2>1. /\ call[c].do = "store" /\ call[c].at = "asked" /\ call[c].value # None
          /\ canonical' = [canonical EXCEPT ![k] = call[c].value] /\ legacy' = legacy
          /\ call'[c].value = call[c].value /\ call'[c].at = "settled"
      BY <1>3, <1>4, <1>9 DEF StoreValue, Turn, Found
    <2>2. canonical'[k] = call[c].value /\ \A q \in Keys : q # k => canonical'[q] = canonical[q]
      BY <1>2, <1>4, <2>1
    <2> QED
      BY <1>2, <2>1, <2>2 DEF Readable
  <1>10. CASE DeleteCanonical(c)
    <2>1. /\ call[c].do = "delete" /\ call'[c].value = None
          /\ canonical' = [canonical EXCEPT ![k] = None] /\ legacy' = legacy
      BY <1>3, <1>10 DEF DeleteCanonical
    <2>2. \A q \in Keys : q # k => canonical'[q] = canonical[q]
      BY <1>4, <2>1
    <2> QED
      BY <1>2, <2>1, <2>2 DEF Readable
  <1>11. CASE DeleteLegacy(c)
    <2>1. /\ call[c].do = "delete" /\ call'[c].value = None
          /\ legacy' = [legacy EXCEPT ![k] = None] /\ canonical' = canonical
      BY <1>3, <1>11 DEF DeleteLegacy, At
    <2>2. \A q \in Keys : q # k => legacy'[q] = legacy[q]
      BY <1>4, <2>1
    <2> QED
      BY <1>2, <2>1, <2>2 DEF Readable
  <1>12. CASE MoveRejected(c)
    <2>1. /\ call[c].do = "get" /\ canonical' = canonical /\ legacy' = legacy
          /\ call'[c].value = call[c].value
          /\ call[c].at = "found" \/ call[c].at = "moved"
      BY <1>3, <1>12 DEF MoveRejected, At, storage
    <2> QED
      BY <1>2, <1>4, <2>1 DEF Readable, Found
  <1>13. CASE Rejected(c)
    <2>1. /\ canonical' = canonical /\ legacy' = legacy
          /\ call'[c].value = None /\ call'[c].at = "rejected"
      BY <1>3, <1>13 DEF Rejected, storage
    <2> QED
      BY <1>2, <2>1 DEF Readable
  <1> QED
    BY <1>5, <1>6, <1>7, <1>8, <1>9, <1>10, <1>11, <1>12, <1>13 DEF Works

(* Renamed profiles have fields. *)
LEMMA PairKeys ==
  ASSUME AuthenticationProfilesAssumption, PanelInv, NEW c \in Callers, op[c].stage = "copying",
         NEW r \in op[c].pairs, NEW f \in Field
  PROVE  <<r[1], f>> \in Keys /\ <<r[2], f>> \in Keys
  <1>1. op[c].pairs \subseteq Profiles \X Profiles
    BY Stages DEF PanelInv, Save
  <1> QED
    BY <1>1 DEF AuthenticationProfilesAssumption

(* Who does nothing meanwhile may expect the same as before. *)
LEMMA StillExpects ==
  ASSUME OwedInv, AuthenticationProfilesAssumption, NEW c \in Callers,
         call'[c] = call[c], op'[c] = op[c], Still
  PROVE  Expects(c)'
  <1> SUFFICES ASSUME Quiet(c)' PROVE Expects(c)'
    BY DEF Expects
  <1>1. Quiet(c) /\ Expects(c) /\ PanelInv
    BY DEF Quiet, changes, busy, OwedInv
  <1>2. \A k \in Keys : Readable(k)' = Readable(k)
    BY DEF Still
  <1>3. owed' = owed /\ settings' = settings /\ session' = session /\ (Nothing <=> Nothing')
    BY DEF Still, Nothing, nothingOwed
  <1>4. CASE op[c].stage = "calling"
    <2>1. call[c].at # "none" => call[c].key \in Keys
      BY <1>1, CallParts DEF PanelInv, Inv
    <2>2. EntersOne(c)'
      BY <1>1, <1>2, <1>3, <1>4, <2>1 DEF Expects, EntersOne
    <2> QED
      BY <1>4, <2>2 DEF Expects
  <1>5. CASE op[c].stage = "copying"
    <2>1. Copies(c)
      BY <1>1, <1>5 DEF Expects
    <2>2. \A r \in op[c].pairs, f \in Field : <<r[1], f>> \in Keys /\ <<r[2], f>> \in Keys
      BY <1>1, <1>5, PairKeys
    <2>3. \A r \in op[c].pairs : Copied(c, r)'
      BY <1>2, <1>3, <2>1, <2>2 DEF Copies, Copied
    <2>4. \A r \in op[c].pairs, f \in Field :
            /\ CopyingFrom(c, r, f) => CopyingFrom(c, r, f)'
            /\ CopyingTo(c, r, f) => CopyingTo(c, r, f)'
      BY <1>2, <2>2 DEF CopyingFrom, CopyingTo
    <2>5. Copies(c)'
      BY <1>3, <2>1, <2>3, <2>4 DEF Copies
    <2> QED
      BY <1>5, <2>5 DEF Expects
  <1>6. CASE op[c].stage \in {"clearing", "undoing"}
    <2>1. Clears(c)'
      BY <1>1, <1>3, <1>6 DEF Expects, Clears
    <2> QED
      BY <1>6, <2>1 DEF Expects
  <1> QED
    BY <1>4, <1>5, <1>6 DEF Expects

(* An operation goes on or ends. If another one is under way as well nothing *)
(* is expected anyhow; and reads of runs change nothing.                     *)
LEMMA GoingOn ==
  ASSUME OwedInv, AuthenticationProfilesAssumption, PanelInv', Owing', NEW c \in Callers,
         \A d \in Callers : d # c => call'[d] = call[d] /\ op'[d] = op[d],
         changes(c)' => changes(c) /\ op'[c].alone = op[c].alone,
         op'[c].kind = "resolve" /\ call'[c].at # "none" => call'[c].do = "get",
         changes(c) /\ ~op[c].alone => owed' = nothingOwed,
         ~changes(c) => Still,
         Quiet(c) => Kept' /\ Expects(c)'
  PROVE  OwedInv'
  <1>1. \A d \in Callers : changes(d)' => changes(d) /\ op'[d].alone = op[d].alone
    BY DEF changes, busy
  <1>2. Kept'
    <2>1. CASE changes(c) /\ ~op[c].alone
      <3>1. \A k \in Keys : owed'[k] = None
        BY <2>1 DEF nothingOwed
      <3> QED
        BY <3>1 DEF Kept
    <2>2. CASE ~changes(c)
      BY <2>2 DEF Still, Kept, OwedInv
    <2> QED
      BY <2>1, <2>2 DEF Quiet
  <1>3. Apart'
    BY <1>1 DEF Apart, OwedInv
  <1>4. Overlapping'
    <2> SUFFICES ASSUME NEW d \in Callers, changes(d)', ~op'[d].alone
                 PROVE  owed' = nothingOwed
      BY DEF Overlapping, Nothing, nothingOwed
    <2>1. changes(d) /\ ~op[d].alone /\ owed = nothingOwed
      BY <1>1 DEF OwedInv, Overlapping, Nothing
    <2>2. CASE ~changes(c)
      BY <2>1, <2>2 DEF Still
    <2>3. CASE changes(c)
      <3>1. ~op[c].alone
        BY <2>1, <2>3 DEF OwedInv, Apart
      <3> QED
        BY <2>3, <3>1
    <2> QED
      BY <2>2, <2>3
  <1>5. OnlyReads'
    BY DEF OwedInv, OnlyReads
  <1>6. ASSUME NEW d \in Callers
        PROVE  Expects(d)'
    <2> SUFFICES ASSUME Quiet(d)' PROVE Expects(d)'
      BY DEF Expects
    <2>1. Quiet(d)
      BY <1>1 DEF Quiet
    <2>2. CASE d = c
      BY <2>1, <2>2
    <2>3. CASE d # c
      <3>1. ~changes(c)
        BY <2>1, <2>3 DEF OwedInv, Apart, Quiet
      <3> QED
        BY <2>3, <3>1, StillExpects
    <2> QED
      BY <2>2, <2>3
  <1> QED
    BY <1>2, <1>3, <1>4, <1>5, <1>6 DEF OwedInv

(* An operation that changes something begins. *)
LEMMA Beginning ==
  ASSUME OwedInv, PanelInv', NEW c \in Callers,
         NEW task \in SimpleOperation \cup Save, task.kind # "resolve",
         NEW keys, Begin(c, task, keys),
         \A d \in Callers : d # c => call'[d] = call[d], storage' = storage,
         changes(c)' /\ op'[c].alone => Expects(c)'
  PROVE  OwedInv'
  <1> DEFINE others == {d \in Callers : changes(d)}
  <1>1. /\ op[c] = Idle /\ settings' = settings /\ session' = session
        /\ op' = [d \in Callers |->
              IF d = c THEN [task EXCEPT !.alone = others = {}]
              ELSE IF d \in others THEN [op[d] EXCEPT !.alone = FALSE] ELSE op[d]]
        /\ owed' = [k \in Keys |-> IF others # {} \/ k \in keys THEN None ELSE owed[k]]
    BY DEF Begin, Admit
  <1>2. op'[c].alone = (others = {}) /\ op'[c].kind = task.kind
    <2>1. PICK b \in BOOLEAN : b = (others = {})
      OBVIOUS
    <2>2. op'[c] = [task EXCEPT !.alone = b]
      BY <1>1, <2>1
    <2> QED
      BY <2>1, <2>2, AloneChanges
  <1>3. ASSUME NEW d \in Callers, d # c
        PROVE  /\ changes(d)' <=> changes(d)
               /\ op'[d].kind = op[d].kind
               /\ changes(d) => op'[d].alone = FALSE
    <2>1. CASE d \in others
      <3>1. op[d] \in SimpleOperation \cup Save
        BY <2>1 DEF OwedInv, PanelInv, PanelTypes, Operation, changes, busy, Idle
      <3>2. op'[d] = [op[d] EXCEPT !.alone = FALSE]
        BY <1>1, <1>3, <2>1
      <3>3. op'[d].stage = op[d].stage /\ op'[d].kind = op[d].kind /\ op'[d].alone = FALSE
        BY <3>1, <3>2, AloneChanges
      <3> QED
        BY <3>3 DEF changes, busy
    <2>2. CASE d \notin others
      <3>1. op'[d] = op[d] /\ ~changes(d)
        BY <1>1, <1>3, <2>2
      <3> QED
        BY <3>1 DEF changes, busy
    <2> QED
      BY <2>1, <2>2
  <1>4. \A d \in Callers : d # c /\ changes(d) => others # {}
    OBVIOUS
  <1>5. others # {} => owed' = nothingOwed
    BY <1>1 DEF nothingOwed
  <1> HIDE DEF others
  <1>6. Owing'
    <2>1. None \in Values
      BY DEF Values
    <2> QED
      BY <1>1, <2>1 DEF Owing, OwedInv
  <1>7. Kept'
    <2>1. \A k \in Keys : owed'[k] # None => owed'[k] = owed[k] /\ Readable(k)' = Readable(k)
      BY <1>1 DEF Readable, storage
    <2> QED
      BY <1>1, <2>1 DEF Kept, OwedInv
  <1>8. Apart'
    <2> SUFFICES ASSUME NEW d \in Callers, NEW e \in Callers, d # e, changes(d)', changes(e)'
                 PROVE  ~op'[d].alone
      BY DEF Apart
    <2>1. CASE d = c
      BY <1>2, <1>3, <1>4, <2>1
    <2>2. CASE d # c
      BY <1>3, <2>2
    <2> QED
      BY <2>1, <2>2
  <1>9. Overlapping'
    <2> SUFFICES ASSUME NEW d \in Callers, changes(d)', ~op'[d].alone
                 PROVE  owed' = nothingOwed
      BY DEF Overlapping, Nothing, nothingOwed
    <2> QED
      BY <1>2, <1>3, <1>4, <1>5
  <1>10. OnlyReads'
    BY <1>2, <1>3 DEF OwedInv, OnlyReads
  <1>11. ASSUME NEW d \in Callers PROVE Expects(d)'
    <2>1. CASE d = c
      BY <2>1 DEF Expects, Quiet
    <2>2. CASE d # c
      BY <1>3, <2>2 DEF Expects, Quiet
    <2> QED
      BY <2>1, <2>2
  <1> QED
    BY <1>6, <1>7, <1>8, <1>9, <1>10, <1>11 DEF OwedInv

LEMMA Asked ==
  ASSUME Inv, NEW c \in Callers, NEW do, NEW k, NEW v, Ask(c, do, k, v)
  PROVE  /\ \A d \in Callers : d # c => call'[d] = call[d]
         /\ call'[c].do = do /\ call'[c].key = k /\ call'[c].value = v /\ call'[c].at = "asked"
         /\ storage' = storage /\ \A q \in Keys : Readable(q)' = Readable(q)
  BY DEF Ask, Inv, Types, storage, Readable

LEMMA Forgotten ==
  ASSUME Inv, NEW c \in Callers, Forget(c)
  PROVE  /\ \A d \in Callers : d # c => call'[d] = call[d]
         /\ call'[c].at = "none"
         /\ storage' = storage /\ \A q \in Keys : Readable(q)' = Readable(q)
  BY DEF Forget, NoCall, Inv, Types, storage, Readable

(* An operation that ends without a change of what is read. *)
LEMMA JustEnds ==
  ASSUME OwedInv, AuthenticationProfilesAssumption, PanelInv', NEW c \in Callers,
         \A d \in Callers : d # c => call'[d] = call[d], op' = [op EXCEPT ![c] = Idle], Still
  PROVE  OwedInv'
  <1>1. op'[c] = Idle /\ \A d \in Callers : d # c => op'[d] = op[d]
    BY DEF OwedInv, PanelInv, PanelTypes
  <1>2. ~changes(c)' /\ op'[c].kind # "resolve"
    BY <1>1 DEF changes, busy, Idle
  <1>3. Kept' /\ Owing'
    BY DEF Still, OwedInv, Kept, Owing
  <1>4. changes(c) /\ ~op[c].alone => owed' = nothingOwed
    BY DEF OwedInv, Overlapping, Nothing, Still
  <1>5. Expects(c)'
    BY <1>2 DEF Expects, Quiet
  <1> QED
    BY <1>1, <1>2, <1>3, <1>4, <1>5, GoingOn

(* A save that goes on, with less to do, without a change of what is read. *)
LEMMA SaveGoesOn ==
  ASSUME OwedInv, AuthenticationProfilesAssumption, PanelInv', NEW c \in Callers,
         op[c].stage \in {"copying", "clearing", "undoing"},
         \A d \in Callers : d # c => call'[d] = call[d] /\ op'[d] = op[d],
         op'[c].stage # "idle" => op'[c].kind = "save" /\ op'[c].alone = op[c].alone,
         op'[c].stage = "idle" => op'[c] = Idle,
         Still, Quiet(c) => Expects(c)'
  PROVE  OwedInv'
  <1>1. changes(c) /\ op'[c].kind # "resolve"
    BY Stages DEF OwedInv, PanelInv, Idle
  <1>2. changes(c)' => op'[c].alone = op[c].alone
    BY DEF changes, busy
  <1>3. Kept' /\ Owing'
    BY DEF Still, OwedInv, Kept, Owing
  <1>4. changes(c) /\ ~op[c].alone => owed' = nothingOwed
    BY DEF OwedInv, Overlapping, Nothing, Still
  <1> QED
    BY <1>1, <1>2, <1>3, <1>4, GoingOn

-----------------------------------------------------------------------------
(* Credentials and tokens, and the runs. *)

LEMMA EnteringOwes ==
  ASSUME OwedInv, AuthenticationProfilesAssumption, SecretRepositoryAssumption, PanelInv',
         NEW c \in Callers, StoreSecret(c) \/ ClearSecret(c) \/ ApplyTokens(c)
  PROVE  OwedInv'
  <1>0. Inv /\ settings \in Lists /\ Range(settings) \subseteq Profiles
    BY ListsOfProfiles DEF OwedInv, PanelInv, PanelTypes
  <1>1. PICK p \in Range(settings), f \in Field, kind \in {"store", "clear", "apply"},
             do \in {"store", "delete"}, v \in Values :
           /\ Begin(c, Simple(kind), {<<p, f>>}) /\ Ask(c, do, <<p, f>>, v)
           /\ do = "delete" => v = None
           /\ kind = "apply" <=> f = "session"
    <2>0. None \in Values /\ Tokens \subseteq Values /\ "credential" \in Field /\ "session" \in Field
      BY DEF Values, Field
    <2>1. CASE StoreSecret(c)
      <3>1. PICK p \in Range(settings), v \in Tokens :
               Begin(c, Simple("store"), {<<p, "credential">>}) /\ Ask(c, "store", <<p, "credential">>, v)
        BY <2>1 DEF StoreSecret
      <3> QED
        BY <2>0, <3>1
    <2>2. CASE ClearSecret(c)
      <3>1. PICK p \in Range(settings) :
               Begin(c, Simple("clear"), {<<p, "credential">>}) /\ Ask(c, "delete", <<p, "credential">>, None)
        BY <2>2 DEF ClearSecret
      <3> QED
        BY <2>0, <3>1
    <2>3. CASE ApplyTokens(c)
      <3>1. PICK p \in Range(settings), v \in Values :
               /\ Begin(c, Simple("apply"), {<<p, "session">>})
               /\ Ask(c, IF v = None THEN "delete" ELSE "store", <<p, "session">>, v)
        BY <2>3 DEF ApplyTokens
      <3>2. CASE v = None
        BY <2>0, <3>1, <3>2
      <3>3. CASE v # None
        BY <2>0, <3>1, <3>3
      <3> QED
        BY <3>2, <3>3
    <2> QED
      BY <2>1, <2>2, <2>3
  <1> DEFINE k == <<p, f>>
  <1>2. k \in Keys
    BY <1>0 DEF AuthenticationProfilesAssumption
  <1>3. /\ \A d \in Callers : d # c => call'[d] = call[d]
        /\ call'[c].do = do /\ call'[c].key = k /\ call'[c].value = v /\ call'[c].at = "asked"
        /\ storage' = storage
    BY <1>0, <1>1, Asked
  <1>4. Simple(kind) \in SimpleOperation /\ Simple(kind).kind = kind /\ Simple(kind).stage = "calling"
    BY DEF Simple, SimpleOperation
  <1>5. /\ op'[c].kind = kind /\ op'[c].stage = "calling"
        /\ settings' = settings /\ owed'[k] = None
    <2>1. PICK b \in BOOLEAN : op'[c] = [Simple(kind) EXCEPT !.alone = b]
      BY <1>1 DEF Begin
    <2>2. op'[c].kind = kind /\ op'[c].stage = "calling"
      BY <1>4, <2>1, AloneChanges
    <2>3. owed'[k] = None /\ settings' = settings
      BY <1>1, <1>2 DEF Begin
    <2> QED
      BY <2>2, <2>3
  <1>6. Expects(c)'
    <2>1. EntersOne(c)'
      BY <1>1, <1>3, <1>5 DEF EntersOne
    <2> QED
      BY <1>5, <2>1 DEF Expects
  <1> QED
    BY <1>1, <1>3, <1>4, <1>6, Beginning

LEMMA ReturningOwes ==
  ASSUME OwedInv, AuthenticationProfilesAssumption, SecretRepositoryAssumption, PanelInv',
         NEW c \in Callers, SecretChanged(c) \/ TokensApplied(c)
  PROVE  OwedInv'
  <1> DEFINE k == call[c].key
  <1> DEFINE v == call[c].value
  <1>1. /\ op[c].stage = "calling" /\ call[c].at = "settled" /\ op[c].kind \in {"store", "clear", "apply"}
        /\ op' = [op EXCEPT ![c] = Idle] /\ Forget(c) /\ settings' = settings
        /\ owed' = IF op[c].alone THEN [owed EXCEPT ![k] = v] ELSE owed
        /\ \/ op[c].kind # "apply" /\ session' = session
           \/ op[c].kind = "apply" /\ session' = [session EXCEPT ![k[1]] = v]
    BY DEF SecretChanged, TokensApplied, End
  <1>2. Inv /\ k \in Keys /\ v \in Values /\ k[1] \in Profiles /\ k = <<k[1], k[2]>>
    <2>1. k \in Keys /\ v \in Values
      BY <1>1, CallParts DEF OwedInv, PanelInv, Inv
    <2> QED
      BY <2>1 DEF AuthenticationProfilesAssumption, OwedInv, PanelInv
  <1>3. /\ \A d \in Callers : d # c => call'[d] = call[d]
        /\ \A q \in Keys : Readable(q)' = Readable(q)
    BY <1>1, <1>2, Forgotten
  <1>4. op'[c] = Idle /\ \A d \in Callers : d # c => op'[d] = op[d]
    BY <1>1 DEF OwedInv, PanelInv, PanelTypes
  <1>5. ~changes(c)' /\ op'[c].kind # "resolve" /\ changes(c)
    BY <1>1, <1>4 DEF changes, busy, Idle
  <1>6. Owing'
    BY <1>1, <1>2 DEF Owing, OwedInv
  <1>7. changes(c) /\ ~op[c].alone => owed' = nothingOwed
    BY <1>1 DEF OwedInv, Overlapping, Nothing
  <1>8. Expects(c)'
    BY <1>5 DEF Expects, Quiet
  <1>9. ASSUME Quiet(c) PROVE Kept'
    <2>1. EntersOne(c)
      BY <1>1, <1>9 DEF OwedInv, Expects
    <2>2. /\ k[1] \in Range(settings) /\ (op[c].kind = "apply" <=> k[2] = "session")
          /\ v # None => Readable(k) = v
      <3>1. call[c].do \in {"get", "store", "delete"}
        BY <1>1, CallParts DEF OwedInv, PanelInv, Inv
      <3> QED
        BY <1>1, <2>1, <3>1 DEF EntersOne
    <2>3. owed' = [owed EXCEPT ![k] = v] /\ owed \in [Keys -> Values]
          /\ session \in [Profiles -> Values \cup {Absent}]
      BY <1>1, <1>9 DEF Quiet, OwedInv, Owing
    <2> SUFFICES ASSUME NEW q \in Keys, owed'[q] # None
                 PROVE  /\ q[1] \in Range(settings) /\ Readable(q) = owed'[q]
                        /\ q[2] = "session" => session'[q[1]] = owed'[q]
      BY <1>1, <1>3 DEF Kept
    <2> HIDE DEF k, v
    <2>4. CASE q = k
      <3>1. owed'[q] = v /\ Readable(q) = v
        BY <1>2, <2>2, <2>3, <2>4
      <3>2. q[2] = "session" => session'[q[1]] = v
        BY <1>1, <1>2, <2>2, <2>3, <2>4
      <3> QED
        BY <2>2, <2>4, <3>1, <3>2
    <2>5. CASE q # k
      <3>1. owed'[q] = owed[q]
        BY <2>3, <2>5
      <3>2. /\ q[1] \in Range(settings) /\ Readable(q) = owed[q]
            /\ q[2] = "session" => session[q[1]] = owed[q]
        BY <3>1 DEF OwedInv, Kept
      <3>3. q = <<q[1], q[2]>> /\ q[1] \in Profiles
        BY DEF AuthenticationProfilesAssumption
      <3>4. q[2] = "session" => session'[q[1]] = session[q[1]]
        BY <1>1, <1>2, <2>2, <2>3, <2>5, <3>3
      <3> QED
        BY <3>1, <3>2, <3>4
    <2> QED
      BY <2>4, <2>5
  <1> QED
    BY <1>3, <1>4, <1>5, <1>6, <1>7, <1>8, <1>9, GoingOn

LEMMA ResolvingOwes ==
  ASSUME OwedInv, AuthenticationProfilesAssumption, PanelInv',
         NEW c \in Callers, Resolve(c) \/ Resolved(c)
  PROVE  OwedInv'
  <1>0. Inv /\ op \in [Callers -> Operation]
    BY DEF OwedInv, PanelInv, PanelTypes
  <1>1. CASE Resolve(c)
    <2>1. PICK k : /\ op[c] = Idle /\ op' = [op EXCEPT ![c] = Simple("resolve")]
                   /\ Ask(c, "get", k, None) /\ UNCHANGED <<settings, session, owed>>
      BY <1>1 DEF Resolve, Admit
    <2>2. /\ \A d \in Callers : d # c => call'[d] = call[d] /\ op'[d] = op[d]
          /\ call'[c].do = "get" /\ op'[c] = Simple("resolve") /\ Still
      BY <1>0, <2>1, Asked DEF Still
    <2>3. ~changes(c)' /\ ~changes(c)
      BY <2>1, <2>2 DEF changes, busy, Simple, Idle
    <2>4. Owing'
      BY <2>2 DEF Still, Owing, OwedInv
    <2> QED
      BY <2>2, <2>3, <2>4, GoingOn DEF Quiet
  <1>2. CASE Resolved(c)
    <2>1. /\ op[c].kind = "resolve" /\ UNCHANGED <<settings, session, owed>>
          /\ \/ op' = op /\ \E k : Ask(c, "get", k, None)
             \/ op' = [op EXCEPT ![c] = Idle] /\ Forget(c)
      BY <1>2 DEF Resolved
    <2>2. CASE op' = [op EXCEPT ![c] = Idle] /\ Forget(c)
      <3>1. Still /\ \A d \in Callers : d # c => call'[d] = call[d]
        BY <1>0, <2>1, <2>2, Forgotten DEF Still
      <3> QED
        BY <2>2, <3>1, JustEnds
    <2>3. CASE op' = op /\ \E k : Ask(c, "get", k, None)
      <3>1. /\ \A d \in Callers : d # c => call'[d] = call[d]
            /\ call'[c].do = "get" /\ Still
        BY <1>0, <2>1, <2>3, Asked DEF Still
      <3>2. ~changes(c)' /\ ~changes(c)
        BY <2>1, <2>3 DEF changes
      <3>3. Owing'
        BY <3>1 DEF Still, Owing, OwedInv
      <3> QED
        BY <2>3, <3>1, <3>2, <3>3, GoingOn DEF Quiet
    <2> QED
      BY <2>1, <2>2, <2>3
  <1> QED
    BY <1>1, <1>2

-----------------------------------------------------------------------------
(* Saves. *)

LEMMA BeginningSaveOwes ==
  ASSUME OwedInv, AuthenticationProfilesAssumption, PanelInv', NEW c \in Callers, BeginSave(c)
  PROVE  OwedInv'
  <1>1. PICK list \in Lists :
          /\ Begin(c, Saving(list), IF baseline = settings THEN {} ELSE Keys)
          /\ UNCHANGED repository
    BY DEF BeginSave
  <1> DEFINE pairs == renamed(baseline, list)
  <1>2. baseline \in Lists /\ pairs \in SUBSET (Profiles \X Profiles)
    BY RenamedProfiles DEF OwedInv, PanelInv, PanelTypes
  <1>3. toCopy(pairs) \in SUBSET (Profiles \X Profiles \X Part)
    <2> HIDE DEF pairs
    <2> QED
      BY <1>2 DEF toCopy
  <1>4. /\ Saving(list) \in Save /\ Saving(list).todo = toCopy(pairs) /\ Saving(list).pairs = pairs
        /\ Saving(list).base = baseline /\ Saving(list).list = list
        /\ Saving(list).kind = "save" /\ Saving(list).stage = "copying"
    BY <1>2, <1>3 DEF Save, Saving
  <1>5. /\ op'[c].todo = toCopy(pairs) /\ op'[c].pairs = pairs /\ op'[c].base = baseline
        /\ op'[c].list = list /\ op'[c].stage = "copying"
    <2>1. PICK b \in BOOLEAN : op'[c] = [Saving(list) EXCEPT !.alone = b]
      BY <1>1 DEF Begin
    <2> HIDE DEF pairs
    <2> QED
      BY <1>4, <2>1, AloneChanges
  <1>6. call' = call /\ storage' = storage /\ call[c].at = "none" /\ settings' = settings
    BY <1>1 DEF repository, Begin, Admit, OwedInv, PanelInv, OperationHolds, Idle
  <1>7. Nothing' \/ baseline = settings'
    <2>1. CASE baseline # settings
      BY <1>1, <2>1 DEF Begin, Nothing, nothingOwed
    <2> QED
      BY <1>6, <2>1
  <1>8. \A r \in pairs : Copied(c, r)'
    <2>1. \A r \in pairs, part \in Part : <<r[1], r[2], part>> \in toCopy(pairs)
      BY DEF toCopy
    <2> HIDE DEF pairs
    <2> QED
      BY <1>5, <2>1 DEF Copied, Part
  <1>9. Copies(c)'
    BY <1>5, <1>6, <1>7, <1>8 DEF Copies
  <1>10. Expects(c)'
    BY <1>5, <1>9 DEF Expects
  <1> QED
    BY <1>1, <1>4, <1>6, <1>10, Beginning

(* What is left to do of a part of a save, for any of its steps. *)
LEMMA LessTodo ==
  ASSUME PanelInv, NEW c \in Callers, op[c].stage \in {"copying", "clearing", "undoing"},
         NEW T, T \subseteq op[c].todo, op' = [op EXCEPT ![c].todo = T]
  PROVE  /\ \A d \in Callers : d # c => op'[d] = op[d]
         /\ op'[c].stage = op[c].stage /\ op'[c].kind = "save" /\ op'[c].alone = op[c].alone
         /\ op'[c].pairs = op[c].pairs /\ op'[c].base = op[c].base /\ op'[c].list = op[c].list
         /\ op'[c].todo = T
  <1>1. op[c] \in Save /\ op \in [Callers -> Operation]
    BY Stages DEF PanelInv, PanelTypes
  <1>2. T \in SUBSET (Profiles \X Profiles \X Part) /\ op[c].kind = "save"
    BY <1>1 DEF Save
  <1> DEFINE o == [op[c] EXCEPT !.todo = T]
  <1>3. op'[c] = o /\ \A d \in Callers : d # c => op'[d] = op[d]
    BY <1>1
  <1>4. /\ o.todo = T /\ o.stage = op[c].stage /\ o.pairs = op[c].pairs
        /\ o.kind = op[c].kind /\ o.alone = op[c].alone
        /\ o.base = op[c].base /\ o.list = op[c].list
    BY <1>1, <1>2, TodoChanges
  <1> HIDE DEF o
  <1> QED
    BY <1>2, <1>3, <1>4

(* The pairs of a save that is alone. *)
LEMMA SavePairs ==
  ASSUME OwedInv, AuthenticationProfilesAssumption, NEW c \in Callers,
         Quiet(c), op[c].stage = "copying"
  PROVE  /\ Copies(c) /\ op[c] \in Save
         /\ \A r \in op[c].pairs :
              /\ r = <<r[1], r[2]>> /\ r[1] \in Profiles /\ r[2] \in Profiles
              /\ r[1] \notin Range(op[c].list) /\ r[2] \notin Range(op[c].base)
              /\ r[1] \in Range(op[c].base) /\ r[2] \in Range(op[c].list)
              /\ \A s \in op[c].pairs : /\ s[1] = r[1] \/ s[2] = r[2] => s = r
                                        /\ s[1] # r[2]
              /\ \A f \in Field : <<r[1], f>> \in Keys /\ <<r[2], f>> \in Keys
  <1>1. Copies(c) /\ op[c] \in Save
    BY Stages DEF OwedInv, PanelInv, Expects
  <1>2. op[c].pairs = renamed(op[c].base, op[c].list) /\ op[c].base \in Lists /\ op[c].list \in Lists
    BY <1>1 DEF Copies, Save
  <1>3. \A r \in op[c].pairs, f \in Field : <<r[1], f>> \in Keys /\ <<r[2], f>> \in Keys
    BY PairKeys DEF OwedInv
  <1>4. \A r \in op[c].pairs :
          /\ r = <<r[1], r[2]>> /\ r[1] \in Profiles /\ r[2] \in Profiles
          /\ r[1] \in Range(op[c].base) \ Range(op[c].list)
          /\ r[2] \in Range(op[c].list) \ Range(op[c].base)
          /\ \A s \in op[c].pairs : s[1] = r[1] \/ s[2] = r[2] => s = r
    BY <1>2, PairsDiffer
  <1>5. \A r, s \in op[c].pairs : s[1] # r[2]
    BY <1>4
  <1> QED
    BY <1>1, <1>3, <1>4, <1>5

(* What was copied stays copied, and what is done is. *)
LEMMA StaysCopied ==
  ASSUME OwedInv, AuthenticationProfilesAssumption, NEW c \in Callers,
         Quiet(c), op[c].stage = "copying", Still,
         op'[c].pairs = op[c].pairs, op'[c].base = op[c].base, op'[c].list = op[c].list,
         \A r \in op[c].pairs : \A part \in Part :
           <<r[1], r[2], part>> \in op[c].todo =>
             \/ <<r[1], r[2], part>> \in op'[c].todo
             \/ part \in Field /\ Readable(<<r[1], part>>) \in {None, Readable(<<r[2], part>>)}
  PROVE  /\ op'[c].pairs = renamed(op'[c].base, op'[c].list)
         /\ Nothing' \/ op'[c].base = settings'
         /\ \A r \in op'[c].pairs : Copied(c, r)'
  <1>1. Copies(c)
    BY SavePairs
  <1>2. Nothing' \/ op'[c].base = settings'
    BY <1>1 DEF Copies, Still, Nothing, nothingOwed
  <1>3. ASSUME NEW r \in op[c].pairs PROVE Copied(c, r)'
    <2>1. Copied(c, r)
      BY <1>1 DEF Copies
    <2>2. ASSUME NEW f \in Field
          PROVE  \/ <<r[1], r[2], f>> \in op'[c].todo
                 \/ Readable(<<r[1], f>>)' \in {None, Readable(<<r[2], f>>)'}
      <3>1. <<r[1], f>> \in Keys /\ <<r[2], f>> \in Keys /\ f \in Part
        BY SavePairs DEF Part
      <3>2. /\ Readable(<<r[1], f>>)' = Readable(<<r[1], f>>)
            /\ Readable(<<r[2], f>>)' = Readable(<<r[2], f>>)
        BY <3>1 DEF Still
      <3>3. \/ <<r[1], r[2], f>> \in op'[c].todo
            \/ Readable(<<r[1], f>>) \in {None, Readable(<<r[2], f>>)}
        BY <2>1, <3>1 DEF Copied
      <3> QED
        BY <3>2, <3>3
    <2>3. \/ <<r[1], r[2], "metadata">> \in op'[c].todo
          \/ session'[r[1]] \in {Absent, session'[r[2]]}
      <3>1. "metadata" \in Part /\ "metadata" \notin Field /\ session' = session
        BY DEF Part, Field, Still
      <3> QED
        BY <2>1, <3>1 DEF Copied
    <2> QED
      BY <2>2, <2>3 DEF Copied
  <1>4. op'[c].pairs = renamed(op'[c].base, op'[c].list)
    BY <1>1 DEF Copies
  <1> QED
    BY <1>2, <1>3, <1>4

LEMMA CopyingField ==
  ASSUME OwedInv, AuthenticationProfilesAssumption, PanelInv', NEW c \in Callers, CopyField(c)
  PROVE  OwedInv'
  <1>0. Inv /\ op \in [Callers -> Operation]
    BY DEF OwedInv, PanelInv, PanelTypes
  <1>1. PICK item \in op[c].todo :
          /\ op[c].stage = "copying" /\ item[3] # "metadata"
          /\ Ask(c, "get", <<item[1], item[3]>>, None) /\ UNCHANGED <<settings, session, op, owed>>
    BY DEF CopyField, panel
  <1>2. /\ \A d \in Callers : d # c => call'[d] = call[d]
        /\ call'[c].do = "get" /\ call'[c].key = <<item[1], item[3]>> /\ call'[c].at = "asked"
        /\ \A q \in Keys : Readable(q)' = Readable(q)
    BY <1>0, <1>1, Asked
  <1>3. Still
    BY <1>1, <1>2 DEF Still
  <1>4. op[c] \in Save /\ op[c].kind = "save"
    BY <1>1, Stages DEF OwedInv, PanelInv, Save
  <1>5. item[3] \in Field /\ <<item[1], item[2]>> \in op[c].pairs
    BY <1>1, <1>4 DEF OwedInv, PanelInv, OperationHolds, Save, Part
  <1>6. ASSUME Quiet(c) PROVE Expects(c)'
    <2>1. /\ op'[c].pairs = renamed(op'[c].base, op'[c].list)
          /\ Nothing' \/ op'[c].base = settings'
          /\ \A r \in op'[c].pairs : Copied(c, r)'
      BY <1>1, <1>3, <1>6, StaysCopied
    <2>2. CopyingFrom(c, <<item[1], item[2]>>, item[3])'
      BY <1>2 DEF CopyingFrom
    <2>3. Copies(c)'
      BY <1>1, <1>5, <2>1, <2>2 DEF Copies
    <2> QED
      BY <1>1, <2>3 DEF Expects
  <1> QED
    BY <1>1, <1>2, <1>3, <1>4, <1>6, SaveGoesOn

LEMMA ReadingField ==
  ASSUME OwedInv, AuthenticationProfilesAssumption, PanelInv', NEW c \in Callers, FieldRead(c)
  PROVE  OwedInv'
  <1>0. Inv /\ PanelInv
    BY DEF OwedInv, PanelInv
  <1>1. /\ op[c].stage = "copying" /\ call[c].at = "settled" /\ call[c].do = "get"
        /\ UNCHANGED <<settings, session, owed>>
    BY DEF FieldRead
  <1> DEFINE p == call[c].key[1]
             f == call[c].key[2]
  <1>2. op[c].kind = "save"
    BY <1>1, Stages DEF OwedInv, PanelInv, Save
  <1>3. ASSUME Quiet(c)
        PROVE  \E r \in op[c].pairs : /\ CopyingFrom(c, r, f) /\ f \in Field
                                      /\ p = r[1] /\ target(c, p) = r[2]
    <2>1. PICK r \in op[c].pairs, g \in Field : CopyingFrom(c, r, g)
      BY <1>1, <1>3, SavePairs DEF Copies, CopyingTo
    <2>2. p = r[1] /\ f = g
      BY <2>1 DEF CopyingFrom
    <2>3. \A q \in Profiles : <<p, q>> \in op[c].pairs <=> q = r[2]
      BY <1>1, <1>3, <2>1, <2>2, SavePairs
    <2>4. r[2] \in Profiles
      BY <1>1, <1>3, <2>1, SavePairs
    <2>5. target(c, p) = r[2]
      BY <2>3, <2>4 DEF target
    <2> QED
      BY <2>1, <2>2, <2>5
  <1>4. CASE call[c].value = None
    <2> DEFINE T == op[c].todo \ {<<p, target(c, p), f>>}
    <2>1. Forget(c) /\ op' = [op EXCEPT ![c].todo = T]
      BY <1>4 DEF FieldRead
    <2>2. /\ \A d \in Callers : d # c => op'[d] = op[d]
          /\ op'[c].stage = op[c].stage /\ op'[c].kind = "save" /\ op'[c].alone = op[c].alone
          /\ op'[c].pairs = op[c].pairs /\ op'[c].base = op[c].base /\ op'[c].list = op[c].list
          /\ op'[c].todo = T
      <3>1. T \subseteq op[c].todo
        OBVIOUS
      <3> HIDE DEF T
      <3> QED
        BY <1>0, <1>1, <2>1, <3>1, LessTodo
    <2>3. /\ \A d \in Callers : d # c => call'[d] = call[d]
          /\ call'[c].at = "none" /\ \A q \in Keys : Readable(q)' = Readable(q)
      BY <1>0, <2>1, Forgotten
    <2>4. Still
      BY <1>1, <2>3 DEF Still
    <2>5. ASSUME Quiet(c) PROVE Expects(c)'
      <3>1. PICK r \in op[c].pairs : /\ CopyingFrom(c, r, f) /\ f \in Field
                                     /\ p = r[1] /\ target(c, p) = r[2]
        BY <1>3, <2>5
      <3>2. Readable(<<r[1], f>>) = None
        BY <1>1, <1>4, <3>1 DEF CopyingFrom
      <3>3. \A s \in op[c].pairs : \A part \in Part :
              <<s[1], s[2], part>> \in op[c].todo =>
                \/ <<s[1], s[2], part>> \in op'[c].todo
                \/ part \in Field /\ Readable(<<s[1], part>>) \in {None, Readable(<<s[2], part>>)}
        <4> SUFFICES ASSUME NEW s \in op[c].pairs, NEW part \in Part,
                            <<s[1], s[2], part>> \in op[c].todo, <<s[1], s[2], part>> \notin T
                     PROVE  part \in Field /\ Readable(<<s[1], part>>) = None
          BY <2>2
        <4>1. s[1] = p /\ part = f
          OBVIOUS
        <4> QED
          BY <3>1, <3>2, <4>1
      <3>4. /\ op'[c].pairs = renamed(op'[c].base, op'[c].list)
            /\ Nothing' \/ op'[c].base = settings'
            /\ \A s \in op'[c].pairs : Copied(c, s)'
        <4> HIDE DEF T
        <4> QED
          BY <1>1, <2>2, <2>4, <2>5, <3>3, StaysCopied
      <3>5. Copies(c)'
        BY <2>3, <3>4 DEF Copies
      <3> QED
        BY <1>1, <2>2, <3>5 DEF Expects
    <2> HIDE DEF T
    <2> QED
      BY <1>1, <2>2, <2>3, <2>4, <2>5, SaveGoesOn
  <1>5. CASE call[c].value # None
    <2>1. Ask(c, "store", <<target(c, p), f>>, call[c].value) /\ op' = op
      BY <1>5 DEF FieldRead
    <2>2. /\ \A d \in Callers : d # c => call'[d] = call[d]
          /\ call'[c].do = "store" /\ call'[c].key = <<target(c, p), f>>
          /\ call'[c].value = call[c].value /\ call'[c].at = "asked"
          /\ \A q \in Keys : Readable(q)' = Readable(q)
      <3> HIDE DEF p, f
      <3> QED
        BY <1>0, <2>1, Asked
    <2>3. Still
      BY <1>1, <2>2 DEF Still
    <2>4. ASSUME Quiet(c) PROVE Expects(c)'
      <3>1. PICK r \in op[c].pairs : /\ CopyingFrom(c, r, f) /\ f \in Field
                                     /\ p = r[1] /\ target(c, p) = r[2]
        BY <1>3, <2>4
      <3>2. /\ op'[c].pairs = renamed(op'[c].base, op'[c].list)
            /\ Nothing' \/ op'[c].base = settings'
            /\ \A s \in op'[c].pairs : Copied(c, s)'
        BY <1>1, <2>1, <2>3, <2>4, StaysCopied
      <3> HIDE DEF p, f
      <3>3. PICK g \in Field : g = f
        BY <3>1
      <3>4. CopyingTo(c, r, g)'
        <4>1. <<r[1], g>> \in Keys
          BY <1>1, <2>4, SavePairs
        <4>2. Readable(<<r[1], g>>)' = call[c].value
          BY <1>1, <2>2, <3>1, <3>3, <4>1 DEF CopyingFrom
        <4> QED
          BY <2>2, <3>1, <3>3, <4>2 DEF CopyingTo
      <3> QED
        BY <1>1, <2>1, <3>2, <3>4 DEF Expects, Copies
    <2> QED
      BY <1>1, <1>2, <2>1, <2>2, <2>3, <2>4, SaveGoesOn
  <1> QED
    BY <1>4, <1>5

LEMMA CopiedField ==
  ASSUME OwedInv, AuthenticationProfilesAssumption, PanelInv', NEW c \in Callers, FieldCopied(c)
  PROVE  OwedInv'
  <1>0. Inv /\ PanelInv
    BY DEF OwedInv, PanelInv
  <1> DEFINE T == {i \in op[c].todo : <<i[2], i[3]>> # call[c].key}
  <1>1. /\ op[c].stage = "copying" /\ call[c].at = "settled" /\ call[c].do = "store"
        /\ op' = [op EXCEPT ![c].todo = T] /\ Forget(c)
        /\ UNCHANGED <<settings, session, owed>>
    BY DEF FieldCopied
  <1>2. /\ \A d \in Callers : d # c => op'[d] = op[d]
        /\ op'[c].stage = op[c].stage /\ op'[c].kind = "save" /\ op'[c].alone = op[c].alone
        /\ op'[c].pairs = op[c].pairs /\ op'[c].base = op[c].base /\ op'[c].list = op[c].list
        /\ op'[c].todo = T
    <2>1. T \subseteq op[c].todo
      OBVIOUS
    <2> HIDE DEF T
    <2> QED
      BY <1>0, <1>1, <2>1, LessTodo
  <1>3. /\ \A d \in Callers : d # c => call'[d] = call[d]
        /\ call'[c].at = "none" /\ \A q \in Keys : Readable(q)' = Readable(q)
    BY <1>0, <1>1, Forgotten
  <1>4. Still
    BY <1>1, <1>3 DEF Still
  <1>5. ASSUME Quiet(c) PROVE Expects(c)'
    <2>1. PICK r \in op[c].pairs, f \in Field : CopyingTo(c, r, f)
      BY <1>1, <1>5, SavePairs DEF Copies, CopyingFrom
    <2>2. call[c].key = <<r[2], f>> /\ Readable(<<r[1], f>>) = Readable(<<r[2], f>>)
      BY <1>1, <2>1 DEF CopyingTo
    <2>3. \A s \in op[c].pairs : \A part \in Part :
            <<s[1], s[2], part>> \in op[c].todo =>
              \/ <<s[1], s[2], part>> \in op'[c].todo
              \/ part \in Field /\ Readable(<<s[1], part>>) \in {None, Readable(<<s[2], part>>)}
      <3> SUFFICES ASSUME NEW s \in op[c].pairs, NEW part \in Part,
                          <<s[1], s[2], part>> \in op[c].todo, <<s[1], s[2], part>> \notin T
                   PROVE  part \in Field /\ Readable(<<s[1], part>>) = Readable(<<s[2], part>>)
        BY <1>2
      <3>1. s[2] = r[2] /\ part = f
        BY <2>2
      <3>2. s = r
        BY <1>1, <1>5, <3>1, SavePairs
      <3> QED
        BY <2>2, <3>1, <3>2
    <2>4. /\ op'[c].pairs = renamed(op'[c].base, op'[c].list)
          /\ Nothing' \/ op'[c].base = settings'
          /\ \A s \in op'[c].pairs : Copied(c, s)'
      <3> HIDE DEF T
      <3> QED
        BY <1>1, <1>2, <1>4, <1>5, <2>3, StaysCopied
    <2>5. Copies(c)'
      BY <1>3, <2>4 DEF Copies
    <2> QED
      BY <1>1, <1>2, <2>5 DEF Expects
  <1> HIDE DEF T
  <1> QED
    BY <1>1, <1>2, <1>3, <1>4, <1>5, SaveGoesOn

(* The metadata of a session go to an id nothing is expected of. *)
LEMMA Remounting ==
  ASSUME OwedInv, AuthenticationProfilesAssumption, PanelInv', NEW c \in Callers, Remount(c)
  PROVE  OwedInv'
  <1>0. PanelInv /\ session \in [Profiles -> Values \cup {Absent}]
    BY DEF OwedInv, Owing
  <1>1. PICK item \in op[c].todo :
          /\ op[c].stage = "copying" /\ call[c].at = "none" /\ item[3] = "metadata"
          /\ session' = IF session[item[1]] = Absent THEN session
                        ELSE [session EXCEPT ![item[2]] = session[item[1]]]
          /\ op' = [op EXCEPT ![c].todo = @ \ {item}]
          /\ UNCHANGED <<settings, repository, owed>>
    BY DEF Remount
  <1> DEFINE p == item[1]
             q == item[2]
             T == op[c].todo \ {item}
  <1>2. <<p, q>> \in op[c].pairs /\ p \in Profiles /\ q \in Profiles /\ op[c] \in Save
        /\ item = <<p, q, "metadata">>
    <2>1. op[c] \in Save
      BY <1>0, <1>1, Stages DEF PanelInv
    <2>2. item \in Profiles \X Profiles \X Part
      BY <1>1, <2>1 DEF Save
    <2> QED
      BY <1>0, <1>1, <2>1, <2>2 DEF PanelInv, OperationHolds
  <1>3. /\ \A d \in Callers : d # c => op'[d] = op[d]
        /\ op'[c].stage = op[c].stage /\ op'[c].kind = "save" /\ op'[c].alone = op[c].alone
        /\ op'[c].pairs = op[c].pairs /\ op'[c].base = op[c].base /\ op'[c].list = op[c].list
        /\ op'[c].todo = T
    <2>1. T \subseteq op[c].todo /\ op' = [op EXCEPT ![c].todo = T]
      BY <1>1
    <2> HIDE DEF T
    <2> QED
      BY <1>0, <1>1, <2>1, LessTodo
  <1>4. call' = call /\ storage' = storage
    BY <1>1 DEF repository
  <1> HIDE DEF p, q, T
  <1>5. /\ session' \in [Profiles -> Values \cup {Absent}]
        /\ \A x \in Profiles : x # q => session'[x] = session[x]
        /\ session'[q] = session[p] \/ session[p] = Absent
    <2>1. CASE session[p] = Absent
      BY <1>0, <1>1, <2>1 DEF p
    <2>2. CASE session[p] # Absent
      BY <1>0, <1>1, <1>2, <2>2 DEF p, q
    <2> QED
      BY <2>1, <2>2
  <1>6. changes(c) /\ op'[c].kind # "resolve"
    BY <1>0, <1>1, <1>3, Stages DEF PanelInv
  <1>7. Owing'
    BY <1>1, <1>5 DEF OwedInv, Owing
  <1>8. changes(c) /\ ~op[c].alone => owed' = nothingOwed
    BY <1>1 DEF OwedInv, Overlapping, Nothing
  <1>9. \A k : Readable(k)' = Readable(k)
    BY <1>4 DEF storage, Readable
  <1>10. ASSUME Quiet(c) PROVE Kept' /\ Expects(c)'
    <2>1. Copies(c) /\ q \notin Range(op[c].base)
      BY <1>1, <1>2, <1>10, SavePairs
    <2>2. Kept'
      <3> SUFFICES ASSUME NEW k \in Keys, owed'[k] # None
                   PROVE  /\ k[1] \in Range(settings') /\ Readable(k)' = owed'[k]
                          /\ k[2] = "session" => session'[k[1]] = owed'[k]
        BY DEF Kept
      <3>1. /\ k[1] \in Range(settings) /\ Readable(k) = owed[k]
            /\ k[2] = "session" => session[k[1]] = owed[k]
        BY <1>1 DEF OwedInv, Kept
      <3>2. op[c].base = settings
        BY <1>1, <2>1 DEF Copies, Nothing, nothingOwed
      <3>3. k[1] # q /\ k[1] \in Profiles
        BY <2>1, <3>1, <3>2 DEF AuthenticationProfilesAssumption
      <3> QED
        BY <1>1, <1>5, <1>9, <3>1, <3>3
    <2>3. ASSUME NEW s \in op[c].pairs PROVE Copied(c, s)'
      <3>1. Copied(c, s)
        BY <2>1 DEF Copies
      <3>2. /\ s[1] \in Profiles /\ s[2] \in Profiles /\ s[1] # q
            /\ s[2] = q => s[1] = p
        BY <1>1, <1>2, <1>10, SavePairs
      <3>3. \A f \in Field : <<s[1], s[2], f>> \in op[c].todo => <<s[1], s[2], f>> \in op'[c].todo
        BY <1>2, <1>3 DEF T, Field
      <3>4. \A f \in Field : \/ <<s[1], s[2], f>> \in op'[c].todo
                             \/ Readable(<<s[1], f>>)' \in {None, Readable(<<s[2], f>>)'}
        BY <1>9, <3>1, <3>3 DEF Copied
      <3>5. \/ <<s[1], s[2], "metadata">> \in op'[c].todo
            \/ session'[s[1]] \in {Absent, session'[s[2]]}
        <4>1. CASE s[2] = q
          BY <1>5, <3>2, <4>1
        <4>2. CASE s[2] # q
          <5>1. session'[s[1]] = session[s[1]] /\ session'[s[2]] = session[s[2]]
            BY <1>5, <3>2, <4>2
          <5>2. <<s[1], s[2], "metadata">> \in op[c].todo => <<s[1], s[2], "metadata">> \in op'[c].todo
            BY <1>2, <1>3, <4>2 DEF T
          <5> QED
            BY <3>1, <5>1, <5>2 DEF Copied
        <4> QED
          BY <4>1, <4>2
      <3> QED
        BY <3>4, <3>5 DEF Copied
    <2>4. Copies(c)'
      BY <1>1, <1>3, <1>4, <2>1, <2>3 DEF Copies, Nothing, nothingOwed
    <2> QED
      BY <1>1, <1>3, <2>2, <2>4 DEF Expects
  <1> QED
    BY <1>3, <1>4, <1>6, <1>7, <1>8, <1>10, GoingOn

(* The copies are made, or given up. *)
LEMMA NextStage ==
  ASSUME PanelInv, NEW c \in Callers, op[c] \in Save,
         NEW T \in SUBSET (Profiles \X Profiles \X Part), NEW at \in {"clearing", "undoing"},
         op' = [op EXCEPT ![c].stage = at, ![c].todo = T]
  PROVE  /\ \A d \in Callers : d # c => op'[d] = op[d]
         /\ op'[c].stage = at /\ op'[c].kind = "save" /\ op'[c].alone = op[c].alone
         /\ op'[c].todo = T
  <1> DEFINE o == [op[c] EXCEPT !.stage = at, !.todo = T]
  <1>1. op'[c] = o /\ \A d \in Callers : d # c => op'[d] = op[d]
    BY DEF PanelInv, PanelTypes
  <1>2. o.stage = at /\ o.kind = "save" /\ o.alone = op[c].alone /\ o.todo = T
    BY DEF Save
  <1> HIDE DEF o
  <1> QED
    BY <1>1, <1>2

(* A profile that only got another id was renamed, and it alone is gone. *)
LEMMA MovedProfile ==
  ASSUME AuthenticationProfilesAssumption, NEW old \in Lists, NEW new \in Lists,
         Len(old) = Len(new), NEW i \in DOMAIN old, new[i] \notin Range(old),
         \A j \in DOMAIN old : j # i => old[j] = new[j]
  PROVE  /\ Range(old) \ Range(new) = {old[i]} /\ old[i] \in Profiles
         /\ <<old[i], new[i]>> \in renamed(old, new)
  <1>1. /\ old \in Seq(Profiles) /\ new \in Seq(Profiles)
        /\ \A k, j \in DOMAIN old : old[k] = old[j] => k = j
    BY ListsOfProfiles DEF AuthenticationProfilesAssumption, IsInjective
  <1>2. DOMAIN old = DOMAIN new
    BY <1>1
  <1>3. old[i] # new[i]
    BY DEF Range
  <1>4. \A j \in DOMAIN old : new[j] # old[i]
    BY <1>1, <1>3
  <1>5. old[i] \notin Range(new)
    BY <1>2, <1>4 DEF Range
  <1>6. \A x \in Range(old) \ Range(new) : x = old[i]
    BY <1>2 DEF Range
  <1>7. old[i] \in Range(old) /\ old[i] \in Profiles
    BY <1>1 DEF Range
  <1>8. <<old[i], new[i]>> \in renamed(old, new)
    BY <1>5 DEF renamed
  <1> QED
    BY <1>5, <1>6, <1>7, <1>8

(* What is expected after a save was expected before it, of the same profile. *)
LEMMA OwedBefore ==
  ASSUME AuthenticationProfilesAssumption, NEW old \in Lists, NEW new \in Lists, NEW k \in Keys
  PROVE  \/ OwedAfter(old, new)[k] = None
         \/ /\ OwedAfter(old, new)[k] = owed[k] /\ k[1] \in Range(new)
         \/ \E p \in Profiles : /\ OwedAfter(old, new)[k] = owed[<<p, k[2]>>] /\ k[1] \in Range(new)
                                /\ <<p, k[1]>> \in renamed(old, new)
  <1> DEFINE gone == Range(old) \ Range(new)
             fresh == Range(new) \ Range(old)
             moved(p) == \E i \in DOMAIN old :
                            /\ p = new[i] /\ Len(old) = Len(new) /\ Cardinality(fresh) = 1
                            /\ \A j \in DOMAIN old : j # i => old[j] = new[j]
  <1>1. OwedAfter(old, new)[k] =
          IF k[1] \in Range(old) \cap Range(new) THEN owed[k]
          ELSE IF k[1] \in fresh /\ moved(k[1])
            THEN owed[<<CHOOSE p \in gone : TRUE, k[2]>>]
          ELSE None
    BY DEF OwedAfter
  <1>2. CASE k[1] \in Range(old) \cap Range(new)
    BY <1>1, <1>2
  <1>3. CASE k[1] \notin Range(old) \cap Range(new) /\ k[1] \in fresh /\ moved(k[1])
    <2>1. PICK i \in DOMAIN old : /\ k[1] = new[i] /\ Len(old) = Len(new)
                                  /\ \A j \in DOMAIN old : j # i => old[j] = new[j]
      BY <1>3
    <2>2. /\ gone = {old[i]} /\ old[i] \in Profiles
          /\ <<old[i], k[1]>> \in renamed(old, new)
      <3>1. new[i] \notin Range(old)
        BY <1>3, <2>1
      <3>2. /\ Range(old) \ Range(new) = {old[i]} /\ old[i] \in Profiles
            /\ <<old[i], new[i]>> \in renamed(old, new)
        BY <2>1, <3>1, MovedProfile
      <3> QED
        BY <2>1, <3>2
    <2>3. OwedAfter(old, new)[k] = owed[<<CHOOSE p \in gone : TRUE, k[2]>>]
      BY <1>1, <1>3
    <2>4. (CHOOSE p \in gone : TRUE) = old[i]
      BY <2>2
    <2>5. OwedAfter(old, new)[k] = owed[<<old[i], k[2]>>] /\ k[1] \in Range(new)
      BY <1>3, <2>3, <2>4
    <2> QED
      BY <2>2, <2>5
  <1>4. CASE k[1] \notin Range(old) \cap Range(new) /\ ~(k[1] \in fresh /\ moved(k[1]))
    BY <1>1, <1>4
  <1> QED
    BY <1>2, <1>3, <1>4

(* A save whose copies are made. *)
LEMMA WritingOwes ==
  ASSUME OwedInv, AuthenticationProfilesAssumption, SecretRepositoryAssumption, PanelInv',
         NEW c \in Callers, WriteSettings(c)
  PROVE  OwedInv'
  <1>0. PanelInv /\ Owing /\ settings \in Lists
    BY DEF OwedInv, PanelInv, PanelTypes
  <1>1. /\ op[c].stage = "copying" /\ op[c].todo = {} /\ call[c].at = "none"
        /\ settings' = op[c].list
        /\ owed' = IF op[c].alone THEN OwedAfter(settings, op[c].list) ELSE nothingOwed
        /\ op' = [op EXCEPT ![c].stage = "clearing", ![c].todo = toClear(op[c])]
        /\ session' = session /\ UNCHANGED repository
    BY DEF WriteSettings
  <1>2. op[c] \in Save /\ op[c].list \in Lists /\ changes(c)
    BY <1>0, <1>1, Stages DEF PanelInv, Save
  <1>3. /\ \A d \in Callers : d # c => op'[d] = op[d]
        /\ op'[c].stage = "clearing" /\ op'[c].kind = "save" /\ op'[c].alone = op[c].alone
        /\ op'[c].todo = toClear(op[c])
    <2> DEFINE T == toClear(op[c])
    <2>1. T \in SUBSET (Profiles \X Profiles \X Part)
      BY <1>2, LaterTodo
    <2> HIDE DEF T
    <2>2. op' = [op EXCEPT ![c].stage = "clearing", ![c].todo = T]
      BY <1>1 DEF T
    <2>3. /\ \A d \in Callers : d # c => op'[d] = op[d]
          /\ op'[c].stage = "clearing" /\ op'[c].kind = "save" /\ op'[c].alone = op[c].alone
          /\ op'[c].todo = T
      BY <1>0, <1>2, <2>1, <2>2, NextStage
    <2> QED
      BY <2>3 DEF T
  <1>4. call' = call /\ \A k : Readable(k)' = Readable(k)
    BY <1>1 DEF repository, storage, Readable
  <1>5. Owing'
    <2>1. \A k \in Keys : k[2] \in Field /\ \A p \in Profiles : <<p, k[2]>> \in Keys
      BY DEF AuthenticationProfilesAssumption
    <2>2. ASSUME NEW k \in Keys PROVE OwedAfter(settings, op[c].list)[k] \in Values
      <3> DEFINE new == op[c].list
                 v == OwedAfter(settings, new)
      <3>0. new \in Lists
        BY <1>2
      <3> HIDE DEF new
      <3>1. \/ v[k] = None
            \/ v[k] = owed[k] /\ k[1] \in Range(new)
            \/ \E p \in Profiles : /\ v[k] = owed[<<p, k[2]>>] /\ k[1] \in Range(new)
                                   /\ <<p, k[1]>> \in renamed(settings, new)
        BY <1>0, <3>0, OwedBefore
      <3> HIDE DEF v
      <3>2. None \in Values /\ owed \in [Keys -> Values]
        BY <1>0 DEF Owing, Values
      <3>3. ASSUME NEW p \in Profiles, v[k] = owed[<<p, k[2]>>] PROVE v[k] \in Values
        BY <2>1, <3>2, <3>3
      <3>4. v[k] \in Values
        BY <3>1, <3>2, <3>3
      <3> QED
        BY <3>4 DEF v, new
    <2>3. OwedAfter(settings, op[c].list) = [k \in Keys |-> OwedAfter(settings, op[c].list)[k]]
      BY DEF OwedAfter
    <2>4. OwedAfter(settings, op[c].list) \in [Keys -> Values]
      BY <2>2, <2>3
    <2>5. nothingOwed \in [Keys -> Values]
      BY DEF nothingOwed, Values
    <2> QED
      BY <1>0, <1>1, <2>4, <2>5 DEF Owing
  <1>6. changes(c) /\ ~op[c].alone => owed' = nothingOwed
    BY <1>1
  <1>7. ASSUME Quiet(c) PROVE Kept' /\ Expects(c)'
    <2>1. Copies(c)
      BY <1>1, <1>7, SavePairs
    <2>2. Kept'
      <3> SUFFICES ASSUME NEW k \in Keys, owed'[k] # None
                   PROVE  /\ k[1] \in Range(settings') /\ Readable(k)' = owed'[k]
                          /\ k[2] = "session" => session'[k[1]] = owed'[k]
        BY DEF Kept
      <3>0. owed' = OwedAfter(settings, op[c].list)
        BY <1>1, <1>7 DEF Quiet
      <3>1. CASE owed'[k] = owed[k] /\ k[1] \in Range(op[c].list)
        BY <1>1, <1>4, <3>1 DEF OwedInv, Kept
      <3>2. ASSUME NEW p \in Profiles, owed'[k] = owed[<<p, k[2]>>], k[1] \in Range(op[c].list),
                   <<p, k[1]>> \in renamed(settings, op[c].list)
            PROVE  /\ k[1] \in Range(settings') /\ Readable(k)' = owed'[k]
                   /\ k[2] = "session" => session'[k[1]] = owed'[k]
        <4>1. k = <<k[1], k[2]>> /\ k[2] \in Field /\ <<p, k[2]>> \in Keys
          BY DEF AuthenticationProfilesAssumption
        <4>2. /\ Readable(<<p, k[2]>>) = owed[<<p, k[2]>>]
              /\ k[2] = "session" => session[p] = owed[<<p, k[2]>>]
          BY <3>2, <4>1 DEF OwedInv, Kept
        <4>3. <<p, k[1]>> \in op[c].pairs
          BY <2>1, <3>2, <4>1 DEF Copies, Nothing, nothingOwed
        <4>4. Copied(c, <<p, k[1]>>)
          BY <2>1, <4>3 DEF Copies
        <4>5. Readable(<<p, k[2]>>) \in {None, Readable(<<k[1], k[2]>>)}
          BY <1>1, <4>1, <4>4 DEF Copied
        <4>6. session[p] \in {Absent, session[k[1]]}
          BY <1>1, <4>4 DEF Copied
        <4>7. owed[<<p, k[2]>>] # Absent
          BY <1>0, <4>1 DEF Owing, AuthenticationProfilesAssumption
        <4> QED
          BY <1>1, <1>4, <3>2, <4>1, <4>2, <4>5, <4>6, <4>7
      <3>3. \/ owed'[k] = owed[k] /\ k[1] \in Range(op[c].list)
            \/ \E p \in Profiles : /\ owed'[k] = owed[<<p, k[2]>>] /\ k[1] \in Range(op[c].list)
                                   /\ <<p, k[1]>> \in renamed(settings, op[c].list)
        BY <1>0, <1>2, <3>0, OwedBefore
      <3> QED
        BY <3>1, <3>2, <3>3
    <2>3. Clears(c)'
      <3>1. \A i \in toClear(op[c]) : i[1] \notin Range(op[c].list)
        <4>1. \A r \in op[c].pairs : r[1] \notin Range(op[c].list)
          BY <1>1, <1>7, SavePairs
        <4> QED
          BY <4>1 DEF toClear
      <3> QED
        BY <1>1, <1>3, <1>4, <3>1 DEF Clears
    <2> QED
      BY <1>3, <2>2, <2>3 DEF Expects
  <1> QED
    BY <1>2, <1>3, <1>4, <1>5, <1>6, <1>7, GoingOn

LEMMA FailingToWrite ==
  ASSUME OwedInv, AuthenticationProfilesAssumption, PanelInv', NEW c \in Callers, WriteFails(c)
  PROVE  OwedInv'
  <1>0. PanelInv
    BY DEF OwedInv
  <1>1. /\ op[c].stage = "copying" /\ op[c].todo = {} /\ call[c].at = "none"
        /\ op' = [op EXCEPT ![c].stage = "undoing", ![c].todo = toUndo(op[c])]
        /\ UNCHANGED <<settings, session, repository, owed>>
    BY DEF WriteFails
  <1>2. op[c] \in Save
    BY <1>0, <1>1, Stages DEF PanelInv
  <1>3. /\ \A d \in Callers : d # c => op'[d] = op[d]
        /\ op'[c].stage = "undoing" /\ op'[c].kind = "save" /\ op'[c].alone = op[c].alone
        /\ op'[c].todo = toUndo(op[c])
    <2> DEFINE T == toUndo(op[c])
    <2>1. T \in SUBSET (Profiles \X Profiles \X Part)
      BY <1>2, LaterTodo
    <2> HIDE DEF T
    <2>2. op' = [op EXCEPT ![c].stage = "undoing", ![c].todo = T]
      BY <1>1 DEF T
    <2>3. /\ \A d \in Callers : d # c => op'[d] = op[d]
          /\ op'[c].stage = "undoing" /\ op'[c].kind = "save" /\ op'[c].alone = op[c].alone
          /\ op'[c].todo = T
      BY <1>0, <1>2, <2>1, <2>2, NextStage
    <2> QED
      BY <2>3 DEF T
  <1>4. call' = call /\ Still
    BY <1>1 DEF repository, storage, Readable, Still
  <1>5. ASSUME Quiet(c) PROVE Expects(c)'
    <2>1. /\ Nothing \/ op[c].base = settings
          /\ \A r \in op[c].pairs : r[2] \notin Range(op[c].base)
      BY <1>1, <1>5, SavePairs DEF Copies
    <2>2. \A i \in toUndo(op[c]) : i[1] \notin Range(op[c].base)
      BY <2>1 DEF toUndo
    <2>3. Clears(c)'
      BY <1>1, <1>3, <1>4, <2>1, <2>2 DEF Clears, Nothing, nothingOwed
    <2> QED
      BY <1>3, <2>3 DEF Expects
  <1> QED
    BY <1>1, <1>3, <1>4, <1>5, SaveGoesOn

(* What is cleared are ids that are not configured. *)
LEMMA ClearingField ==
  ASSUME OwedInv, AuthenticationProfilesAssumption, PanelInv', NEW c \in Callers,
         ClearField(c) \/ FieldCleared(c)
  PROVE  OwedInv'
  <1>0. Inv /\ PanelInv
    BY DEF OwedInv, PanelInv
  <1>1. op[c].stage \in {"clearing", "undoing"} /\ UNCHANGED <<settings, session, owed>>
    BY DEF ClearField, FieldCleared, panel
  <1>2. op[c].kind = "save"
    BY <1>0, <1>1, Stages DEF PanelInv, Save
  <1>3. CASE ClearField(c)
    <2>1. PICK item \in op[c].todo :
            Ask(c, "delete", <<item[1], item[3]>>, None) /\ op' = op
      BY <1>3 DEF ClearField, panel
    <2>2. /\ \A d \in Callers : d # c => call'[d] = call[d]
          /\ call'[c].key = <<item[1], item[3]>> /\ \A q \in Keys : Readable(q)' = Readable(q)
      BY <1>0, <2>1, Asked
    <2>3. Still
      BY <1>1, <2>2 DEF Still
    <2>4. ASSUME Quiet(c) PROVE Expects(c)'
      <3>1. Clears(c)
        BY <1>1, <2>4 DEF OwedInv, Expects
      <3>2. Clears(c)'
        BY <1>1, <2>1, <2>2, <3>1 DEF Clears, Nothing, nothingOwed
      <3> QED
        BY <1>1, <2>1, <3>2 DEF Expects
    <2> QED
      BY <1>1, <1>2, <2>1, <2>2, <2>3, <2>4, SaveGoesOn
  <1>4. CASE FieldCleared(c)
    <2> DEFINE T == {i \in op[c].todo : <<i[1], i[3]>> # call[c].key}
    <2>1. op' = [op EXCEPT ![c].todo = T] /\ Forget(c) /\ T \subseteq op[c].todo
      BY <1>4 DEF FieldCleared
    <2> HIDE DEF T
    <2>2. /\ \A d \in Callers : d # c => op'[d] = op[d]
          /\ op'[c].stage = op[c].stage /\ op'[c].kind = "save" /\ op'[c].alone = op[c].alone
          /\ op'[c].todo = T
      BY <1>0, <1>1, <2>1, LessTodo
    <2>3. /\ \A d \in Callers : d # c => call'[d] = call[d]
          /\ call'[c].at = "none" /\ \A q \in Keys : Readable(q)' = Readable(q)
      BY <1>0, <2>1, Forgotten
    <2>4. Still
      BY <1>1, <2>3 DEF Still
    <2>5. ASSUME Quiet(c) PROVE Expects(c)'
      <3>1. Clears(c)
        BY <1>1, <2>5 DEF OwedInv, Expects
      <3>2. Clears(c)'
        BY <1>1, <2>1, <2>2, <2>3, <3>1 DEF Clears, Nothing, nothingOwed
      <3> QED
        BY <1>1, <2>2, <3>2 DEF Expects
    <2> QED
      BY <1>1, <2>2, <2>3, <2>4, <2>5, SaveGoesOn
  <1> QED
    BY <1>3, <1>4

LEMMA DeletingSession ==
  ASSUME OwedInv, AuthenticationProfilesAssumption, PanelInv', NEW c \in Callers, DeleteSession(c)
  PROVE  OwedInv'
  <1>0. PanelInv /\ session \in [Profiles -> Values \cup {Absent}]
    BY DEF OwedInv, Owing
  <1>1. PICK item \in op[c].todo :
          /\ op[c].stage \in {"clearing", "undoing"} /\ call[c].at = "none"
          /\ session' = [session EXCEPT ![item[1]] = Absent]
          /\ op' = [op EXCEPT ![c].todo = @ \ {item}]
          /\ UNCHANGED <<settings, repository, owed>>
    BY DEF DeleteSession
  <1> DEFINE T == op[c].todo \ {item}
  <1>2. op' = [op EXCEPT ![c].todo = T] /\ T \subseteq op[c].todo
    BY <1>1
  <1> HIDE DEF T
  <1>3. /\ \A d \in Callers : d # c => op'[d] = op[d]
        /\ op'[c].stage = op[c].stage /\ op'[c].kind = "save" /\ op'[c].alone = op[c].alone
        /\ op'[c].todo = T
    BY <1>0, <1>1, <1>2, LessTodo
  <1>4. call' = call /\ \A k : Readable(k)' = Readable(k)
    BY <1>1 DEF repository, storage, Readable
  <1>5. changes(c) /\ op'[c].kind # "resolve"
    BY <1>0, <1>1, <1>3, Stages DEF PanelInv
  <1>6. Owing'
    BY <1>0, <1>1 DEF OwedInv, Owing
  <1>7. changes(c) /\ ~op[c].alone => owed' = nothingOwed
    BY <1>1 DEF OwedInv, Overlapping, Nothing
  <1>8. ASSUME Quiet(c) PROVE Kept' /\ Expects(c)'
    <2>1. Clears(c)
      BY <1>1, <1>8 DEF OwedInv, Expects
    <2>2. Kept'
      <3> SUFFICES ASSUME NEW k \in Keys, owed'[k] # None
                   PROVE  /\ k[1] \in Range(settings') /\ Readable(k)' = owed'[k]
                          /\ k[2] = "session" => session'[k[1]] = owed'[k]
        BY DEF Kept
      <3>1. /\ k[1] \in Range(settings) /\ Readable(k) = owed[k]
            /\ k[2] = "session" => session[k[1]] = owed[k]
        BY <1>1 DEF OwedInv, Kept
      <3>2. k[1] # item[1]
        BY <1>1, <2>1, <3>1 DEF Clears, Nothing, nothingOwed
      <3>3. session'[k[1]] = session[k[1]]
        <4>1. k[1] \in Profiles
          BY DEF AuthenticationProfilesAssumption
        <4> QED
          BY <1>0, <1>1, <3>2, <4>1
      <3> QED
        BY <1>1, <1>4, <3>1, <3>3
    <2>3. Clears(c)'
      BY <1>1, <1>2, <1>3, <1>4, <2>1 DEF Clears, Nothing, nothingOwed
    <2> QED
      BY <1>1, <1>3, <2>2, <2>3 DEF Expects
  <1> QED
    BY <1>3, <1>4, <1>5, <1>6, <1>7, <1>8, GoingOn

LEMMA JustEnding ==
  ASSUME OwedInv, AuthenticationProfilesAssumption, PanelInv', NEW c \in Callers,
         EndSave(c) \/ GiveUp(c)
  PROVE  OwedInv'
  <1>1. op' = [op EXCEPT ![c] = Idle] /\ UNCHANGED <<settings, session, owed>>
    BY DEF EndSave, GiveUp
  <1>2. /\ \A d \in Callers : d # c => call'[d] = call[d]
        /\ \A k \in Keys : Readable(k)' = Readable(k)
    <2>1. CASE EndSave(c)
      BY <2>1 DEF EndSave, repository, storage, Readable
    <2>2. CASE GiveUp(c)
      BY <2>2, Forgotten DEF GiveUp, OwedInv, PanelInv
    <2> QED
      BY <2>1, <2>2
  <1> QED
    BY <1>1, <1>2, JustEnds DEF Still

-----------------------------------------------------------------------------
(* Steps of the repository, and the window. *)

(* A step changes fields nothing is expected of. *)
LEMMA StepKeeps ==
  ASSUME OwedInv, AuthenticationProfilesAssumption, NEW c \in Callers,
         Works(c) \/ MoveRejected(c) \/ Rejected(c), UNCHANGED <<settings, session, owed>>,
         NEW q, q = call[c].key, Readable(q)' = Readable(q) \/ owed[q] = None
  PROVE  Kept'
  <1> SUFFICES ASSUME NEW k \in Keys, owed'[k] # None
               PROVE  /\ k[1] \in Range(settings') /\ Readable(k)' = owed'[k]
                      /\ k[2] = "session" => session'[k[1]] = owed'[k]
    BY DEF Kept
  <1>1. /\ k[1] \in Range(settings) /\ Readable(k) = owed[k]
        /\ k[2] = "session" => session[k[1]] = owed[k]
    BY DEF OwedInv, Kept
  <1>2. k # q => Readable(k)' = Readable(k)
    BY StepReads DEF OwedInv, PanelInv
  <1> QED
    BY <1>1, <1>2

LEMMA StepEnters ==
  ASSUME OwedInv, AuthenticationProfilesAssumption, NEW c \in Callers,
         Works(c) \/ MoveRejected(c) \/ Rejected(c), UNCHANGED <<settings, session, owed, op>>,
         Quiet(c), op[c].stage = "calling"
  PROVE  Kept' /\ EntersOne(c)'
  <1>1. PICK q : q = call[c].key
    OBVIOUS
  <1>2. /\ call[c].at \in UnderWay /\ call'[c].key = q /\ call'[c].do = call[c].do
        /\ call[c].do \in {"get", "store", "delete"}
    BY <1>1, SameCall, CallParts DEF OwedInv, PanelInv, Inv, UnderWay
  <1>3. EntersOne(c) /\ call[c].at # "none"
    BY <1>2 DEF OwedInv, Expects, UnderWay
  <1>4. q[1] \in Range(settings) /\ owed[q] = None
    BY <1>1, <1>3 DEF EntersOne
  <1>5. Kept'
    BY <1>1, <1>4, StepKeeps
  <1>6. /\ call[c].do = "store" /\ call'[c].at = "settled" => Readable(q)' = call'[c].value
        /\ call[c].do = "delete" => call'[c].value = None
    BY <1>1, StepReads DEF OwedInv, PanelInv
  <1>7. EntersOne(c)'
    BY <1>1, <1>2, <1>3, <1>4, <1>6 DEF EntersOne
  <1> QED
    BY <1>5, <1>7

LEMMA StepCopies ==
  ASSUME OwedInv, AuthenticationProfilesAssumption, NEW c \in Callers,
         Works(c) \/ MoveRejected(c) \/ Rejected(c), UNCHANGED <<settings, session, owed, op>>,
         Quiet(c), op[c].stage = "copying"
  PROVE  Kept' /\ Copies(c)'
  <1>0. Inv
    BY DEF OwedInv, PanelInv
  <1>1. PICK q : q = call[c].key
    OBVIOUS
  <1>2. /\ call[c].at \in UnderWay /\ call'[c].key = q /\ call'[c].do = call[c].do
        /\ call[c].at # "none" /\ call[c].at # "rejected"
    BY <1>0, <1>1, SameCall DEF UnderWay
  <1>3. Copies(c)
    BY SavePairs
  <1>4. PICK r \in op[c].pairs, f \in Field : CopyingFrom(c, r, f) \/ CopyingTo(c, r, f)
    BY <1>2, <1>3 DEF Copies
  <1>5. /\ <<r[1], f>> \in Keys /\ <<r[2], f>> \in Keys
        /\ r[2] \notin Range(op[c].base) /\ <<r[1], f>> # <<r[2], f>>
    BY SavePairs
  <1>6. CASE CopyingFrom(c, r, f)
    <2>1. call[c].do = "get" /\ q = <<r[1], f>>
      BY <1>1, <1>6 DEF CopyingFrom
    <2>2. Readable(q)' = Readable(q) /\ (call'[c].at = "settled" => call'[c].value = Readable(q))
      BY <1>0, <1>1, <2>1, StepReads
    <2>3. Kept'
      BY <1>1, <2>2, StepKeeps
    <2>4. Still
      BY <1>0, <1>1, <2>2, StepReads DEF Still
    <2>5. /\ op'[c].pairs = renamed(op'[c].base, op'[c].list)
          /\ Nothing' \/ op'[c].base = settings'
          /\ \A s \in op'[c].pairs : Copied(c, s)'
      BY <2>4, StaysCopied
    <2>6. CopyingFrom(c, r, f)'
      BY <1>2, <2>1, <2>2 DEF CopyingFrom
    <2>7. Copies(c)'
      BY <2>5, <2>6 DEF Copies
    <2> QED
      BY <2>3, <2>7
  <1>7. CASE CopyingTo(c, r, f)
    <2>1. call[c].do = "store" /\ q = <<r[2], f>> /\ call[c].value = Readable(<<r[1], f>>)
      BY <1>1, <1>2, <1>7 DEF CopyingTo
    <2>2. /\ \A k \in Keys : k # q => Readable(k)' = Readable(k)
          /\ \/ /\ call'[c].at = "settled" /\ call'[c].value = call[c].value
                /\ Readable(q)' = call[c].value
             \/ call'[c].at = "rejected" /\ Readable(q)' = Readable(q)
      BY <1>0, <1>1, <2>1, StepReads
    <2>3. Kept'
      <3>1. owed[q] = None
        <4>1. CASE Nothing
          BY <1>5, <2>1, <4>1 DEF Nothing, nothingOwed
        <4>2. CASE op[c].base = settings
          BY <1>5, <2>1, <4>2 DEF OwedInv, Kept
        <4> QED
          BY <1>3, <4>1, <4>2 DEF Copies
      <3> QED
        BY <1>1, <3>1, StepKeeps
    <2>4. Readable(<<r[1], f>>)' = Readable(<<r[1], f>>)
      BY <1>5, <2>1, <2>2
    <2>5. ASSUME NEW s \in op[c].pairs PROVE Copied(c, s)'
      <3>1. Copied(c, s)
        BY <1>3 DEF Copies
      <3>2. ASSUME NEW g \in Field
            PROVE  \/ <<s[1], s[2], g>> \in op[c].todo
                   \/ Readable(<<s[1], g>>)' \in {None, Readable(<<s[2], g>>)'}
        <4>1. /\ <<s[1], g>> \in Keys /\ <<s[2], g>> \in Keys /\ s[1] # r[2]
              /\ s[2] = r[2] => s = r
          BY SavePairs
        <4>2. Readable(<<s[1], g>>)' = Readable(<<s[1], g>>)
          BY <2>1, <2>2, <4>1
        <4>3. \/ <<s[1], s[2], g>> \in op[c].todo
              \/ Readable(<<s[1], g>>) \in {None, Readable(<<s[2], g>>)}
          BY <3>1 DEF Copied
        <4>4. CASE <<s[2], g>> # q
          BY <2>2, <4>1, <4>2, <4>3, <4>4
        <4>5. CASE <<s[2], g>> = q
          <5>1. s = r /\ g = f
            BY <2>1, <4>1, <4>5
          <5>2. Readable(q)' = Readable(<<r[1], f>>) \/ Readable(q)' = Readable(q)
            BY <2>1, <2>2
          <5> QED
            BY <4>2, <4>3, <4>5, <5>1, <5>2
        <4> QED
          BY <4>4, <4>5
      <3>3. \/ <<s[1], s[2], "metadata">> \in op[c].todo
            \/ session[s[1]] \in {Absent, session[s[2]]}
        BY <3>1 DEF Copied
      <3> QED
        BY <3>2, <3>3 DEF Copied
    <2>6. CopyingTo(c, r, f)'
      BY <1>2, <2>1, <2>2, <2>4 DEF CopyingTo
    <2>7. Copies(c)'
      BY <1>3, <1>4, <2>5, <2>6 DEF Copies, Nothing, nothingOwed
    <2> QED
      BY <2>3, <2>7
  <1> QED
    BY <1>4, <1>6, <1>7

LEMMA StepClears ==
  ASSUME OwedInv, AuthenticationProfilesAssumption, NEW c \in Callers,
         Works(c) \/ MoveRejected(c) \/ Rejected(c), UNCHANGED <<settings, session, owed, op>>,
         Quiet(c), op[c].stage \in {"clearing", "undoing"}
  PROVE  Kept' /\ Clears(c)'
  <1>0. Inv
    BY DEF OwedInv, PanelInv
  <1>1. PICK q : q = call[c].key
    OBVIOUS
  <1>2. q \in Keys /\ call'[c].key = q /\ call[c].at # "none"
    BY <1>0, <1>1, SameCall, StepReads DEF UnderWay
  <1>3. Clears(c)
    BY DEF OwedInv, Expects
  <1>4. owed[q] = None
    BY <1>1, <1>2, <1>3 DEF Clears, Nothing, nothingOwed, OwedInv, Kept
  <1>5. Kept'
    BY <1>1, <1>4, StepKeeps
  <1>6. Clears(c)'
    BY <1>1, <1>2, <1>3 DEF Clears, Nothing, nothingOwed
  <1> QED
    BY <1>5, <1>6

LEMMA RepositoryStepsOwe ==
  ASSUME OwedInv, AuthenticationProfilesAssumption, PanelInv', NEW c \in Callers,
         Proceeds(c) \/ Reject(c)
  PROVE  OwedInv'
  <1>0. Inv /\ PanelInv
    BY DEF OwedInv, PanelInv
  <1>1. /\ Works(c) \/ MoveRejected(c) \/ Rejected(c)
        /\ UNCHANGED <<settings, session, op, owed>>
    BY DEF Proceeds, Reject, panel
  <1>2. /\ call[c].at \in UnderWay /\ call[c].at # "none" /\ call'[c].do = call[c].do
        /\ \A d \in Callers : d # c => call'[d] = call[d]
    BY <1>0, <1>1, SameCall DEF UnderWay
  <1>3. op[c].kind = "resolve" => call[c].do = "get"
    BY <1>2 DEF OwedInv, OnlyReads
  <1>4. ASSUME ~changes(c) PROVE Still
    <2>1. op[c].kind = "resolve"
      BY <1>0, <1>2, <1>4, Stages DEF PanelInv, OperationHolds
    <2>2. PICK q : q = call[c].key
      OBVIOUS
    <2>3. \A k \in Keys : Readable(k)' = Readable(k)
      BY <1>0, <1>1, <1>3, <2>1, <2>2, StepReads
    <2> QED
      BY <1>1, <2>3 DEF Still
  <1>5. ASSUME Quiet(c) PROVE Kept' /\ Expects(c)'
    <2>1. CASE op[c].stage = "calling"
      BY <1>1, <1>5, <2>1, StepEnters DEF Expects
    <2>2. CASE op[c].stage = "copying"
      BY <1>1, <1>5, <2>2, StepCopies DEF Expects
    <2>3. CASE op[c].stage \in {"clearing", "undoing"}
      BY <1>1, <1>5, <2>3, StepClears DEF Expects
    <2> QED
      BY <1>0, <1>5, <2>1, <2>2, <2>3, Stages DEF Quiet, PanelInv
  <1>6. Owing'
    BY <1>1 DEF OwedInv, Owing
  <1>7. changes(c) /\ ~op[c].alone => owed' = nothingOwed
    BY <1>1 DEF OwedInv, Overlapping, Nothing
  <1>8. changes(c)' => changes(c) /\ op'[c].alone = op[c].alone
    BY <1>1 DEF changes, busy
  <1> QED
    BY <1>1, <1>2, <1>3, <1>4, <1>5, <1>6, <1>7, <1>8, GoingOn

LEMMA ReloadingOwes ==
  ASSUME OwedInv, PanelInv', Reload
  PROVE  OwedInv'
  <1>1. /\ op' = [c \in Callers |-> Idle] /\ UNCHANGED <<settings, session, owed, storage>>
    BY DEF Reload, Lost
  <1>2. \A c \in Callers : op'[c].kind = "none" /\ ~changes(c)'
    BY <1>1 DEF changes, busy, Idle
  <1>3. Owing' /\ Kept'
    BY <1>1 DEF OwedInv, Owing, Kept, Readable, storage
  <1>4. Apart' /\ Overlapping' /\ OnlyReads'
    BY <1>2 DEF Apart, Overlapping, OnlyReads
  <1>5. \A c \in Callers : Expects(c)'
    BY <1>2 DEF Expects, Quiet
  <1> QED
    BY <1>3, <1>4, <1>5 DEF OwedInv

-----------------------------------------------------------------------------
LEMMA OwingStarts ==
  ASSUME AuthenticationProfilesAssumption, Init
  PROVE  OwedInv
  <1>1. PanelInv
    BY PanelStarts
  <1>2. \A c \in Callers : op[c] = Idle
    BY DEF Init
  <1>3. \A c \in Callers : op[c].kind = "none" /\ ~changes(c)
    BY <1>2 DEF changes, busy, Idle
  <1>4. \A k \in Keys : Readable(k) \in Values /\ <<k[1], k[2]>> = k /\ k[1] \in Profiles
    BY DEF Init, RepositoryInit, Readable, AuthenticationProfilesAssumption
  <1>5. \A p \in Profiles : <<p, "session">> \in Keys
    BY DEF AuthenticationProfilesAssumption, Field
  <1>6. Owing
    BY <1>4, <1>5 DEF Init, Owing
  <1>7. Kept
    <2> SUFFICES ASSUME NEW k \in Keys, owed[k] # None
                 PROVE  /\ k[1] \in Range(settings) /\ Readable(k) = owed[k]
                        /\ k[2] = "session" => session[k[1]] = owed[k]
      BY DEF Kept
    <2>1. owed[k] = Readable(k)
      BY DEF Init
    <2>2. k[1] \in Range(settings)
      BY <2>1 DEF Init
    <2>3. k[2] = "session" => session[k[1]] = Readable(k)
      BY <1>4, <2>1 DEF Init
    <2> QED
      BY <2>1, <2>2, <2>3
  <1>8. Apart /\ Overlapping /\ OnlyReads
    BY <1>3 DEF Apart, Overlapping, OnlyReads
  <1>9. \A c \in Callers : Expects(c)
    BY <1>3 DEF Expects, Quiet
  <1> QED
    BY <1>1, <1>6, <1>7, <1>8, <1>9 DEF OwedInv

LEMMA OwingSteps == OwedInv /\ [Next]_allVars => OwedInv'
  <1> SUFFICES ASSUME OwedInv, [Next]_allVars
               PROVE  OwedInv'
    OBVIOUS
  <1>1. PanelInv'
    BY PanelSteps DEF OwedInv
  <1>2. CASE Next
    <2>1. CASE Reload
      BY <1>1, <2>1, ReloadingOwes
    <2>2. ASSUME NEW c \in Callers,
                 \/ StoreSecret(c) \/ ClearSecret(c) \/ SecretChanged(c)
                 \/ ApplyTokens(c) \/ TokensApplied(c) \/ Resolve(c) \/ Resolved(c)
          PROVE  OwedInv'
      BY <1>1, <2>2, AuthenticationProfilesAssumption, SecretRepositoryAssumption,
         EnteringOwes, ReturningOwes, ResolvingOwes
    <2>3. ASSUME NEW c \in Callers,
                 \/ BeginSave(c) \/ CopyField(c) \/ FieldRead(c) \/ FieldCopied(c) \/ Remount(c)
          PROVE  OwedInv'
      BY <1>1, <2>3, AuthenticationProfilesAssumption,
         BeginningSaveOwes, CopyingField, ReadingField, CopiedField, Remounting
    <2>4. ASSUME NEW c \in Callers,
                 \/ WriteSettings(c) \/ WriteFails(c) \/ ClearField(c) \/ FieldCleared(c)
                 \/ DeleteSession(c) \/ EndSave(c) \/ Proceeds(c) \/ GiveUp(c) \/ Reject(c)
          PROVE  OwedInv'
      BY <1>1, <2>4, AuthenticationProfilesAssumption, SecretRepositoryAssumption, WritingOwes,
         FailingToWrite, ClearingField, DeletingSession, JustEnding, RepositoryStepsOwe
    <2> QED
      BY <1>2, <2>1, <2>2, <2>3, <2>4 DEF Next
  <1>3. CASE UNCHANGED allVars
    <2>1. UNCHANGED <<settings, session, op, owed, call, storage>>
      BY <1>3 DEF allVars, panel, repository
    <2>2. Still
      BY <2>1 DEF Still, storage, Readable
    <2>3. Owing' /\ Kept' /\ Apart' /\ Overlapping' /\ OnlyReads'
      BY <2>1, <2>2 DEF OwedInv, Owing, Kept, Apart, Overlapping, OnlyReads, Still,
                        Nothing, nothingOwed, changes, busy
    <2>4. \A c \in Callers : Expects(c)'
      BY <2>1, <2>2, StillExpects, AuthenticationProfilesAssumption
    <2> QED
      BY <1>1, <2>3, <2>4 DEF OwedInv
  <1> QED
    BY <1>2, <1>3

(* Whatever is rejected, wherever a save fails or the window is reloaded: a  *)
(* configured profile reads the credential entered last and the session      *)
(* token applied last, also under a new id, as long as no two operations     *)
(* that change something have overlapped.                                    *)
THEOREM CredentialsAreKept == Spec => []CredentialsSurvive
  <1>1. Init => OwedInv
    BY OwingStarts, AuthenticationProfilesAssumption
  <1>2. OwedInv => CredentialsSurvive
    BY DEF OwedInv, Kept, CredentialsSurvive
  <1> QED
    BY <1>1, <1>2, OwingSteps, PTL DEF Spec
=============================================================================
