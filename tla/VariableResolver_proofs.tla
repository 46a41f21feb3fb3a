----------------------- MODULE VariableResolver_proofs -----------------------
(***************************************************************************)
(* Proofs about VariableResolver for any names, contexts and requests.     *)
(*                                                                         *)
(* What is known while calls are under way is stated locally: a value      *)
(* rests on the values of its references, a failure on the failure of one  *)
(* of them, and a call on those of its references it has dealt with. That  *)
(* values come down to texts without references holds as each is added     *)
(* after those it rests on.                                                *)
(***************************************************************************)
EXTENDS VariableResolver, TLAPS

(* The definition that counts among those looked at. *)
Chosen ==
  /\ \A i \in 1..read :
       definitions[i].name \notin BuiltIns => definitions[i].name \in DOMAIN effective
  /\ \A n \in DOMAIN effective :
       /\ n \notin BuiltIns
       /\ \E i \in 1..read :
            /\ definitions[i].name = n /\ effective[n] = definitions[i]
            /\ \A k \in 1..read : definitions[k].name = n /\ k # i => Beats(i, k)

(* Nothing is resolved before every definition was looked at. *)
Fresh ==
  read # Len(definitions) =>
    stack = <<>> /\ DOMAIN values = {} /\ failed = {} /\ result.status = "none"

ValuesRest ==
  \A n \in DOMAIN values :
    /\ n \in DOMAIN effective /\ n \notin failed
    /\ effective[n].refs \subseteq DOMAIN values
    /\ values[n].scope = effective[n].scope
    /\ values[n].sensitive <=>
         effective[n].sensitive \/ \E d \in effective[n].refs : values[d].sensitive

ValuesGrounded ==
  \A T \in SUBSET DOMAIN values : T # {} => \E n \in T : effective[n].refs \intersect T = {}

FailuresRest ==
  \A n \in failed \intersect DOMAIN effective : \E d \in effective[n].refs : d \in failed

(* What a call knows of the references it has dealt with. *)
CallHolds(f, counted, vals, broken) ==
  /\ f.name \in DOMAIN counted /\ f.name \notin DOMAIN vals
  /\ f.todo \subseteq counted[f.name].refs
  /\ f.valid => counted[f.name].refs \ f.todo \subseteq DOMAIN vals
  /\ ~f.valid => \E d \in counted[f.name].refs : d \in broken
  /\ f.valid => (f.sensitive <=>
                   \/ counted[f.name].sensitive
                   \/ \E d \in counted[f.name].refs \ f.todo : vals[d].sensitive)

CallsHold ==
  /\ \A i \in 1..Len(stack) : CallHolds(stack[i], effective, values, failed)
  /\ \A i, j \in 1..Len(stack) : stack[i].name = stack[j].name => i = j
  /\ \A i \in 1..(Len(stack) - 1) : stack[i + 1].name \in stack[i].todo

Reported ==
  /\ result.status # "none" => stack = <<>>
  /\ result.status = "resolved" =>
       /\ result.uses \subseteq DOMAIN values
       /\ result.masked = {n \in result.uses : values[n].sensitive}

Inv ==
  /\ TypeOK /\ Chosen /\ Fresh
  /\ ValuesRest /\ ValuesGrounded /\ FailuresRest /\ CallsHold /\ Reported

-----------------------------------------------------------------------------
LEMMA RanksAreNumbers == \A s \in Scopes : PRECEDENCE[s] \in Nat
  BY DEF Scopes, PRECEDENCE

(* Once all definitions were looked at, those that count are the winners.    *)
LEMMA ChosenAreWinners ==
  ASSUME TypeOK, Chosen, read = Len(definitions)
  PROVE  Defined = DOMAIN effective /\ \A n \in Defined : Winner(n) = effective[n]
  <1>1. /\ Len(definitions) \in Nat
        /\ \A i \in 1..Len(definitions) : definitions[i] \in Definition
    BY DEF TypeOK
  <1>2. Defined = DOMAIN effective
    <2>1. ASSUME NEW n \in Defined
          PROVE  n \in DOMAIN effective
      <3>1. PICK i \in Proper : n = definitions[i].name
        BY <2>1 DEF Defined
      <3> QED
        BY <3>1 DEF Proper, Chosen
    <2>2. ASSUME NEW n \in DOMAIN effective
          PROVE  n \in Defined
      <3>1. n \notin BuiltIns /\ \E i \in 1..read : definitions[i].name = n
        BY <2>2 DEF Chosen
      <3> QED
        BY <3>1 DEF Defined, Proper
    <2> QED
      BY <2>1, <2>2
  <1>3. ASSUME NEW n \in Defined
        PROVE  Winner(n) = effective[n]
    <2> DEFINE Best(i) == /\ definitions[i].name = n
                          /\ \A k \in Proper \ {i} : definitions[k].name = n => Beats(i, k)
    <2>1. n \notin BuiltIns
      BY <1>2 DEF Chosen
    <2>2. PICK i \in 1..read :
            /\ definitions[i].name = n /\ effective[n] = definitions[i]
            /\ \A k \in 1..read : definitions[k].name = n /\ k # i => Beats(i, k)
      BY <1>2 DEF Chosen
    <2>3. i \in Proper /\ Best(i)
      BY <2>1, <2>2 DEF Proper
    <2>4. ASSUME NEW j \in Proper, Best(j), j # i
          PROVE  FALSE
      <3>1. Beats(i, j) /\ Beats(j, i)
        BY <2>1, <2>2, <2>3, <2>4 DEF Proper
      <3>2. /\ PRECEDENCE[definitions[i].scope] \in Nat
            /\ PRECEDENCE[definitions[j].scope] \in Nat
        BY <1>1, <2>3, <2>4, RanksAreNumbers DEF Proper, Definition
      <3>3. i \in Nat /\ j \in Nat
        BY <1>1, <2>3, <2>4 DEF Proper
      <3> QED
        BY <3>1, <3>2, <3>3 DEF Beats
    <2>5. (CHOOSE j \in Proper : Best(j)) = i
      <3> HIDE DEF Best
      <3>1. \E j \in Proper : Best(j)
        BY <2>3
      <3>2. \A j \in Proper : Best(j) => j = i
        BY <2>4
      <3> QED
        BY <3>1, <3>2
    <2> QED
      BY <2>2, <2>5 DEF Winner
  <1> QED
    BY <1>2, <1>3

-----------------------------------------------------------------------------
LEMMA DefineKeeps ==
  ASSUME Inv, Define
  PROVE  Inv'
  <1> DEFINE d == definitions[read + 1]
  <1>1. /\ read \in Nat /\ Len(definitions) \in Nat /\ read < Len(definitions)
        /\ read' = read + 1
        /\ UNCHANGED <<definitions, values, failed, stack, result>>
    BY DEF Define, Inv, TypeOK
  <1>2. \A i \in 1..Len(definitions) : definitions[i] \in Definition
    BY DEF Inv, TypeOK
  <1>3. d \in Definition
    BY <1>1, <1>2
  <1> DEFINE Ignored == d.name \in BuiltIns
             Beaten == /\ d.name \notin BuiltIns /\ d.name \in DOMAIN effective
                       /\ PRECEDENCE[d.scope] <= PRECEDENCE[effective[d.name].scope]
             Added ==
               /\ d.name \notin BuiltIns
               /\ DOMAIN effective' = DOMAIN effective \union {d.name}
               /\ effective'[d.name] = d
               /\ \A n \in DOMAIN effective \ {d.name} : effective'[n] = effective[n]
               /\ d.name \in DOMAIN effective =>
                    PRECEDENCE[d.scope] > PRECEDENCE[effective[d.name].scope]
  <1>4. ((Ignored \/ Beaten) /\ UNCHANGED effective) \/ Added
    <2>1. CASE d.name \in BuiltIns
      BY <2>1 DEF Define
    <2>2. CASE d.name \notin BuiltIns /\ isDuplicate(read + 1)
      <3>1. UNCHANGED effective
        BY <2>2 DEF Define
      <3>2. PICK k \in 1..read : /\ definitions[k].name = d.name
                                 /\ definitions[k].scope = d.scope
        BY <1>1, <2>2 DEF isDuplicate
      <3>3. d.name \in DOMAIN effective
        BY <2>2, <3>2 DEF Inv, Chosen
      <3>4. PICK i \in 1..read :
              /\ effective[d.name] = definitions[i]
              /\ \A m \in 1..read : definitions[m].name = d.name /\ m # i => Beats(i, m)
        BY <3>3 DEF Inv, Chosen
      <3>5. k = i \/ Beats(i, k)
        BY <3>2, <3>4
      <3>6. /\ PRECEDENCE[definitions[i].scope] \in Nat
            /\ PRECEDENCE[definitions[k].scope] \in Nat
        BY <1>1, <1>2, RanksAreNumbers DEF Definition
      <3>7. PRECEDENCE[definitions[k].scope] <= PRECEDENCE[definitions[i].scope]
        BY <3>5, <3>6 DEF Beats
      <3> QED
        BY <2>2, <3>1, <3>2, <3>3, <3>4, <3>7
    <2>3. CASE d.name \notin BuiltIns /\ ~isDuplicate(read + 1) /\ counts(d)
      <3>1. effective' = With(effective, d.name, d)
        BY <2>3 DEF Define
      <3>2. /\ DOMAIN effective' = DOMAIN effective \union {d.name}
            /\ effective'[d.name] = d
            /\ \A n \in DOMAIN effective \ {d.name} : effective'[n] = effective[n]
        <4> HIDE DEF d
        <4> QED
          BY <3>1 DEF With
      <3> QED
        BY <2>3, <3>2 DEF counts
    <2>4. CASE d.name \notin BuiltIns /\ ~isDuplicate(read + 1) /\ ~counts(d)
      <3>1. UNCHANGED effective /\ d.name \in DOMAIN effective
            /\ ~(PRECEDENCE[d.scope] > PRECEDENCE[effective[d.name].scope])
        BY <2>4 DEF Define, counts
      <3>2. PRECEDENCE[d.scope] \in Nat /\ PRECEDENCE[effective[d.name].scope] \in Nat
        BY <1>3, <3>1, RanksAreNumbers DEF Inv, TypeOK, Definition
      <3> QED
        BY <2>4, <3>1, <3>2
    <2> QED
      BY <2>1, <2>2, <2>3, <2>4
  <1> HIDE DEF d
  <1>5. DOMAIN effective' \subseteq Names /\ \A n \in DOMAIN effective' : effective'[n] \in Definition
    <2>1. d.name \in Names
      BY <1>3 DEF Definition
    <2> QED
      BY <1>3, <1>4, <2>1 DEF Inv, TypeOK
  <1>6. TypeOK'
    BY <1>1, <1>5 DEF Inv, TypeOK
  <1>7. Chosen'
    <2>1. \A i \in 1..read' : definitions'[i].name \notin BuiltIns => definitions'[i].name \in DOMAIN effective'
      <3> SUFFICES ASSUME NEW i \in 1..(read + 1), definitions[i].name \notin BuiltIns
                   PROVE  definitions[i].name \in DOMAIN effective'
        BY <1>1
      <3>1. CASE i = read + 1
        BY <1>4, <3>1 DEF d
      <3>2. CASE i \in 1..read
        BY <1>4, <3>2 DEF Inv, Chosen
      <3> QED
        BY <1>1, <3>1, <3>2
    <2>2. ASSUME NEW n \in DOMAIN effective'
          PROVE  /\ n \notin BuiltIns
                 /\ \E i \in 1..(read + 1) :
                      /\ definitions[i].name = n /\ effective'[n] = definitions[i]
                      /\ \A k \in 1..(read + 1) : definitions[k].name = n /\ k # i => Beats(i, k)
      <3>0. /\ read + 1 \in 1..(read + 1) /\ read + 1 \in 1..Len(definitions)
            /\ \A k \in 1..(read + 1) : k = read + 1 \/ k \in 1..read
            /\ \A k \in 1..read : k \in 1..Len(definitions) /\ k \in 1..(read + 1) /\ k < read + 1
        BY <1>1
      <3>1. CASE n # d.name
        <4>1. n \in DOMAIN effective /\ effective'[n] = effective[n]
          BY <1>4, <2>2, <3>1
        <4>2. definitions[read + 1].name # n
          BY <3>1 DEF d
        <4>3. n \notin BuiltIns
          BY <4>1 DEF Inv, Chosen
        <4>4. PICK i \in 1..read :
                /\ definitions[i].name = n /\ effective[n] = definitions[i]
                /\ \A k \in 1..read : definitions[k].name = n /\ k # i => Beats(i, k)
          BY <4>1 DEF Inv, Chosen
        <4>5. \A k \in 1..(read + 1) : definitions[k].name = n /\ k # i => Beats(i, k)
          BY <3>0, <4>2, <4>4
        <4> QED
          BY <3>0, <4>1, <4>3, <4>4, <4>5
      <3>2. CASE n = d.name /\ (Ignored \/ Beaten) /\ UNCHANGED effective
        <4>1. n \in DOMAIN effective
          BY <2>2, <3>2
        <4>2. n \notin BuiltIns
          BY <4>1 DEF Inv, Chosen
        <4>3. PICK i \in 1..read :
                /\ definitions[i].name = n /\ effective[n] = definitions[i]
                /\ \A k \in 1..read : definitions[k].name = n /\ k # i => Beats(i, k)
          BY <4>1 DEF Inv, Chosen
        <4>4. /\ PRECEDENCE[definitions[i].scope] \in Nat
              /\ PRECEDENCE[d.scope] \in Nat
          BY <1>2, <1>3, <3>0, <4>3, RanksAreNumbers DEF Definition
        <4>5. PRECEDENCE[d.scope] <= PRECEDENCE[definitions[i].scope]
          BY <3>2, <4>2, <4>3
        <4>6. Beats(i, read + 1)
          BY <1>1, <3>0, <4>4, <4>5 DEF Beats, d
        <4>7. \A k \in 1..(read + 1) : definitions[k].name = n /\ k # i => Beats(i, k)
          BY <3>0, <4>3, <4>6
        <4> QED
          BY <3>0, <3>2, <4>2, <4>3, <4>7
      <3>3. CASE n = d.name /\ Added
        <4>1. /\ n \notin BuiltIns
              /\ (n \in DOMAIN effective => PRECEDENCE[d.scope] > PRECEDENCE[effective[n].scope])
          BY <3>3
        <4>2. effective'[n] = definitions[read + 1] /\ definitions[read + 1].name = n
          BY <3>3 DEF d
        <4>3. ASSUME NEW k \in 1..read, definitions[k].name = n
              PROVE  Beats(read + 1, k)
          <5>1. n \in DOMAIN effective
            BY <4>1, <4>3 DEF Inv, Chosen
          <5>2. PICK i \in 1..read :
                  /\ effective[n] = definitions[i]
                  /\ \A m \in 1..read : definitions[m].name = n /\ m # i => Beats(i, m)
            BY <5>1 DEF Inv, Chosen
          <5>3. k = i \/ Beats(i, k)
            BY <4>3, <5>2
          <5>4. /\ PRECEDENCE[definitions[i].scope] \in Nat
                /\ PRECEDENCE[definitions[k].scope] \in Nat
                /\ PRECEDENCE[d.scope] \in Nat
            BY <1>2, <1>3, <3>0, RanksAreNumbers DEF Definition
          <5>5. PRECEDENCE[d.scope] > PRECEDENCE[definitions[i].scope]
            BY <4>1, <5>1, <5>2
          <5> QED
            BY <5>3, <5>4, <5>5 DEF Beats, d
        <4>4. \A k \in 1..(read + 1) : definitions[k].name = n /\ k # read + 1 => Beats(read + 1, k)
          BY <3>0, <4>3
        <4> QED
          BY <3>0, <4>1, <4>2, <4>4
      <3> QED
        BY <1>4, <3>1, <3>2, <3>3
    <2>3. \A i, k : Beats(i, k)' <=> Beats(i, k)
      BY <1>1 DEF Beats
    <2> QED
      BY <1>1, <2>1, <2>2, <2>3 DEF Chosen
  <1>8. stack = <<>> /\ DOMAIN values = {} /\ failed = {} /\ result.status = "none"
    BY <1>1 DEF Inv, Fresh
  <1>9. Fresh' /\ ValuesRest' /\ ValuesGrounded' /\ FailuresRest' /\ CallsHold' /\ Reported'
    <2>1. Len(stack') = 0
      BY <1>1, <1>8
    <2>2. 1..Len(stack') = {} /\ 1..(Len(stack') - 1) = {}
      BY <2>1
    <2> QED
      BY <1>1, <1>8, <2>2 DEF Fresh, ValuesRest, ValuesGrounded, FailuresRest, CallsHold, Reported
  <1> QED
    BY <1>6, <1>7, <1>9 DEF Inv
-----------------------------------------------------------------------------
(* After the definitions were looked at, they stay as they are. *)
Settled == UNCHANGED <<definitions, read, effective>> /\ read = Len(definitions)

LEMMA ChosenStays ==
  ASSUME Inv, Settled
  PROVE  Chosen' /\ Fresh'
  <1>1. \A i, k : Beats(i, k)' <=> Beats(i, k)
    BY DEF Settled, Beats
  <1> QED
    BY <1>1 DEF Inv, Settled, Chosen, Fresh

LEMMA BelowIs ==
  ASSUME TypeOK, stack # <<>>
  PROVE  /\ Len(stack) \in Nat \ {0} /\ Top \in Call /\ Top = stack[Len(stack)]
         /\ Below \in Seq(Call) /\ Len(Below) = Len(stack) - 1
         /\ \A k \in 1..(Len(stack) - 1) : Below[k] = stack[k]
  <1>1. stack \in Seq(Call) /\ Len(stack) \in Nat \ {0} /\ DOMAIN stack = 1..Len(stack)
    BY DEF TypeOK
  <1>2. Top \in Call
    BY <1>1 DEF Top
  <1>3. \A i \in 1..(Len(stack) - 1) : stack[i] \in Call
    BY <1>1
  <1>4. Below = [i \in 1..(Len(stack) - 1) |-> stack[i]]
    BY <1>1 DEF Below
  <1>5. Below \in Seq(Call) /\ Len(Below) = Len(stack) - 1
    BY <1>1, <1>3, <1>4
  <1> QED
    BY <1>1, <1>2, <1>4, <1>5 DEF Top

LEMMA AppendIs ==
  ASSUME NEW S, NEW s \in Seq(S), NEW e \in S
  PROVE  /\ Append(s, e) \in Seq(S) /\ Len(Append(s, e)) = Len(s) + 1
         /\ Append(s, e)[Len(s) + 1] = e
         /\ \A k \in 1..Len(s) : Append(s, e)[k] = s[k]
  OBVIOUS

(* Calls that are not touched keep what they know when more fails. *)
LEMMA CallStays ==
  ASSUME NEW f, CallHolds(f, effective, values, failed),
         UNCHANGED <<effective, values>>, failed \subseteq failed'
  PROVE  CallHolds(f, effective', values', failed')
  BY DEF CallHolds

(* The call on top has dealt with one more reference. *)
LEMMA TopReplaced ==
  ASSUME Inv, stack # <<>>, UNCHANGED <<effective, values>>, failed \subseteq failed',
         NEW f \in Call, stack' = Append(Below, f), f.name = Top.name, CallHolds(f, effective', values', failed')
  PROVE  stack' \in Seq(Call) /\ CallsHold'
  <1>1. /\ Len(stack) \in Nat \ {0} /\ Len(stack') = Len(stack)
        /\ stack' \in Seq(Call) /\ stack'[Len(stack)] = f
        /\ \A k \in 1..(Len(stack) - 1) : stack'[k] = stack[k]
    BY BelowIs, AppendIs DEF Inv
  <1>2. \A k \in 1..Len(stack) : stack'[k].name = stack[k].name
    <2>1. Top = stack[Len(stack)]
      BY BelowIs DEF Inv
    <2> QED
      BY <1>1, <2>1
  <1>3. ASSUME NEW k \in 1..(Len(stack) - 1)
        PROVE  CallHolds(stack'[k], effective', values', failed')
    <2>1. CallHolds(stack[k], effective, values, failed)
      BY <1>1 DEF Inv, CallsHold
    <2> QED
      BY <1>1, <2>1, CallStays
  <1>4. \A i \in 1..Len(stack') : CallHolds(stack'[i], effective', values', failed')
    BY <1>1, <1>3
  <1>5. \A i, j \in 1..Len(stack') : stack'[i].name = stack'[j].name => i = j
    BY <1>1, <1>2 DEF Inv, CallsHold
  <1>6. \A i \in 1..(Len(stack') - 1) : stack'[i + 1].name \in stack'[i].todo
    <2>1. \A i \in 1..(Len(stack) - 1) : i + 1 \in 1..Len(stack) /\ i \in 1..Len(stack)
      BY <1>1
    <2> QED
      BY <1>1, <1>2, <2>1 DEF Inv, CallsHold
  <1> QED
    BY <1>1, <1>4, <1>5, <1>6 DEF CallsHold

(* The reference d failed, and what failed before still has. *)
LEMMA BrokenKeeps ==
  ASSUME Inv, NEW d \in Names, References(d), UNCHANGED values, Settled,
         Broken(d), failed \subseteq failed', d \in failed'
  PROVE  stack' \in Seq(Call) /\ CallsHold'
  <1> DEFINE f == [Top EXCEPT !.todo = @ \ {d}, !.valid = FALSE]
  <1>1. Top \in Call /\ stack # <<>> /\ d \in Top.todo
    BY BelowIs DEF Inv, References
  <1>2. /\ f \in Call /\ f.name = Top.name /\ f.todo = Top.todo \ {d} /\ ~f.valid
    BY <1>1 DEF Call
  <1>3. CallHolds(Top, effective, values, failed)
    <2>1. Len(stack) \in 1..Len(stack) /\ Top = stack[Len(stack)]
      BY <1>1, BelowIs DEF Inv
    <2> QED
      BY <2>1 DEF Inv, CallsHold
  <1>4. stack' = Append(Below, f)
    BY DEF Broken
  <1> HIDE DEF f
  <1>5. CallHolds(f, effective', values', failed')
    BY <1>1, <1>2, <1>3 DEF CallHolds, Settled
  <1> QED
    BY <1>1, <1>2, <1>4, <1>5, TopReplaced DEF Settled

LEMMA SubstituteKeeps ==
  ASSUME Inv, NEW d \in Names, Substitute(d)
  PROVE  Inv'
  <1> DEFINE f == [Top EXCEPT !.todo = @ \ {d}, !.sensitive = @ \/ values[d].sensitive]
  <1>1. /\ Top \in Call /\ stack # <<>> /\ d \in Top.todo /\ d \in DOMAIN values
        /\ UNCHANGED <<definitions, read, effective, values, failed, errors, result>>
        /\ stack' = Append(Below, f)
        /\ read = Len(definitions) /\ result.status = "none"
    BY BelowIs DEF Inv, References, Resolving, Substitute
  <1>2. values[d].sensitive \in BOOLEAN
    BY <1>1 DEF Inv, TypeOK
  <1>3. /\ f \in Call /\ f.name = Top.name /\ f.todo = Top.todo \ {d} /\ f.valid = Top.valid
        /\ f.sensitive = (Top.sensitive \/ values[d].sensitive)
    BY <1>1, <1>2 DEF Call
  <1>4. CallHolds(Top, effective, values, failed)
    <2>1. Len(stack) \in 1..Len(stack) /\ Top = stack[Len(stack)]
      BY <1>1, BelowIs DEF Inv
    <2> QED
      BY <2>1 DEF Inv, CallsHold
  <1> HIDE DEF f
  <1>5. CallHolds(f, effective', values', failed')
    <2> DEFINE refs == effective[Top.name].refs
    <2>1. d \in refs /\ refs \ f.todo = (refs \ Top.todo) \union {d}
      BY <1>1, <1>3, <1>4 DEF CallHolds
    <2>2. f.valid => (f.sensitive <=> \/ effective[Top.name].sensitive
                                      \/ \E e \in refs \ f.todo : values[e].sensitive)
      BY <1>3, <1>4, <2>1 DEF CallHolds
    <2> QED
      BY <1>1, <1>3, <1>4, <2>1, <2>2 DEF CallHolds
  <1>6. stack' \in Seq(Call) /\ CallsHold'
    BY <1>1, <1>3, <1>5, TopReplaced
  <1>7. Chosen' /\ Fresh'
    BY <1>1, ChosenStays DEF Settled
  <1>8. TypeOK'
    BY <1>1, <1>6 DEF Inv, TypeOK
  <1>9. ValuesRest' /\ ValuesGrounded' /\ FailuresRest' /\ Reported'
    BY <1>1 DEF Inv, ValuesRest, ValuesGrounded, FailuresRest, Reported
  <1> QED
    BY <1>6, <1>7, <1>8, <1>9 DEF Inv

(* More names fail, none of them resolved. *)
LEMMA FailedGrows ==
  ASSUME Inv, NEW d \in Names, References(d), Broken(d),
         UNCHANGED <<definitions, read, effective, values, result>>,
         failed \subseteq failed', failed' \subseteq Names, d \in failed',
         failed' \intersect DOMAIN values = {}, FailuresRest'
  PROVE  Inv'
  <1>1. Settled /\ stack # <<>> /\ result.status = "none"
    BY DEF Settled, References, Resolving
  <1>2. stack' \in Seq(Call) /\ CallsHold'
    BY <1>1, BrokenKeeps
  <1>3. Chosen' /\ Fresh'
    BY <1>1, ChosenStays
  <1>4. TypeOK'
    BY <1>2 DEF Inv, TypeOK
  <1>5. ValuesRest' /\ ValuesGrounded' /\ Reported'
    BY <1>1 DEF Inv, ValuesRest, ValuesGrounded, Reported
  <1> QED
    BY <1>2, <1>3, <1>4, <1>5 DEF Inv

LEMMA MeetFailedKeeps ==
  ASSUME Inv, NEW d \in Names, MeetFailed(d)
  PROVE  Inv'
  <1>1. /\ failed' = failed /\ d \in failed /\ References(d) /\ Broken(d)
        /\ UNCHANGED <<definitions, read, effective, values, result>>
    BY DEF MeetFailed
  <1>2. FailuresRest' /\ failed \subseteq Names /\ failed \intersect DOMAIN values = {}
    BY <1>1 DEF Inv, FailuresRest, ValuesRest, TypeOK
  <1> QED
    BY <1>1, <1>2, FailedGrows

LEMMA MeetUndefinedKeeps ==
  ASSUME Inv, NEW d \in Names, MeetUndefined(d)
  PROVE  Inv'
  <1>1. /\ failed' = failed \union {d} /\ References(d) /\ Broken(d) /\ d \notin DOMAIN effective
        /\ d \notin DOMAIN values
        /\ UNCHANGED <<definitions, read, effective, values, result>>
    BY DEF MeetUndefined, Known
  <1>2. FailuresRest'
    BY <1>1 DEF Inv, FailuresRest
  <1>3. failed' \subseteq Names /\ failed' \intersect DOMAIN values = {}
    BY <1>1 DEF Inv, ValuesRest, TypeOK
  <1> QED
    BY <1>1, <1>2, <1>3, FailedGrows

LEMMA MeetCycleKeeps ==
  ASSUME Inv, NEW d \in Names, MeetCycle(d)
  PROVE  Inv'
  <1> DEFINE circle == {stack[i].name : i \in Since(d)..Len(stack)}
  <1>1. /\ failed' = failed \union circle /\ References(d) /\ Broken(d) /\ OnStack(d)
        /\ UNCHANGED <<definitions, read, effective, values, result>>
    BY DEF MeetCycle
  <1>2. Since(d) \in 1..Len(stack) /\ stack[Since(d)].name = d
    BY <1>1 DEF OnStack, Since
  <1> DEFINE s == Since(d)
  <1> HIDE DEF s
  <1>3. /\ Len(stack) \in Nat \ {0} /\ stack # <<>> /\ Top = stack[Len(stack)] /\ d \in Top.todo
    BY <1>1, BelowIs DEF Inv, References
  <1>4. s \in 1..Len(stack) /\ stack[s].name = d /\ circle = {stack[i].name : i \in s..Len(stack)}
    BY <1>2 DEF s
  <1> HIDE DEF circle
  <1>5. d \in circle
    BY <1>3, <1>4
  <1>6. \A i \in 1..Len(stack) : CallHolds(stack[i], effective, values, failed) /\ stack[i] \in Call
    BY DEF Inv, CallsHold, TypeOK
  <1>7. \A n \in circle : n \in DOMAIN effective /\ n \notin DOMAIN values /\ n \in Names
    <2> SUFFICES ASSUME NEW n \in circle
                 PROVE  n \in DOMAIN effective /\ n \notin DOMAIN values /\ n \in Names
      OBVIOUS
    <2>1. PICK i \in s..Len(stack) : n = stack[i].name
      BY <1>4
    <2>2. i \in 1..Len(stack)
      BY <1>3, <1>4, <2>1
    <2> QED
      BY <1>6, <2>1, <2>2 DEF CallHolds, Call
  <1>8. \A n \in circle : \E e \in effective[n].refs : e \in circle
    <2> SUFFICES ASSUME NEW n \in circle
                 PROVE  \E e \in effective[n].refs : e \in circle
      OBVIOUS
    <2>1. PICK i \in s..Len(stack) : n = stack[i].name
      BY <1>4
    <2>2. i \in 1..Len(stack)
      BY <1>3, <1>4, <2>1
    <2>3. stack[i].todo \subseteq effective[n].refs
      BY <1>6, <2>1, <2>2 DEF CallHolds
    <2>4. CASE i = Len(stack)
      BY <1>3, <1>5, <2>3, <2>4
    <2>5. CASE i # Len(stack)
      <3>1. i \in 1..(Len(stack) - 1) /\ i + 1 \in s..Len(stack)
        BY <1>3, <1>4, <2>1, <2>5
      <3>2. stack[i + 1].name \in stack[i].todo
        BY <3>1 DEF Inv, CallsHold
      <3>3. stack[i + 1].name \in circle
        BY <1>4, <3>1
      <3> QED
        BY <2>3, <3>2, <3>3
    <2> QED
      BY <2>4, <2>5
  <1>9. FailuresRest'
    BY <1>1, <1>8 DEF Inv, FailuresRest
  <1>10. failed' \subseteq Names /\ failed' \intersect DOMAIN values = {}
    BY <1>1, <1>7 DEF Inv, ValuesRest, TypeOK
  <1> QED
    BY <1>1, <1>5, <1>9, <1>10, FailedGrows

-----------------------------------------------------------------------------
(* A call for a name that is not being resolved yet. *)
LEMMA PushKeeps ==
  ASSUME Inv, NEW d \in DOMAIN effective, ~Known(d), ~OnStack(d), Resolving,
         stack # <<>> => d \in Top.todo,
         stack' = Append(stack, Frame(d)),
         UNCHANGED <<definitions, read, effective, values, failed, result>>
  PROVE  Inv'
  <1>1. /\ d \in Names /\ effective[d] \in Definition /\ stack \in Seq(Call)
        /\ Len(stack) \in Nat /\ Settled
    BY DEF Inv, TypeOK, Resolving, Settled
  <1>2. /\ Frame(d) \in Call /\ Frame(d).name = d /\ Frame(d).todo = effective[d].refs
        /\ Frame(d).valid = TRUE /\ Frame(d).sensitive = effective[d].sensitive
    BY <1>1 DEF Frame, Call, Definition
  <1>3. /\ stack' \in Seq(Call) /\ Len(stack') = Len(stack) + 1
        /\ stack'[Len(stack) + 1] = Frame(d)
        /\ \A k \in 1..Len(stack) : stack'[k] = stack[k]
    BY <1>1, <1>2, AppendIs
  <1>4. CallHolds(Frame(d), effective', values', failed')
    BY <1>2 DEF CallHolds, Known
  <1>5. \A i \in 1..Len(stack') : i = Len(stack) + 1 \/ i \in 1..Len(stack)
    BY <1>1, <1>3
  <1>6. \A i \in 1..Len(stack') : CallHolds(stack'[i], effective', values', failed')
    <2>1. ASSUME NEW i \in 1..Len(stack)
          PROVE  CallHolds(stack'[i], effective', values', failed')
      BY <1>3, CallStays DEF Inv, CallsHold
    <2> QED
      BY <1>3, <1>4, <1>5, <2>1
  <1>7. \A i, j \in 1..Len(stack') : stack'[i].name = stack'[j].name => i = j
    <2>1. \A i \in 1..Len(stack) : stack'[i].name = stack[i].name /\ stack[i].name # d
      BY <1>3 DEF OnStack
    <2> QED
      BY <1>2, <1>3, <1>5, <2>1 DEF Inv, CallsHold
  <1>8. \A i \in 1..(Len(stack') - 1) : stack'[i + 1].name \in stack'[i].todo
    <2> SUFFICES ASSUME NEW i \in 1..Len(stack)
                 PROVE  stack'[i + 1].name \in stack'[i].todo
      BY <1>1, <1>3
    <2>1. CASE i = Len(stack)
      <3>1. stack # <<>> /\ Top = stack[i]
        BY <1>1, <2>1 DEF Top
      <3> QED
        BY <1>2, <1>3, <2>1, <3>1
    <2>2. CASE i # Len(stack)
      <3>1. i \in 1..(Len(stack) - 1) /\ i + 1 \in 1..Len(stack)
        BY <1>1, <2>2
      <3> QED
        BY <1>3, <3>1 DEF Inv, CallsHold
    <2> QED
      BY <2>1, <2>2
  <1>9. CallsHold'
    BY <1>6, <1>7, <1>8 DEF CallsHold
  <1>10. Chosen' /\ Fresh'
    BY <1>1, ChosenStays
  <1>11. TypeOK'
    BY <1>3 DEF Inv, TypeOK
  <1>12. ValuesRest' /\ ValuesGrounded' /\ FailuresRest' /\ Reported'
    BY DEF Inv, ValuesRest, ValuesGrounded, FailuresRest, Reported, Resolving
  <1> QED
    BY <1>9, <1>10, <1>11, <1>12 DEF Inv

LEMMA EnterKeeps ==
  ASSUME Inv, NEW n \in Names, Enter(n)
  PROVE  Inv'
  <1>1. /\ stack = <<>> /\ n \in DOMAIN effective /\ ~Known(n) /\ Resolving
        /\ UNCHANGED <<definitions, read, effective, values, failed, result>>
        /\ stack' = <<Frame(n)>>
    BY DEF Enter
  <1>2. ~OnStack(n)
    BY <1>1 DEF OnStack
  <1>3. stack' = Append(stack, Frame(n))
    BY <1>1
  <1> QED
    BY <1>1, <1>2, <1>3, PushKeeps

LEMMA DescendKeeps ==
  ASSUME Inv, NEW d \in Names, Descend(d)
  PROVE  Inv'
  BY PushKeeps DEF Descend, References

(* The call on top returns: its name has a value or has failed. *)
LEMMA LeaveKeeps ==
  ASSUME Inv, Leave
  PROVE  Inv'
  <1> DEFINE t == Top.name
             refs == effective[t].refs
             v == [scope |-> effective[t].scope, sensitive |-> Top.sensitive]
  <1>1. /\ stack # <<>> /\ Top.todo = {} /\ stack' = Below /\ Resolving /\ Settled
        /\ UNCHANGED <<definitions, read, effective, errors, result>>
    BY DEF Leave, Resolving, Settled
  <1>2. /\ Len(stack) \in Nat \ {0} /\ Top \in Call /\ Top = stack[Len(stack)]
        /\ stack' \in Seq(Call) /\ Len(stack') = Len(stack) - 1
        /\ \A k \in 1..(Len(stack) - 1) : stack'[k] = stack[k]
    BY <1>1, BelowIs DEF Inv
  <1>3. /\ \A i \in 1..Len(stack) : CallHolds(stack[i], effective, values, failed)
        /\ \A i, j \in 1..Len(stack) : stack[i].name = stack[j].name => i = j
        /\ \A i \in 1..(Len(stack) - 1) : stack[i + 1].name \in stack[i].todo
    BY DEF Inv, CallsHold
  <1>4. /\ \A i, j \in 1..Len(stack') : stack'[i].name = stack'[j].name => i = j
        /\ \A i \in 1..(Len(stack') - 1) : stack'[i + 1].name \in stack'[i].todo
    <2>1. \A i \in 1..(Len(stack') - 1) : /\ i \in 1..(Len(stack) - 1)
                                          /\ i + 1 \in 1..(Len(stack) - 1)
      BY <1>2
    <2>2. \A i \in 1..(Len(stack) - 1) : i \in 1..Len(stack)
      BY <1>2
    <2> QED
      BY <1>2, <1>3, <2>1, <2>2
  <1>5. CallHolds(Top, effective, values, failed)
    BY <1>2, <1>3
  <1>6. \A i \in 1..(Len(stack) - 1) : stack[i].name # t
    BY <1>2, <1>3
  <1>7. Chosen' /\ Fresh'
    BY <1>1, ChosenStays
  <1>8. Reported'
    BY <1>1 DEF Inv, Reported, Resolving
  <1>9. CASE Top.valid /\ t \notin failed
    <2>1. values' = With(values, t, v) /\ failed' = failed
      BY <1>9 DEF Leave
    <2>2. /\ t \in DOMAIN effective /\ t \notin DOMAIN values /\ refs \subseteq DOMAIN values
          /\ Top.sensitive <=> effective[t].sensitive \/ \E d \in refs : values[d].sensitive
      BY <1>1, <1>5, <1>9 DEF CallHolds
    <2>3. /\ DOMAIN values' = DOMAIN values \union {t}
          /\ values'[t] = v
          /\ \A n \in DOMAIN values : values'[n] = values[n]
      <3> HIDE DEF t, v
      <3> QED
        BY <2>1, <2>2 DEF With
    <2>4. /\ t \in Names /\ effective[t] \in Definition /\ v \in [scope : Scopes, sensitive : BOOLEAN]
      BY <1>2, <2>2 DEF Inv, TypeOK, Definition, Call
    <2> HIDE DEF t, v
    <2>5. TypeOK'
      BY <1>1, <1>2, <2>1, <2>3, <2>4 DEF Inv, TypeOK
    <2>6. ASSUME NEW n \in DOMAIN values
          PROVE  /\ n \in DOMAIN effective /\ n \notin failed
                 /\ effective[n].refs \subseteq DOMAIN values
                 /\ values'[n].scope = effective[n].scope
                 /\ values'[n].sensitive <=>
                      effective[n].sensitive \/ \E d \in effective[n].refs : values'[d].sensitive
      <3>1. /\ n \in DOMAIN effective /\ n \notin failed
            /\ effective[n].refs \subseteq DOMAIN values
            /\ values[n].scope = effective[n].scope
            /\ values[n].sensitive <=>
                 effective[n].sensitive \/ \E d \in effective[n].refs : values[d].sensitive
        BY DEF Inv, ValuesRest
      <3> QED
        BY <2>3, <3>1
    <2>7. /\ values'[t].scope = effective[t].scope
          /\ values'[t].sensitive <=>
               effective[t].sensitive \/ \E d \in refs : values'[d].sensitive
      BY <2>2, <2>3 DEF v
    <2>8. ValuesRest'
      BY <1>1, <1>9, <2>1, <2>2, <2>3, <2>6, <2>7 DEF ValuesRest
    <2>9. ValuesGrounded'
      <3> SUFFICES ASSUME NEW T \in SUBSET DOMAIN values', T # {}
                   PROVE  \E n \in T : effective[n].refs \intersect T = {}
        BY <1>1 DEF ValuesGrounded
      <3>1. CASE T \ {t} = {}
        BY <2>2, <3>1
      <3>2. CASE T \ {t} # {}
        <4>1. T \ {t} \in SUBSET DOMAIN values
          BY <2>3
        <4>2. PICK n \in T \ {t} : effective[n].refs \intersect (T \ {t}) = {}
          BY <3>2, <4>1 DEF Inv, ValuesGrounded
        <4>3. t \notin effective[n].refs
          BY <2>2, <2>6, <4>1, <4>2
        <4> QED
          BY <4>2, <4>3
      <3> QED
        BY <3>1, <3>2
    <2>10. FailuresRest'
      BY <1>1, <2>1 DEF Inv, FailuresRest
    <2>11. ASSUME NEW i \in 1..(Len(stack) - 1)
           PROVE  CallHolds(stack'[i], effective', values', failed')
      <3>1. CallHolds(stack[i], effective, values, failed) /\ stack[i].name # t
        BY <1>2, <1>3, <1>6 DEF t
      <3>2. stack'[i] = stack[i]
        BY <1>2
      <3> DEFINE f == stack[i]
      <3> HIDE DEF f
      <3>3. CallHolds(f, effective, values, failed) /\ f.name # t
        BY <3>1 DEF f
      <3>4. CallHolds(f, effective', values', failed')
        BY <1>1, <2>1, <2>3, <3>3 DEF CallHolds
      <3> QED
        BY <3>2, <3>4 DEF f
    <2>12. CallsHold'
      BY <1>2, <1>4, <2>11 DEF CallsHold
    <2> QED
      BY <1>7, <1>8, <2>5, <2>8, <2>9, <2>10, <2>12 DEF Inv
  <1>10. CASE ~(Top.valid /\ t \notin failed)
    <2>1. failed' = failed \union {t} /\ values' = values
      BY <1>10 DEF Leave
    <2>2. /\ t \in DOMAIN effective /\ t \notin DOMAIN values
          /\ t \in failed \/ \E d \in refs : d \in failed
      BY <1>5, <1>10 DEF CallHolds
    <2>3. TypeOK'
      BY <1>1, <1>2, <2>1, <2>2 DEF Inv, TypeOK
    <2>4. FailuresRest'
      BY <1>1, <2>1, <2>2 DEF Inv, FailuresRest
    <2>5. ValuesRest' /\ ValuesGrounded'
      BY <1>1, <2>1, <2>2 DEF Inv, ValuesRest, ValuesGrounded
    <2>6. ASSUME NEW i \in 1..(Len(stack) - 1)
          PROVE  CallHolds(stack'[i], effective', values', failed')
      <3>1. CallHolds(stack[i], effective, values, failed) /\ stack'[i] = stack[i]
        BY <1>2, <1>3
      <3> QED
        BY <1>1, <2>1, <3>1, CallStays
    <2>7. CallsHold'
      BY <1>2, <1>4, <2>6 DEF CallsHold
    <2> QED
      BY <1>7, <1>8, <2>3, <2>4, <2>5, <2>7 DEF Inv
  <1> QED
    BY <1>9, <1>10

-----------------------------------------------------------------------------
LEMMA AnswerKeeps ==
  ASSUME Inv, NEW uses \in Uses, Refuse(uses) \/ Resolve(uses)
  PROVE  Inv'
  <1>1. /\ UNCHANGED <<definitions, read, effective, values, failed, stack, errors>>
        /\ stack = <<>> /\ Settled
    BY DEF Refuse, Resolve, Analysed, Resolving, Settled
  <1>2. \/ result'.status = "refused"
        \/ /\ result'.status = "resolved"
           /\ result'.uses \subseteq DOMAIN values
           /\ result'.masked = {n \in result'.uses : values[n].sensitive}
    <2>1. CASE Refuse(uses)
      BY <2>1 DEF Refuse
    <2>2. CASE Resolve(uses)
      BY <2>2 DEF Resolve
    <2> QED
      BY <2>1, <2>2
  <1>3. Chosen'
    BY <1>1, ChosenStays
  <1>4. Fresh'
    BY <1>1 DEF Settled, Fresh
  <1>5. TypeOK'
    BY <1>1, <1>2 DEF Inv, TypeOK
  <1>6. CallsHold'
    <2>1. stack' = stack /\ effective' = effective /\ values' = values /\ failed' = failed
      BY <1>1
    <2> QED
      BY <2>1 DEF Inv, CallsHold
  <1>7. ValuesRest' /\ ValuesGrounded' /\ FailuresRest'
    BY <1>1 DEF Inv, ValuesRest, ValuesGrounded, FailuresRest
  <1>8. Reported'
    BY <1>1, <1>2 DEF Reported
  <1> QED
    BY <1>3, <1>4, <1>5, <1>6, <1>7, <1>8 DEF Inv

LEMMA InvInit == Init => Inv
  <1> SUFFICES ASSUME Init PROVE Inv
    OBVIOUS
  <1>1. /\ definitions \in Seq(Definition) /\ read = 0 /\ Len(definitions) \in Nat
    BY VariableResolverAssumption DEF Init
  <1>2. /\ DOMAIN effective = {} /\ DOMAIN values = {} /\ failed = {}
        /\ stack = <<>> /\ result.status = "none"
    BY DEF Init
  <1>3. stack \in Seq(Call) /\ Len(stack) = 0
    BY <1>2
  <1>4. 1..Len(stack) = {} /\ 1..(Len(stack) - 1) = {} /\ 1..read = {}
    BY <1>1, <1>3
  <1>5. TypeOK
    BY <1>1, <1>2, <1>3 DEF TypeOK
  <1>6. Chosen /\ CallsHold
    BY <1>2, <1>4 DEF Chosen, CallsHold
  <1>7. Fresh /\ ValuesRest /\ ValuesGrounded /\ FailuresRest /\ Reported
    BY <1>2 DEF Fresh, ValuesRest, ValuesGrounded, FailuresRest, Reported
  <1> QED
    BY <1>5, <1>6, <1>7 DEF Inv

LEMMA InvNext == Inv /\ [Next]_vars => Inv'
  <1> SUFFICES ASSUME Inv, [Next]_vars PROVE Inv'
    OBVIOUS
  <1>1. CASE Define
    BY <1>1, DefineKeeps
  <1>2. ASSUME NEW n \in Names, Enter(n)
        PROVE  Inv'
    BY <1>2, EnterKeeps
  <1>3. ASSUME NEW d \in Names, Reference(d)
        PROVE  Inv'
    BY <1>3, SubstituteKeeps, MeetFailedKeeps, MeetCycleKeeps, MeetUndefinedKeeps, DescendKeeps
       DEF Reference
  <1>4. CASE Leave
    BY <1>4, LeaveKeeps
  <1>5. ASSUME NEW uses \in Uses, Refuse(uses) \/ Resolve(uses)
        PROVE  Inv'
    BY <1>5, AnswerKeeps
  <1>6. CASE UNCHANGED vars
    <2>1. /\ UNCHANGED <<definitions, read, effective, values, failed, stack, result>>
      BY <1>6 DEF vars
    <2>2. \A i, k : Beats(i, k)' <=> Beats(i, k)
      BY <2>1 DEF Beats
    <2>3. TypeOK' /\ Chosen' /\ Fresh'
      BY <2>1, <2>2 DEF Inv, TypeOK, Chosen, Fresh
    <2>4. ValuesRest' /\ ValuesGrounded' /\ FailuresRest' /\ Reported'
      BY <2>1 DEF Inv, ValuesRest, ValuesGrounded, FailuresRest, Reported
    <2>5. CallsHold'
      BY <2>1 DEF Inv, CallsHold
    <2> QED
      BY <2>3, <2>4, <2>5 DEF Inv
  <1> QED
    BY <1>1, <1>2, <1>3, <1>4, <1>5, <1>6 DEF Next

THEOREM ResolverInvariant == Spec => []Inv
  BY InvInit, InvNext, PTL DEF Spec

(* Every variable keeps its type, the locals of the calls included.         *)
THEOREM ResolverTypeCorrect == Spec => []TypeOK
  BY ResolverInvariant, PTL DEF Inv

-----------------------------------------------------------------------------
LEMMA ResolvedExactly ==
  ASSUME Inv
  PROVE  ResolvesExactly
  <1> SUFFICES ASSUME Analysed
               PROVE  /\ \A n \in Names : n \in DOMAIN values
                                            <=> n \in Defined /\ Winner(n).refs \subseteq DOMAIN values
                      /\ Grounded(DOMAIN values)
                      /\ \A n \in DOMAIN values : values[n].scope = Winner(n).scope
    BY DEF ResolvesExactly
  <1>1. Defined = DOMAIN effective /\ \A n \in Defined : Winner(n) = effective[n]
    BY ChosenAreWinners DEF Inv, Analysed, Resolving
  <1>2. \A n \in DOMAIN values : /\ n \in DOMAIN effective /\ n \notin failed
                                 /\ effective[n].refs \subseteq DOMAIN values
                                 /\ values[n].scope = effective[n].scope
    BY DEF Inv, ValuesRest
  <1>3. ASSUME NEW n \in DOMAIN effective, effective[n].refs \subseteq DOMAIN values
        PROVE  n \in DOMAIN values
    <2>1. n \in DOMAIN values \/ n \in failed
      BY DEF Analysed, Known
    <2>2. n \in failed => \E d \in effective[n].refs : d \in failed
      BY DEF Inv, FailuresRest
    <2> QED
      BY <1>2, <1>3, <2>1, <2>2
  <1>4. Grounded(DOMAIN values)
    <2> SUFFICES ASSUME NEW T \in SUBSET DOMAIN values, T # {}
                 PROVE  \E n \in T : Winner(n).refs \intersect T = {}
      BY DEF Grounded
    <2>1. PICK n \in T : effective[n].refs \intersect T = {}
      BY DEF Inv, ValuesGrounded
    <2> QED
      BY <1>1, <1>2, <2>1
  <1> QED
    BY <1>1, <1>2, <1>3, <1>4

(* For any set of definitions and any order in which the names are tried,   *)
(* the names with a value are those that come down to texts without         *)
(* references.                                                              *)
THEOREM ResolutionIsExact == Spec => []ResolvesExactly
  BY ResolverInvariant, ResolvedExactly, PTL

(* A name that has a value is sensitive when something it reaches is.       *)
LEMMA SensitivityIsReached ==
  ASSUME Inv, read = Len(definitions), NEW n \in DOMAIN values
  PROVE  values[n].sensitive <=> \E m \in Reach(n) : Winner(m).sensitive
  <1>1. Defined = DOMAIN effective /\ \A k \in Defined : Winner(k) = effective[k]
    BY ChosenAreWinners DEF Inv
  <1>2. \A k \in DOMAIN values :
          /\ k \in DOMAIN effective /\ k \in Names
          /\ effective[k].refs \subseteq DOMAIN values
          /\ values[k].sensitive <=>
               effective[k].sensitive \/ \E d \in effective[k].refs : values[d].sensitive
    BY DEF Inv, ValuesRest, TypeOK
  <1>3. ASSUME NEW S \in SUBSET DOMAIN values, n \in S,
               \A k \in S : effective[k].refs \subseteq S
        PROVE  Reach(n) \subseteq S
    <2>1. S \in SUBSET Names
      BY <1>2, <1>3
    <2>2. Closed(S)
      BY <1>1, <1>3 DEF Closed
    <2> QED
      BY <1>3, <2>1, <2>2 DEF Reach
  <1>4. Reach(n) \subseteq DOMAIN values
    BY <1>2, <1>3
  <1>5. n \in Reach(n)
    BY <1>2 DEF Reach
  <1>6. \A k \in Reach(n) : effective[k].refs \subseteq Reach(n)
    <2> SUFFICES ASSUME NEW k \in Reach(n), NEW d \in effective[k].refs
                 PROVE  d \in Reach(n)
      OBVIOUS
    <2>1. k \in Defined /\ Winner(k) = effective[k]
      BY <1>1, <1>2, <1>4
    <2>2. d \in Names
      BY <1>2, <1>4
    <2>3. ASSUME NEW S \in SUBSET Names, n \in S, Closed(S)
          PROVE  d \in S
      <3>1. k \in S
        BY <2>3 DEF Reach
      <3> QED
        BY <2>1, <2>3, <3>1 DEF Closed
    <2> QED
      BY <2>2, <2>3 DEF Reach
  <1>7. ASSUME NEW m \in Reach(n), Winner(m).sensitive, ~values[n].sensitive
        PROVE  FALSE
    <2> DEFINE S == {k \in DOMAIN values : ~values[k].sensitive}
    <2>1. \A k \in S : effective[k].refs \subseteq S
      BY <1>2
    <2>2. m \in S
      BY <1>3, <1>7, <2>1
    <2> QED
      BY <1>1, <1>2, <1>7, <2>2
  <1>8. ASSUME values[n].sensitive, \A m \in Reach(n) : ~Winner(m).sensitive
        PROVE  FALSE
    <2> DEFINE T == {k \in Reach(n) : values[k].sensitive}
    <2>1. n \in T /\ T \in SUBSET DOMAIN values
      BY <1>4, <1>5, <1>8
    <2>2. PICK k \in T : effective[k].refs \intersect T = {}
      <3> HIDE DEF T
      <3> QED
        BY <2>1 DEF Inv, ValuesGrounded
    <2>3. \E d \in effective[k].refs : values[d].sensitive
      BY <1>1, <1>2, <1>4, <1>8
    <2> QED
      BY <1>6, <2>2, <2>3
  <1> QED
    BY <1>7, <1>8

(* For any definitions, what is shown of a request hides exactly the names  *)
(* into which something sensitive went.                                     *)
THEOREM MasksAreExact == Spec => []MaskedExactly
<1>1. ASSUME Inv
      PROVE  MaskedExactly
  <2> SUFFICES ASSUME result.status = "resolved"
               PROVE  result.masked = {n \in result.uses : \E m \in Reach(n) : Winner(m).sensitive}
    BY DEF MaskedExactly
  <2>1. read = Len(definitions)
    BY <1>1 DEF Inv, Fresh
  <2>2. /\ result.uses \subseteq DOMAIN values
        /\ result.masked = {n \in result.uses : values[n].sensitive}
    BY <1>1 DEF Inv, Reported
  <2>3. \A n \in result.uses : values[n].sensitive <=> \E m \in Reach(n) : Winner(m).sensitive
    BY <1>1, <2>1, <2>2, SensitivityIsReached
  <2> QED
    BY <2>2, <2>3
<1> QED
  BY <1>1, ResolverInvariant, PTL

-----------------------------------------------------------------------------
(* The errors that stand for a name without a value. *)
Unresolvable(e) == e.code \in {"CYCLE", "MISSING_VARIABLE", "UNSUPPORTED_BUILT_IN"}

ChainHolds(e) ==
  /\ \A i \in 1..(Len(e.chain) - 1) :
       e.chain[i] \in DOMAIN effective /\ e.chain[i + 1] \in effective[e.chain[i]].refs
  /\ IF e.code = "CYCLE" THEN Len(e.chain) > 1 /\ e.chain[1] = e.name
                         ELSE e.name \notin DOMAIN effective
  /\ e.chain[Len(e.chain)] = e.name

Explained(n) == \E e \in errors : Unresolvable(e) /\ e.name \in Reach(n)

(* The chains reported are paths of references, each name that failed leads *)
(* to one reported, and a call leads to every call above it.                *)
Why ==
  /\ \A e \in errors : Unresolvable(e) => read = Len(definitions) /\ ChainHolds(e)
  /\ \A n \in failed : Explained(n)
  /\ \A i, j \in 1..Len(stack) : i <= j => stack[j].name \in Reach(stack[i].name)

(* What a name refers to is reached from it, and reaching is transitive. *)
LEMMA Reaching ==
  ASSUME Inv, read = Len(definitions)
  PROVE  /\ \A n \in Names : n \in Reach(n)
         /\ \A n \in DOMAIN effective : effective[n].refs \subseteq Reach(n)
         /\ \A k, m, n : m \in Reach(n) /\ k \in Reach(m) => k \in Reach(n)
  <1>1. Defined = DOMAIN effective /\ \A k \in Defined : Winner(k) = effective[k]
    BY ChosenAreWinners DEF Inv
  <1>2. \A n \in Names : n \in Reach(n)
    BY DEF Reach
  <1>3. ASSUME NEW n \in DOMAIN effective, NEW d \in effective[n].refs
        PROVE  d \in Reach(n)
    <2>1. d \in Names
      BY DEF Inv, TypeOK, Definition
    <2>2. ASSUME NEW S \in SUBSET Names, n \in S, Closed(S)
          PROVE  d \in S
      BY <1>1, <2>2 DEF Closed
    <2> QED
      BY <2>1, <2>2 DEF Reach
  <1>4. ASSUME NEW k, NEW m, NEW n, m \in Reach(n), k \in Reach(m)
        PROVE  k \in Reach(n)
    BY <1>4 DEF Reach
  <1> QED
    BY <1>2, <1>3, <1>4

(* The path to a reference of the text on top. *)
LEMMA PathIs ==
  ASSUME Inv, NEW d \in Names, References(d)
  PROVE  /\ Len(stack) \in Nat \ {0} /\ stack \in Seq(Call) /\ Path(d) \in Seq(Names)
         /\ Len(Path(d)) = Len(stack) + 1 /\ Path(d)[Len(stack) + 1] = d
         /\ \A i \in 1..Len(stack) :
              /\ Path(d)[i] = stack[i].name
              /\ Path(d)[i] \in DOMAIN effective /\ Path(d)[i + 1] \in effective[Path(d)[i]].refs
  <1> DEFINE names == [i \in 1..Len(stack) |-> stack[i].name]
  <1>1. /\ Len(stack) \in Nat \ {0} /\ stack \in Seq(Call) /\ Top = stack[Len(stack)]
        /\ d \in Top.todo
    BY BelowIs DEF Inv, TypeOK, References
  <1>2. \A i \in 1..Len(stack) : stack[i].name \in Names
    <2>1. \A i \in 1..Len(stack) : stack[i] \in Call
      BY <1>1
    <2> QED
      BY <2>1 DEF Call
  <1>3. names \in Seq(Names) /\ Len(names) = Len(stack)
    BY <1>1, <1>2
  <1>4. \A i \in 1..Len(stack) : names[i] = stack[i].name
    OBVIOUS
  <1> HIDE DEF names
  <1>5. Path(d) = Append(names, d)
    BY DEF Path, names
  <1>6. /\ Path(d) \in Seq(Names) /\ Len(Path(d)) = Len(stack) + 1 /\ Path(d)[Len(stack) + 1] = d
        /\ \A i \in 1..Len(stack) : Path(d)[i] = stack[i].name
    BY <1>3, <1>4, <1>5, AppendIs
  <1>7. ASSUME NEW i \in 1..Len(stack)
        PROVE  stack[i].name \in DOMAIN effective /\ Path(d)[i + 1] \in effective[stack[i].name].refs
    <2>1. stack[i].name \in DOMAIN effective /\ stack[i].todo \subseteq effective[stack[i].name].refs
      BY DEF Inv, CallsHold, CallHolds
    <2>2. CASE i = Len(stack)
      BY <1>1, <1>6, <2>1, <2>2
    <2>3. CASE i # Len(stack)
      <3>1. i \in 1..(Len(stack) - 1) /\ i + 1 \in 1..Len(stack)
        BY <1>1, <2>3
      <3> QED
        BY <1>6, <2>1, <3>1 DEF Inv, CallsHold
    <2> QED
      BY <2>2, <2>3
  <1> QED
    BY <1>1, <1>6, <1>7

(* Replacing the call on top by one for the same name changes no name on    *)
(* the stack.                                                               *)
LEMMA NamesStay ==
  ASSUME Inv, stack # <<>>, NEW f \in Call, f.name = Top.name, stack' = Append(Below, f)
  PROVE  Len(stack') = Len(stack) /\ \A i \in 1..Len(stack) : stack'[i].name = stack[i].name
  <1>1. /\ Len(stack) \in Nat \ {0} /\ Len(stack') = Len(stack)
        /\ stack'[Len(stack)] = f /\ Top = stack[Len(stack)]
        /\ \A k \in 1..(Len(stack) - 1) : stack'[k] = stack[k]
    BY BelowIs, AppendIs DEF Inv
  <1> QED
    BY <1>1

LEMMA BrokenNames ==
  ASSUME Inv, NEW d \in Names, References(d), Broken(d)
  PROVE  Len(stack') = Len(stack) /\ \A i \in 1..Len(stack) : stack'[i].name = stack[i].name
  <1> DEFINE f == [Top EXCEPT !.todo = @ \ {d}, !.valid = FALSE]
  <1>1. stack # <<>> /\ Top \in Call
    BY BelowIs DEF Inv, References
  <1>2. f \in Call /\ f.name = Top.name
    BY <1>1 DEF Call
  <1>3. stack' = Append(Below, f)
    BY DEF Broken
  <1> HIDE DEF f
  <1> QED
    BY <1>1, <1>2, <1>3, NamesStay

(* A step in which references are dealt with: errors and failures are only  *)
(* added, and those added have their reason.                                *)
LEMMA WhyGrows ==
  ASSUME Inv, Why, UNCHANGED <<definitions, read, effective>>,
         errors \subseteq errors',
         \A e \in errors' \ errors : Unresolvable(e) => read = Len(definitions) /\ ChainHolds(e),
         \A n \in failed' \ failed : Explained(n)',
         \A i, j \in 1..Len(stack') : i <= j => stack'[j].name \in Reach(stack'[i].name)
  PROVE  Why'
  <1>1. \A e : ChainHolds(e)' <=> ChainHolds(e)
    BY DEF ChainHolds
  <1>2. \A n : Reach(n)' = Reach(n)
    <2>1. Proper' = Proper
      BY DEF Proper
    <2>2. Defined' = Defined
      BY <2>1 DEF Defined
    <2>3. \A n : Winner(n)' = Winner(n)
      BY <2>1 DEF Winner, Beats
    <2>4. \A S : Closed(S)' <=> Closed(S)
      BY <2>2, <2>3 DEF Closed
    <2> QED
      BY <2>4 DEF Reach
  <1>3. \A n \in failed : Explained(n)'
    BY <1>2 DEF Why, Explained
  <1>4. \A e \in errors' : Unresolvable(e) => read' = Len(definitions') /\ ChainHolds(e)'
    BY <1>1 DEF Why
  <1>5. \A n \in failed' : Explained(n)'
    BY <1>3
  <1>6. (\A i, j \in 1..Len(stack) : i <= j => stack[j].name \in Reach(stack[i].name))'
    <2>1. \A S : Closed(S)' <=> Closed(S)
      BY DEF Closed, Defined, Winner, Proper, Beats
    <2> SUFFICES ASSUME NEW i \in 1..Len(stack'), NEW j \in 1..Len(stack'), i <= j
                 PROVE  (stack[j].name \in Reach(stack[i].name))'
      OBVIOUS
    <2>2. stack'[j].name \in Reach(stack'[i].name)
      OBVIOUS
    <2> QED
      BY <2>1, <2>2 DEF Reach
  <1> QED
    BY <1>4, <1>5, <1>6 DEF Why, Unresolvable

(* The stack keeps its names. *)
LEMMA SameCalls ==
  ASSUME Why, Len(stack') = Len(stack), \A i \in 1..Len(stack) : stack'[i].name = stack[i].name
  PROVE  \A i, j \in 1..Len(stack') : i <= j => stack'[j].name \in Reach(stack'[i].name)
  BY DEF Why

LEMMA DefineTells ==
  ASSUME Inv, Why, Define
  PROVE  Why'
  <1>1. /\ read # Len(definitions)
        /\ UNCHANGED <<definitions, values, failed, stack, result>>
    BY DEF Define, Inv, TypeOK
  <1>2. stack = <<>> /\ failed = {}
    BY <1>1 DEF Inv, Fresh
  <1>3. \A e \in errors : ~Unresolvable(e)
    BY <1>1 DEF Why
  <1>4. \A e \in errors' \ errors : e.code \in {"MALFORMED_DEFINITION", "DUPLICATE_DEFINITION"}
    BY DEF Define, error
  <1>5. \A e \in errors' : ~Unresolvable(e)
    BY <1>3, <1>4 DEF Unresolvable
  <1>6. 1..Len(stack') = {} /\ failed' = {}
    BY <1>1, <1>2
  <1> QED
    BY <1>5, <1>6 DEF Why, Unresolvable

LEMMA MeetCycleTells ==
  ASSUME Inv, Why, NEW d \in Names, MeetCycle(d)
  PROVE  Why'
  <1> DEFINE s == Since(d)
             L == Len(stack)
             chain == SubSeq(Path(d), s, L + 1)
             e == error("CYCLE", d, chain)
  <1>1. /\ References(d) /\ Broken(d) /\ OnStack(d)
        /\ errors' = errors \union {e}
        /\ failed' = failed \union {stack[i].name : i \in s..L}
        /\ UNCHANGED <<definitions, read, effective>>
        /\ read = Len(definitions)
    BY DEF MeetCycle, References, Resolving
  <1>2. s \in 1..L /\ stack[s].name = d
    BY <1>1 DEF OnStack, Since
  <1>3. /\ L \in Nat \ {0} /\ Path(d) \in Seq(Names) /\ Len(Path(d)) = L + 1 /\ Path(d)[L + 1] = d
        /\ \A i \in 1..L : /\ Path(d)[i] = stack[i].name
                           /\ Path(d)[i] \in DOMAIN effective
                           /\ Path(d)[i + 1] \in effective[Path(d)[i]].refs
    BY <1>1, PathIs
  <1> HIDE DEF s, L
  <1>4. Len(chain) = L + 2 - s /\ \A i \in 1..(L + 2 - s) : chain[i] = Path(d)[s + i - 1]
    <2>1. chain = [i \in 1..(L + 2 - s) |-> Path(d)[s + i - 1]]
      BY <1>2, <1>3
    <2>2. L + 2 - s \in Nat
      BY <1>2, <1>3
    <2> HIDE DEF chain
    <2> QED
      BY <2>1, <2>2
  <1>5. e.code = "CYCLE" /\ e.name = d /\ e.chain = chain
    BY DEF error
  <1> HIDE DEF chain, e
  <1>6. ChainHolds(e)
    <2>1. ASSUME NEW i \in 1..(Len(chain) - 1)
          PROVE  chain[i] \in DOMAIN effective /\ chain[i + 1] \in effective[chain[i]].refs
      <3>1. s + i - 1 \in 1..L /\ i \in 1..(L + 2 - s) /\ i + 1 \in 1..(L + 2 - s)
            /\ s + (i + 1) - 1 = (s + i - 1) + 1
        BY <1>2, <1>3, <1>4
      <3> QED
        BY <1>3, <1>4, <3>1
    <2>2. Len(chain) > 1 /\ chain[1] = d /\ chain[Len(chain)] = d
      <3>1. 1 \in 1..(L + 2 - s) /\ L + 2 - s \in 1..(L + 2 - s) /\ s + 1 - 1 = s
            /\ s + (L + 2 - s) - 1 = L + 1 /\ L + 2 - s > 1
        BY <1>2, <1>3
      <3> QED
        BY <1>2, <1>3, <1>4, <3>1
    <2> QED
      BY <1>5, <2>1, <2>2 DEF ChainHolds
  <1>7. ASSUME NEW n \in failed' \ failed
        PROVE  Explained(n)'
    <2>1. PICK i \in s..L : n = stack[i].name
      BY <1>1
    <2>2. i \in 1..L /\ L \in 1..L /\ i <= L
      BY <1>2, <1>3, <2>1
    <2>3. stack[L].name \in Reach(n)
      BY <2>1, <2>2 DEF Why, L
    <2>4. d \in effective[stack[L].name].refs /\ stack[L].name \in DOMAIN effective
      BY <1>3, <2>2
    <2>5. d \in Reach(n)
      BY <1>1, <2>3, <2>4, Reaching
    <2>6. Reach(n)' = Reach(n)
      BY <1>1 DEF Reach, Closed, Defined, Winner, Proper, Beats
    <2> QED
      BY <1>1, <1>5, <2>5, <2>6 DEF Explained, Unresolvable
  <1> QED
    BY <1>1, <1>6, <1>7, BrokenNames, SameCalls, WhyGrows

LEMMA MeetUndefinedTells ==
  ASSUME Inv, Why, NEW d \in Names, MeetUndefined(d)
  PROVE  Why'
  <1> DEFINE e == unavailable(d, Path(d))
  <1>1. /\ References(d) /\ Broken(d) /\ d \notin DOMAIN effective
        /\ errors' = errors \union {e} /\ failed' = failed \union {d}
        /\ UNCHANGED <<definitions, read, effective>>
        /\ read = Len(definitions)
    BY DEF MeetUndefined, References, Resolving
  <1>2. /\ Len(stack) \in Nat \ {0} /\ Len(Path(d)) = Len(stack) + 1 /\ Path(d)[Len(stack) + 1] = d
        /\ \A i \in 1..Len(stack) :
             Path(d)[i] \in DOMAIN effective /\ Path(d)[i + 1] \in effective[Path(d)[i]].refs
    BY <1>1, PathIs
  <1>3. /\ e.code \in {"MISSING_VARIABLE", "UNSUPPORTED_BUILT_IN"}
        /\ e.name = d /\ e.chain = Path(d)
    BY DEF unavailable, error
  <1> HIDE DEF e
  <1>4. ChainHolds(e)
    <2>1. Len(Path(d)) - 1 = Len(stack)
      BY <1>2
    <2> QED
      BY <1>1, <1>2, <1>3, <2>1 DEF ChainHolds
  <1>5. Explained(d)'
    <2>1. d \in Reach(d)
      BY <1>1, Reaching
    <2>2. Reach(d)' = Reach(d)
      BY <1>1 DEF Reach, Closed, Defined, Winner, Proper, Beats
    <2> QED
      BY <1>1, <1>3, <2>1, <2>2 DEF Explained, Unresolvable
  <1> QED
    BY <1>1, <1>4, <1>5, BrokenNames, SameCalls, WhyGrows

(* A new call is for something the call on top refers to. *)
LEMMA PushTells ==
  ASSUME Inv, Why, NEW d \in Names, (stack = <<>> /\ Enter(d)) \/ Descend(d)
  PROVE  Why'
  <1>1. /\ d \in DOMAIN effective /\ stack' = Append(stack, Frame(d))
        /\ UNCHANGED <<definitions, read, effective, failed, errors>>
        /\ read = Len(definitions)
        /\ stack # <<>> => d \in Top.todo
    <2>1. CASE stack = <<>> /\ Enter(d)
      <3>1. stack' = Append(stack, Frame(d))
        BY <2>1 DEF Enter
      <3> QED
        BY <2>1, <3>1 DEF Enter, Resolving
    <2>2. CASE Descend(d)
      BY <2>2 DEF Descend, References, Resolving
    <2> QED
      BY <2>1, <2>2
  <1>2. stack \in Seq(Call) /\ Len(stack) \in Nat /\ effective[d] \in Definition
    BY <1>1 DEF Inv, TypeOK
  <1>3. Frame(d) \in Call /\ Frame(d).name = d
    BY <1>2 DEF Frame, Call, Definition
  <1>4. /\ Len(stack') = Len(stack) + 1 /\ stack'[Len(stack) + 1].name = d
        /\ \A k \in 1..Len(stack) : stack'[k] = stack[k]
    BY <1>1, <1>2, <1>3, AppendIs
  <1>5. ASSUME NEW i \in 1..Len(stack)
        PROVE  d \in Reach(stack[i].name)
    <2>1. stack # <<>> /\ Len(stack) \in 1..Len(stack) /\ i <= Len(stack)
      BY <1>2
    <2>2. Top = stack[Len(stack)] /\ d \in Top.todo
      BY <1>1, <2>1, BelowIs DEF Inv
    <2>3. Top.name \in DOMAIN effective /\ d \in effective[Top.name].refs
      BY <2>1, <2>2 DEF Inv, CallsHold, CallHolds
    <2>4. Top.name \in Reach(stack[i].name)
      BY <2>1, <2>2 DEF Why
    <2> QED
      BY <1>1, <2>3, <2>4, Reaching
  <1>6. \A i, j \in 1..Len(stack') : i <= j => stack'[j].name \in Reach(stack'[i].name)
    <2> SUFFICES ASSUME NEW i \in 1..Len(stack'), NEW j \in 1..Len(stack'), i <= j
                 PROVE  stack'[j].name \in Reach(stack'[i].name)
      OBVIOUS
    <2>1. CASE j = Len(stack) + 1 /\ i = Len(stack) + 1
      BY <1>1, <1>4, <2>1, Reaching
    <2>2. CASE j = Len(stack) + 1 /\ i \in 1..Len(stack)
      BY <1>4, <1>5, <2>2
    <2>3. CASE j \in 1..Len(stack)
      <3>1. i \in 1..Len(stack)
        BY <1>2, <2>3
      <3> QED
        BY <1>4, <2>3, <3>1 DEF Why
    <2> QED
      BY <1>2, <1>4, <2>1, <2>2, <2>3
  <1> QED
    BY <1>1, <1>6, WhyGrows

(* A call that returns without a value has a reference that failed, and     *)
(* fails for the same reason.                                               *)
LEMMA LeaveTells ==
  ASSUME Inv, Why, Leave
  PROVE  Why'
  <1>1. /\ stack # <<>> /\ stack' = Below /\ read = Len(definitions)
        /\ UNCHANGED <<definitions, read, effective, errors>>
    BY DEF Leave, Resolving
  <1>2. /\ Len(stack) \in Nat \ {0} /\ Top = stack[Len(stack)] /\ Len(stack') = Len(stack) - 1
        /\ \A k \in 1..(Len(stack) - 1) : stack'[k] = stack[k]
    BY <1>1, BelowIs DEF Inv
  <1>3. CallHolds(Top, effective, values, failed)
    <2>1. Len(stack) \in 1..Len(stack)
      BY <1>2
    <2> QED
      BY <1>2, <2>1 DEF Inv, CallsHold
  <1>4. \A n : Reach(n)' = Reach(n)
    BY <1>1 DEF Reach, Closed, Defined, Winner, Proper, Beats
  <1>5. ASSUME NEW n \in failed' \ failed
        PROVE  Explained(n)'
    <2>1. n = Top.name /\ ~Top.valid
      BY <1>5 DEF Leave
    <2>2. PICK d \in effective[n].refs : d \in failed
      BY <1>3, <2>1 DEF CallHolds
    <2>3. PICK e \in errors : Unresolvable(e) /\ e.name \in Reach(d)
      BY <2>2 DEF Why, Explained
    <2>4. d \in Reach(n)
      BY <1>1, <1>3, <2>1, <2>2, Reaching DEF CallHolds
    <2>5. e.name \in Reach(n)
      BY <1>1, <2>3, <2>4, Reaching
    <2> QED
      BY <1>1, <1>4, <2>3, <2>5 DEF Explained, Unresolvable
  <1>6. \A i, j \in 1..Len(stack') : i <= j => stack'[j].name \in Reach(stack'[i].name)
    <2>1. \A i \in 1..Len(stack') : i \in 1..Len(stack) /\ stack'[i] = stack[i]
      BY <1>2
    <2> QED
      BY <2>1 DEF Why
  <1> QED
    BY <1>1, <1>5, <1>6, WhyGrows

LEMMA WhyNext == Inv /\ Why /\ [Next]_vars => Why'
  <1> SUFFICES ASSUME Inv, Why, [Next]_vars PROVE Why'
    OBVIOUS
  <1>1. CASE Define
    BY <1>1, DefineTells
  <1>2. ASSUME NEW n \in Names, Enter(n)
        PROVE  Why'
    BY <1>2, PushTells DEF Enter
  <1>3. ASSUME NEW d \in Names, Reference(d)
        PROVE  Why'
    <2>1. CASE Substitute(d)
      <3> DEFINE f == [Top EXCEPT !.todo = @ \ {d}, !.sensitive = @ \/ values[d].sensitive]
      <3>1. /\ stack # <<>> /\ Top \in Call /\ stack' = Append(Below, f)
            /\ values[d].sensitive \in BOOLEAN
            /\ UNCHANGED <<definitions, read, effective, failed, errors>>
        BY <2>1, BelowIs DEF Inv, TypeOK, Substitute, References
      <3>2. f \in Call /\ f.name = Top.name
        BY <3>1 DEF Call
      <3> HIDE DEF f
      <3> QED
        BY <3>1, <3>2, NamesStay, SameCalls, WhyGrows
    <2>2. CASE MeetFailed(d)
      <3>1. /\ References(d) /\ Broken(d)
            /\ UNCHANGED <<definitions, read, effective, failed, errors>>
        BY <2>2 DEF MeetFailed
      <3> QED
        BY <3>1, BrokenNames, SameCalls, WhyGrows
    <2> QED
      BY <1>3, <2>1, <2>2, MeetCycleTells, MeetUndefinedTells, PushTells DEF Reference
  <1>4. CASE Leave
    BY <1>4, LeaveTells
  <1>5. CASE UNCHANGED <<definitions, read, effective, failed, stack, errors>>
    BY <1>5, SameCalls, WhyGrows
  <1> QED
    BY <1>1, <1>2, <1>3, <1>4, <1>5 DEF Next, Refuse, Resolve, vars

(* For any definitions and in whatever order the names are tried, the chain *)
(* of an error is a path of references to a name that is missing or on a    *)
(* circle, and no name fails without an error that it leads to.             *)
THEOREM FailuresAreExplained == Spec => []ErrorsTellWhy
  <1>1. Init => Why
    BY DEF Init, Why
  <1>2. ASSUME Inv, Why
        PROVE  ErrorsTellWhy
    <2> SUFFICES ASSUME Analysed PROVE ErrorsTellWhy
      BY DEF ErrorsTellWhy
    <2>1. Defined = DOMAIN effective /\ \A n \in Defined : Winner(n) = effective[n]
      BY <1>2, ChosenAreWinners DEF Inv, Analysed, Resolving
    <2>2. \A e \in errors : Unresolvable(e) => ChainHolds(e)
      BY <1>2 DEF Why
    <2>3. ASSUME NEW n \in Defined \ DOMAIN values
          PROVE  \E e \in errors : e.name \in Reach(n)
                   /\ e.code \notin {"MALFORMED_DEFINITION", "DUPLICATE_DEFINITION"}
      <3>1. n \in failed
        BY <2>1 DEF Analysed, Known
      <3> QED
        BY <1>2, <3>1 DEF Why, Explained, Unresolvable
    <2> QED
      BY <2>1, <2>2, <2>3 DEF ErrorsTellWhy, Unresolvable, ChainHolds
  <1> QED
    BY <1>1, <1>2, WhyNext, ResolverInvariant, PTL DEF Spec
=============================================================================
