------------------------ MODULE AuthenticationProfiles ------------------------
(***************************************************************************)
(* The authentication manager (src/auth/vscode/auth-manager-panel.ts) over *)
(* the secrets (SecretRepository), the session metadata and the configured *)
(* profiles: credentials are entered and cleared, tokens of a login        *)
(* response applied (apply-session-tokens.ts), and profiles renamed,       *)
(* removed and added by saves, while runs resolve authentication.          *)
(*                                                                         *)
(* A profile has two fields, "credential" for what the user enters and     *)
(* "session" for the token of a login; the others (refresh token, login    *)
(* name and password) go the same ways. A Caller has one operation at a    *)
(* time. A save takes several profiles in any order. The default profile   *)
(* and the login configuration are left out, and so is what is displayed.  *)
(* `owed` is not part of the program: the credential the user may expect.  *)
(***************************************************************************)
EXTENDS SecretRepository, FiniteSets, Functions

CONSTANTS
  Profiles,     \* ids of profiles
  Stored,       \* what a field of a configured profile may hold at the beginning
  Lists,        \* lists of profile ids that a save may ask for
  Absent,       \* no session metadata
  MaxOperations, \* bound on operations
  MaxMishaps    \* bound on rejections, failed writes and reloads

Field == {"credential", "session"}

ASSUME AuthenticationProfilesAssumption ==
  /\ Keys = Profiles \X Field
  /\ Lists \subseteq Seq(Profiles)
  /\ \A l \in Lists : IsInjective(l)
  /\ Absent \notin Values
  /\ MaxOperations \in Nat /\ MaxMishaps \in Nat

VARIABLES
  settings,   \* ids of the configured profiles, in order
  baseline,   \* the list the panel was last filled with
  session,    \* session[p]: the token its metadata tell of, None for none
  op,         \* op[c]: the operation c
  owed,       \* owed[k]: the credential to expect, None when nothing is
  begun,      \* number of operations begun
  mishaps     \* how often something failed

panel == <<settings, baseline, session, op>>
allVars == <<repository, panel, owed, begun, mishaps>>

Idle == [kind |-> "none", stage |-> "idle"]
busy(c) == op[c].stage # "idle"
changes(c) == busy(c) /\ op[c].kind # "resolve"
nothingOwed == [k \in Keys |-> None]

Init ==
  /\ RepositoryInit
  /\ settings \in Lists /\ baseline = settings
  /\ session = [p \in Profiles |-> IF Readable(<<p, "session">>) = None THEN Absent
                                   ELSE Readable(<<p, "session">>)]
  /\ \A k \in Keys : \/ canonical[k] = None \/ legacy[k] = None
  /\ \A k \in Keys : Readable(k) \in IF k[1] \in Range(settings) THEN Stored ELSE {None}
  /\ \A k \in Keys : k[2] = "session" => legacy[k] = None
  /\ op = [c \in Callers |-> Idle]
  /\ owed = [k \in Keys |-> Readable(k)]
  /\ begun = 0 /\ mishaps = 0

-----------------------------------------------------------------------------
Admit(c) == op[c] = Idle /\ begun < MaxOperations /\ begun' = begun + 1

(* An operation that changes something begins: while another is under way    *)
(* nobody can tell what to expect of either.                                 *)
Begin(c, task, keys) ==
  LET others == {d \in Callers : changes(d)} IN
  /\ Admit(c)
  /\ op' = [d \in Callers |->
              IF d = c THEN [task EXCEPT !.alone = others = {}]
              ELSE IF d \in others THEN [op[d] EXCEPT !.alone = FALSE] ELSE op[d]]
  /\ owed' = [k \in Keys |-> IF others # {} \/ k \in keys THEN None ELSE owed[k]]
  /\ UNCHANGED <<settings, baseline, session, mishaps>>

(* It ends well, and k is known to be v if nothing came between.             *)
End(c, k, v) ==
  /\ op' = [op EXCEPT ![c] = Idle]
  /\ owed' = IF op[c].alone THEN [owed EXCEPT ![k] = v] ELSE owed

Simple(kind) == [kind |-> kind, stage |-> "calling", alone |-> TRUE]

(* storeSecret and clearSecret *)
StoreSecret(c) ==
  \E p \in Range(settings), v \in Tokens :
    LET k == <<p, "credential">> IN
    Begin(c, Simple("store"), {k}) /\ Ask(c, "store", k, v)

ClearSecret(c) ==
  \E p \in Range(settings) :
    LET k == <<p, "credential">> IN
    Begin(c, Simple("clear"), {k}) /\ Ask(c, "delete", k, None)

(* postInit follows and fills the panel again. *)
SecretChanged(c) ==
  /\ op[c].stage = "calling" /\ op[c].kind \in {"store", "clear"}
  /\ call[c].at = "settled"
  /\ End(c, call[c].key, call[c].value)
  /\ baseline' = settings
  /\ Forget(c)
  /\ UNCHANGED <<settings, session, mishaps, begun>>

(* applySessionTokensFromJson: the token first, then the metadata. A         *)
(* response without a token takes the old one away.                          *)
ApplyTokens(c) ==
  \E p \in Range(settings), v \in Values :
    LET k == <<p, "session">> IN
    /\ Begin(c, Simple("apply"), {k})
    /\ Ask(c, IF v = None THEN "delete" ELSE "store", k, v)

(* From the panel postInit follows, from a response viewer it does not.      *)
TokensApplied(c) ==
  /\ op[c].stage = "calling" /\ op[c].kind = "apply"
  /\ call[c].at = "settled"
  /\ session' = [session EXCEPT ![call[c].key[1]] = call[c].value]
  /\ End(c, call[c].key, call[c].value)
  /\ baseline' \in {baseline, settings}
  /\ Forget(c)
  /\ UNCHANGED <<settings, mishaps, begun>>

-----------------------------------------------------------------------------
(* A run resolves authentication, or the panel shows a profile: the session  *)
(* token if there is one that has not expired, else the credential.          *)
Resolve(c) ==
  \E p \in Range(settings), f \in Field :
    /\ Admit(c)
    /\ f = "session" => session[p] \in Tokens
    /\ op' = [op EXCEPT ![c] = Simple("resolve")]
    /\ Ask(c, "get", <<p, f>>, None)
    /\ UNCHANGED <<settings, baseline, session, owed, mishaps>>

Resolved(c) ==
  /\ op[c].kind = "resolve" /\ call[c].at = "settled"
  /\ LET k == call[c].key IN
     IF call[c].value = None /\ k[2] = "session"
       THEN Ask(c, "get", <<k[1], "credential">>, None) /\ UNCHANGED op
       ELSE Forget(c) /\ op' = [op EXCEPT ![c] = Idle]
  /\ UNCHANGED <<settings, baseline, session, owed, mishaps, begun>>

-----------------------------------------------------------------------------
(* findRenamedProfiles *)
renamed(old, new) ==
  IF Len(old) # Len(new) THEN {}
  ELSE {<<old[i], new[i]>> : i \in {j \in DOMAIN old : /\ old[j] \notin Range(new)
                                                      /\ new[j] \notin Range(old)}}

(* Work is left on parts of profiles: first the credential, then the session *)
(* token, then the metadata of the session.                                  *)
Part == Field \cup {"metadata"}
Before == {<<"credential", "session">>, <<"credential", "metadata">>, <<"session", "metadata">>}
ready(c, item) ==
  \A other \in op[c].todo : other[1] = item[1] => <<other[3], item[3]>> \notin Before

toCopy(pairs) == {<<r[1], r[2], part>> : r \in pairs, part \in Part}

Saving(list) ==
  [kind |-> "save", stage |-> "copying", alone |-> TRUE, list |-> list, base |-> baseline,
   pairs |-> renamed(baseline, list), todo |-> toCopy(renamed(baseline, list))]

(* A save that wrote the settings and did not finish leaves a baseline that  *)
(* is not theirs any more, and what the next save makes of it is open.       *)
BeginSave(c) ==
  /\ \E list \in Lists : Begin(c, Saving(list), IF baseline = settings THEN {} ELSE Keys)
  /\ UNCHANGED repository

(* copyProfileSecrets *)
CopyField(c) ==
  /\ op[c].stage = "copying" /\ call[c].at = "none"
  /\ \E item \in op[c].todo :
       item[3] # "metadata" /\ ready(c, item) /\ Ask(c, "get", <<item[1], item[3]>>, None)
  /\ UNCHANGED <<panel, owed, mishaps, begun>>

target(c, p) == CHOOSE q \in Profiles : <<p, q>> \in op[c].pairs

FieldRead(c) ==
  /\ op[c].stage = "copying" /\ call[c].at = "settled" /\ call[c].do = "get"
  /\ LET p == call[c].key[1]
         f == call[c].key[2] IN
     IF call[c].value = None
       THEN Forget(c) /\ op' = [op EXCEPT ![c].todo = @ \ {<<p, target(c, p), f>>}]
       ELSE Ask(c, "store", <<target(c, p), f>>, call[c].value) /\ UNCHANGED op
  /\ UNCHANGED <<settings, baseline, session, owed, mishaps, begun>>

FieldCopied(c) ==
  /\ op[c].stage = "copying" /\ call[c].at = "settled" /\ call[c].do = "store"
  /\ op' = [op EXCEPT ![c].todo = {i \in @ : <<i[2], i[3]>> # call[c].key}]
  /\ Forget(c)
  /\ UNCHANGED <<settings, baseline, session, owed, mishaps, begun>>

(* remountSession *)
Remount(c) ==
  /\ op[c].stage = "copying" /\ call[c].at = "none"
  /\ \E item \in op[c].todo :
       /\ item[3] = "metadata" /\ ready(c, item)
       /\ session' = IF session[item[1]] = Absent THEN session
                     ELSE [session EXCEPT ![item[2]] = session[item[1]]]
       /\ op' = [op EXCEPT ![c].todo = @ \ {item}]
  /\ UNCHANGED <<settings, baseline, repository, owed, mishaps, begun>>

(* What the user may expect after a save: a profile that only got another    *)
(* id keeps what it had, and so does every profile that keeps its id.        *)
OwedAfter(old, new) ==
  LET gone == Range(old) \ Range(new)
      fresh == Range(new) \ Range(old)
      moved(p) == \E i \in DOMAIN old : p = new[i] /\ Len(old) = Len(new) /\ Cardinality(fresh) = 1
                                        /\ \A j \in DOMAIN old : j # i => old[j] = new[j] IN
  [k \in Keys |->
     IF k[1] \in Range(old) \cap Range(new) THEN owed[k]
     ELSE IF k[1] \in fresh /\ moved(k[1])
       THEN owed[<<CHOOSE p \in gone : TRUE, k[2]>>]
     ELSE None]

(* After the settings are written the old ids are cleared, and their session *)
(* metadata deleted if they were renamed.                                    *)
toClear(save) ==
  LET from == {r[1] : r \in save.pairs}
      gone == Range(save.base) \ Range(save.list) IN
  {<<p, p, f>> : p \in from, f \in Part} \cup {<<p, p, f>> : p \in gone, f \in Field}

(* writeAuthManagerState *)
WriteSettings(c) ==
  /\ op[c].stage = "copying" /\ op[c].todo = {} /\ call[c].at = "none"
  /\ settings' = op[c].list
  /\ owed' = IF op[c].alone THEN OwedAfter(settings, op[c].list) ELSE nothingOwed
  /\ op' = [op EXCEPT ![c].stage = "clearing", ![c].todo = toClear(op[c])]
  /\ UNCHANGED <<baseline, session, repository, mishaps, begun>>

(* Faulty: the credentials under the old ids are cleared.                    *)
WriteFailsClearingOld(c) ==
  /\ op[c].stage = "copying" /\ op[c].todo = {} /\ call[c].at = "none"
  /\ mishaps < MaxMishaps /\ mishaps' = mishaps + 1
  /\ op' = [op EXCEPT ![c].stage = "undoing",
                      ![c].todo = {<<r[1], r[1], f>> : r \in op[c].pairs, f \in Part}]
  /\ UNCHANGED <<settings, baseline, session, repository, owed, begun>>

(* What was copied is cleared again. *)
toUndo(save) == {<<r[2], r[2], f>> : r \in save.pairs, f \in Part}

WriteFails(c) ==
  /\ op[c].stage = "copying" /\ op[c].todo = {} /\ call[c].at = "none"
  /\ mishaps < MaxMishaps /\ mishaps' = mishaps + 1
  /\ op' = [op EXCEPT ![c].stage = "undoing", ![c].todo = toUndo(op[c])]
  /\ UNCHANGED <<settings, baseline, session, repository, owed, begun>>

(* clearProfileSecrets *)
ClearField(c) ==
  /\ op[c].stage \in {"clearing", "undoing"} /\ call[c].at = "none"
  /\ \E item \in op[c].todo :
       item[3] # "metadata" /\ ready(c, item) /\ Ask(c, "delete", <<item[1], item[3]>>, None)
  /\ UNCHANGED <<panel, owed, mishaps, begun>>

FieldCleared(c) ==
  /\ op[c].stage \in {"clearing", "undoing"} /\ call[c].at = "settled"
  /\ op' = [op EXCEPT ![c].todo = {i \in @ : <<i[1], i[3]>> # call[c].key}]
  /\ Forget(c)
  /\ UNCHANGED <<settings, baseline, session, owed, mishaps, begun>>

DeleteSession(c) ==
  /\ op[c].stage \in {"clearing", "undoing"} /\ call[c].at = "none"
  /\ \E item \in op[c].todo :
       /\ item[3] = "metadata" /\ ready(c, item)
       /\ session' = [session EXCEPT ![item[1]] = Absent]
       /\ op' = [op EXCEPT ![c].todo = @ \ {item}]
  /\ UNCHANGED <<settings, baseline, repository, owed, mishaps, begun>>

(* The panel is filled again, but not after a save that failed.              *)
EndSave(c) ==
  /\ op[c].stage \in {"clearing", "undoing"} /\ op[c].todo = {} /\ call[c].at = "none"
  /\ op' = [op EXCEPT ![c] = Idle]
  /\ baseline' = IF op[c].stage = "clearing" THEN settings ELSE baseline
  /\ UNCHANGED <<settings, session, repository, owed, mishaps, begun>>

-----------------------------------------------------------------------------
(* A rejected call ends the operation where it is.                           *)
GiveUp(c) ==
  /\ busy(c) /\ call[c].at = "rejected"
  /\ op' = [op EXCEPT ![c] = Idle]
  /\ Forget(c)
  /\ UNCHANGED <<settings, baseline, session, owed, mishaps, begun>>

Reject(c) ==
  /\ mishaps < MaxMishaps /\ mishaps' = mishaps + 1
  /\ MoveRejected(c) \/ Rejected(c)
  /\ UNCHANGED <<panel, owed, begun>>

(* The window is reloaded: secrets, settings and sessions are stored.        *)
Reload ==
  /\ mishaps < MaxMishaps /\ mishaps' = mishaps + 1
  /\ Lost
  /\ op' = [c \in Callers |-> Idle]
  /\ baseline' = settings
  /\ UNCHANGED <<settings, session, owed, begun>>

Proceeds(c) == Works(c) /\ UNCHANGED <<panel, owed, begun, mishaps>>

Next ==
  \/ \E c \in Callers :
       \/ StoreSecret(c) \/ ClearSecret(c) \/ SecretChanged(c)
       \/ ApplyTokens(c) \/ TokensApplied(c)
       \/ Resolve(c) \/ Resolved(c)
       \/ BeginSave(c) \/ CopyField(c) \/ FieldRead(c) \/ FieldCopied(c) \/ Remount(c)
       \/ WriteSettings(c) \/ WriteFails(c)
       \/ ClearField(c) \/ FieldCleared(c) \/ DeleteSession(c) \/ EndSave(c)
       \/ Proceeds(c) \/ GiveUp(c) \/ Reject(c)
  \/ Reload

Spec == Init /\ [][Next]_allVars

-----------------------------------------------------------------------------
(* Whatever fails and wherever the window is reloaded, a configured profile  *)
(* reads the credential entered last and the session token applied last,     *)
(* also under a new id; nothing is owed once two changes overlapped.         *)
CredentialsSurvive ==
  \A k \in Keys : k[1] \in Range(settings) /\ owed[k] # None =>
    Readable(k) = owed[k] /\ (k[2] = "session" => session[k[1]] = owed[k])
=============================================================================
