------------------------- MODULE FieldAdminProofs --------------------------
(***************************************************************************)
(* Theorems about FieldAdmin: what the commands keep true of the           *)
(* configuration, the cursors and the keychain, for any Fields, profiles   *)
(* and manifests, however often a command is killed or fails.              *)
(***************************************************************************)
EXTENDS FieldAdmin, TLAPS, FiniteSetTheorems, WellFoundedInduction

-----------------------------------------------------------------------------
(* The inductive invariant *)

RemoveSteps == {"cursor", "status", "staging"}
AuthSteps == {"describe", "authorize", "store", "account"}
RunSteps == {"mint", "rotate", "staging", "describe", "decide", "collect", "status"}

\* The configuration a command has read, and the one there is.
Stands(f, c) ==
  /\ f \in Fields /\ c \in Configs /\ config[f] # None
  /\ config[f].settings = c.settings /\ config[f].life = c.life

\* Where a command is, and that no other one changes its Field meanwhile.
Place ==
  /\ cmd.op = "none" => cmd = Idle
  /\ cmd.op = "remove" => cmd.at \in RemoveSteps /\ cmd.field \in Fields
  /\ cmd.op = "auth" =>
       /\ cmd.at \in AuthSteps /\ Stands(cmd.field, cmd.was)
       /\ SettingsResolve(cmd.was.settings)
  /\ cmd.op = "sync" =>
       \/ cmd.at = "field" /\ cmd.todo # <<>>
       \/ cmd.at \in RunSteps /\ Stands(cmd.field, cmd.was)
  /\ \A i \in 1 .. Len(cmd.todo) : Stands(cmd.todo[i][1], cmd.todo[i][2])
  /\ cmd.secret # None <=> cmd.at \in {"store", "rotate"}

\* No token is in two places.
Distinct ==
  /\ \A p, q \in Profiles : keychain[p] # None /\ keychain[p] = keychain[q] => p = q
  /\ \A p \in Profiles : keychain[p] # None => keychain[p] # variable
  /\ cmd.secret # None =>
       cmd.secret # variable /\ \A p \in Profiles : keychain[p] # cmd.secret
  /\ IsFiniteSet(Taken)

\* What is not usable is accounted for, or is being replaced.
Usable ==
  /\ \A p \in Profiles : keychain[p] # None /\ keychain[p] \notin live =>
       \/ p \in mislaid
       \/ /\ cmd.at = "rotate" /\ CanStore(cmd.was.settings)
          /\ cmd.was.settings.profile = p
  /\ cmd.secret # None => cmd.secret \in live \/ cmd.was.settings.profile \in mislaid

\* The token that is to be stored is of the account the old one was of.
Rotation ==
  cmd.at = "rotate" =>
    /\ SettingsResolve(cmd.was.settings) /\ InHand # None
    /\ cmd.secret.owner = InHand.owner /\ cmd.secret.by = InHand.by

\* Nothing but a removal, under way or cut short, leaves a cursor without its
\* configuration.
Own ==
  /\ CursorIsOwn
  /\ \A f \in Fields : config[f] = None /\ cursor[f] # None =>
       f \in leftover \/ (At("remove", "cursor") /\ cmd.field = f)

Labelled(f) ==
  LET c == config[f]   t == keychain[c.settings.profile] IN
  c # None /\ c.account # None =>
    /\ SettingsResolve(c.settings)
    /\ CanStore(c.settings) /\ t # None /\ t.by = f =>
         \/ t.owner = c.account
         \/ c.settings.profile \in mislaid
         \/ cmd.at = "account" /\ cmd.field = f

\* The account that is about to be recorded is the one that signed in.
Login ==
  /\ cmd.at \in {"store", "account"} => CanStore(cmd.was.settings)
  /\ cmd.at = "store" => cmd.secret.by = cmd.field /\ cmd.account \in {None, cmd.secret.owner}
  /\ cmd.at = "account" =>
       LET t == keychain[cmd.was.settings.profile] IN
       t # None /\ t.by = cmd.field /\ cmd.account \in {None, t.owner}

Label == Login /\ \A f \in Fields : Labelled(f)

ResumesWith(f, m) == cursor[f] # None /\ cursor[f].format = m.format

\* What the forecast said is still so, as far as the run has not gone past it;
\* once the Field has described itself, the run has its manifest.
Forecast ==
  LET f == cmd.field   was == cmd.forecast IN
  cmd.op = "sync" /\ cmd.at # "field" =>
    /\ cmd.at \in {"mint", "rotate", "staging", "describe", "decide"} =>
         (was.cursor_present <=> cursor[f] # None)
    /\ cmd.at \in {"mint", "rotate", "staging", "describe"} =>
         /\ was.manifest_present <=> config[f].manifest # None
         /\ was.manifest_present => (was.resumes <=> ResumesWith(f, config[f].manifest))
    /\ cmd.at = "decide" /\ was.manifest_present =>
         (was.resumes <=> ResumesWith(f, cmd.manifest))
    /\ was.credential = "absent" =>
         cmd.at = "mint" /\ Declares(cmd.was.settings) /\ InHand = None
    /\ cmd.at \in {"decide", "collect"} => cmd.manifest \in Manifests

TokenInv == Distinct /\ Usable /\ Rotation
RunInv == Forecast /\ StatusPredictsTheRun

IInv == TypeOK /\ Place /\ TokenInv /\ Own /\ Label /\ RunInv

-----------------------------------------------------------------------------
(* A fresh token *)

LEMMA TakenAreTokens ==
  ASSUME TypeOK
  PROVE  \A t \in Taken \ {None} : t \in Tokens
  BY DEF TypeOK, Taken, CommandStates

\* Of the first serials, one more than there are tokens, one is free.
LEMMA SomeIsFree ==
  ASSUME TypeOK, IsFiniteSet(Taken)
  PROVE  Free # {}
<1>1. PICK n \in Nat : n = Cardinality(Taken)
  BY FS_CardinalityType
<1> SUFFICES ASSUME Free = {} PROVE FALSE
  OBVIOUS
<1>2. \A k \in 0 .. n : \E t \in Taken \ {None} : t.serial = k
  BY <1>1 DEF Free
<1> DEFINE holder == [k \in 0 .. n |-> CHOOSE t \in Taken \ {None} : t.serial = k]
<1>3. holder \in [0 .. n -> Taken] /\ \A k \in 0 .. n : holder[k].serial = k
  BY <1>2
<1>4. IsFiniteSet(0 .. n) /\ Cardinality(0 .. n) = n + 1
  <2>1. IsFiniteSet(0 .. n) /\ Cardinality(0 .. n) = IF 0 > n THEN 0 ELSE n - 0 + 1
    BY FS_Interval
  <2> QED BY <2>1
<1> HIDE DEF holder
<1>5. \E j, k \in 0 .. n : j # k /\ holder[j] = holder[k]
  BY <1>1, <1>3, <1>4, FS_PigeonHole
<1> QED BY <1>3, <1>5

LEMMA HasLeast ==
  ASSUME NEW S \in SUBSET Nat, S # {}
  PROVE  \E n \in S : \A k \in S : n <= k
<1>1. \E n \in S : \A k \in S : ~ (<<k, n>> \in OpToRel(<, Nat))
  BY WFMin, NatLessThanWellFounded
<1>2. PICK n \in S : \A k \in S : ~ (k < n)
  BY <1>1 DEF OpToRel
<1>3. \A k \in S : n \in Nat /\ k \in Nat
  OBVIOUS
<1>4. \A k \in S : n <= k
  BY <1>2, <1>3
<1> QED BY <1>4

LEMMA FreshIsNew ==
  ASSUME TypeOK, IsFiniteSet(Taken), cmd.secret = None, NEW owner \in Accounts,
         NEW by \in Fields \cup {None}
  PROVE  /\ Fresh(owner, by) \in Tokens /\ Fresh(owner, by) \notin Taken
         /\ Fresh(owner, by) # None
         /\ Fresh(owner, by).owner = owner /\ Fresh(owner, by).by = by
<1>1. Free # {} /\ Free \in SUBSET Nat
  BY SomeIsFree DEF Free
<1>2. \E n \in Free : \A k \in Free : n <= k
  BY <1>1, HasLeast
<1>3. PICK n \in Free : Fresh(owner, by) = [owner |-> owner, serial |-> n, by |-> by]
  BY <1>2 DEF Fresh
<1>4. n \in Nat /\ \A t \in Taken \ {None} : t.serial # n
  BY <1>3 DEF Free
<1>5. Fresh(owner, by) \notin Taken \ {None}
  BY <1>3, <1>4
<1>6. Fresh(owner, by) \in Tokens
  BY <1>3, <1>4 DEF Tokens
<1>7. Fresh(owner, by) # None
  BY <1>6, NothingAssumption
<1>8. Fresh(owner, by).owner = owner /\ Fresh(owner, by).by = by
  BY <1>3
<1> QED BY <1>5, <1>6, <1>7, <1>8

-----------------------------------------------------------------------------
(* Where a command is *)

LEMMA StepsAreApart ==
  ASSUME TypeOK, Place
  PROVE  /\ cmd.at \in {"authorize", "store", "account"} => cmd.op = "auth"
         /\ cmd.at \in {"mint", "rotate", "decide", "collect"} => cmd.op = "sync"
         /\ cmd.op = "none" => cmd = Idle /\ cmd.at = "idle"
         /\ cmd.op \in {"none", "remove", "auth", "sync"}
<1>1. Idle.at = "idle"
  BY DEF Idle
<1>2. cmd.op \in {"none", "remove", "auth", "sync"}
  BY DEF TypeOK, CommandStates
<1>3. cmd.op = "none" => cmd = Idle /\ cmd.at = "idle"
  BY <1>1 DEF Place
<1> QED BY <1>2, <1>3 DEF Place, RemoveSteps, AuthSteps, RunSteps

\* The provers look at a command's fields with the sets they are in folded.
Ats == {"idle", "cursor", "status", "staging", "describe", "authorize", "store", "account",
        "field", "mint", "rotate", "decide", "collect"}
SomeConfig == Configs \cup {None}
SomeManifest == Manifests \cup {None}
SomeToken == Tokens \cup {None}
SomeAccount == Accounts \cup {None}
SomeCursor == Cursors \cup {None}
SomeField == Fields \cup {None}
SomeOptions == OptionChoices \cup {None}
Todos == Seq(Fields \X Configs)

LEMMA CommandFields ==
  CommandStates =
    [op : {"none", "remove", "auth", "sync"}, at : Ats, todo : Todos, options : SomeOptions,
     field : SomeField, was : SomeConfig, manifest : SomeManifest, secret : SomeToken,
     minted : BOOLEAN, account : SomeAccount, replay : SomeCursor, window : BOOLEAN,
     forecast : Forecasts]
  BY DEF CommandStates, Ats, Todos, SomeOptions, SomeField, SomeConfig, SomeManifest, SomeToken,
         SomeAccount, SomeCursor

LEMMA IdleIsTyped == Idle \in CommandStates
<1>1. <<>> \in Seq(Fields \X Configs)
  OBVIOUS
<1>2. NoForecast \in Forecasts
  BY DEF NoForecast, Forecasts
<1> QED BY <1>1, <1>2 DEF Idle, CommandStates

\* A configuration that a command has read stays what it was.
KeepsShape ==
  \A f \in Fields : config[f] # None =>
    /\ config'[f] # None
    /\ config'[f].settings = config[f].settings /\ config'[f].life = config[f].life

\* A command that has ended, or is between two Fields.
Resting ==
  /\ cmd'.at \in {"idle", "field"} /\ cmd'.op \in {"none", "sync"}
  /\ cmd'.op = "sync" => cmd'.at = "field"
  /\ cmd'.secret = None

LEMMA Rests ==
  ASSUME TypeOK, Place, KeepsShape, cmd' = Idle \/ NextField
  PROVE  cmd' \in CommandStates /\ Place' /\ Resting
<1>1. CASE cmd' = Idle
  <2>1. cmd' \in CommandStates
    BY <1>1, IdleIsTyped
  <2>2. cmd'.op = "none" /\ cmd'.at = "idle" /\ cmd'.todo = <<>> /\ cmd'.secret = None
    BY <1>1 DEF Idle
  <2>3. Idle' = Idle
    BY DEF Idle, NoForecast
  <2> QED BY <1>1, <2>1, <2>2, <2>3 DEF Place, Resting
<1>2. CASE NextField /\ cmd' # Idle
  <2>1. /\ cmd.op = "sync" /\ cmd.todo # <<>>
        /\ cmd' = [Idle EXCEPT !.op = "sync", !.at = "field", !.todo = cmd.todo,
                               !.options = cmd.options]
    BY <1>2 DEF NextField
  <2>2. cmd' \in CommandStates
    <3>1. cmd.todo \in Seq(Fields \X Configs) /\ cmd.options \in OptionChoices \cup {None}
      BY DEF TypeOK, CommandStates
    <3> QED BY ONLY <2>1, <3>1, IdleIsTyped DEF CommandStates
  <2>3. cmd'.op = "sync" /\ cmd'.at = "field" /\ cmd'.todo = cmd.todo /\ cmd'.secret = None
    BY <2>1 DEF Idle
  <2>4. \A i \in 1 .. Len(cmd.todo) : Stands(cmd.todo[i][1], cmd.todo[i][2])
    BY DEF Place
  <2>5. \A i \in 1 .. Len(cmd'.todo) : Stands(cmd.todo[i][1], cmd.todo[i][2])'
    BY <2>3, <2>4 DEF Stands, KeepsShape
  <2> QED BY <2>1, <2>2, <2>3, <2>5 DEF Place, Resting
<1> QED BY <1>1, <1>2

\* A command that goes on with its Field.
LEMMA Proceeds ==
  ASSUME TypeOK, Place, KeepsShape, cmd'.op = cmd.op, cmd'.field = cmd.field, cmd'.was = cmd.was,
         cmd'.todo = cmd.todo, cmd.op \in {"auth", "sync"},
         cmd.op = "auth" => cmd'.at \in AuthSteps,
         cmd.op = "sync" => cmd.at # "field" /\ cmd'.at \in RunSteps,
         cmd'.secret # None <=> cmd'.at \in {"store", "rotate"}
  PROVE  Place'
<1>1. Stands(cmd.field, cmd.was)
  BY DEF Place
<1>2. Stands(cmd.field, cmd.was)'
  BY <1>1 DEF Stands, KeepsShape
<1>3. \A i \in 1 .. Len(cmd'.todo) : Stands(cmd.todo[i][1], cmd.todo[i][2])'
  <2>1. \A i \in 1 .. Len(cmd.todo) : Stands(cmd.todo[i][1], cmd.todo[i][2])
    BY DEF Place
  <2> QED BY <2>1 DEF Stands, KeepsShape
<1> QED BY <1>2, <1>3 DEF Place

-----------------------------------------------------------------------------
(* What the steps leave as it is *)

\* No configuration comes or goes.
KeepsFields ==
  /\ KeepsShape
  /\ \A f \in Fields : config[f] = None => config'[f] = None

KeepsAccounts ==
  \A f \in Fields : config'[f] # None =>
    /\ config[f] # None
    /\ config'[f].settings = config[f].settings /\ config'[f].account = config[f].account

\* Configurations and cursors as they were; a removal that is cut short leaves
\* something behind.
LEMMA OwnStands ==
  ASSUME TypeOK, Own, KeepsFields, UNCHANGED cursor,
         \/ leftover' = Leavings
         \/ leftover' = leftover /\ ~ At("remove", "cursor")
         \/ leftover' = leftover /\ UNCHANGED cmd
  PROVE  Own'
<1>1. leftover \subseteq leftover'
  BY DEF Leavings
<1>2. CursorIsOwn'
  <2>1. ASSUME NEW f \in Fields, cursor'[f] # None, config'[f] # None
        PROVE  cursor'[f].life = config'[f].life \/ f \in leftover'
    BY <1>1, <2>1 DEF Own, CursorIsOwn, KeepsFields, KeepsShape
  <2> QED BY <2>1 DEF CursorIsOwn
<1>3. ASSUME NEW f \in Fields, cursor'[f] # None, config'[f] = None
      PROVE  f \in leftover' \/ (At("remove", "cursor")' /\ cmd'.field = f)
  <2>1. f \in leftover \/ (At("remove", "cursor") /\ cmd.field = f)
    BY <1>3 DEF Own, KeepsFields, KeepsShape
  <2>2. CASE leftover' = Leavings
    BY <1>1, <1>3, <2>1, <2>2 DEF Leavings
  <2>3. CASE leftover' = leftover /\ ~ At("remove", "cursor")
    BY <2>1, <2>3
  <2>4. CASE leftover' = leftover /\ UNCHANGED cmd
    BY <2>1, <2>4 DEF At
  <2> QED BY <2>2, <2>3, <2>4
<1> QED BY <1>2, <1>3 DEF Own

\* Accounts and tokens as they were; a login that is cut short is mislaid.
LEMMA LabelsStand ==
  ASSUME TypeOK, Place, Label, KeepsAccounts, UNCHANGED keychain, mislaid \subseteq mislaid',
         \/ cmd.at # "account"
         \/ cmd.was.settings.profile \in mislaid'
         \/ cmd'.at = "account" /\ cmd'.field = cmd.field
  PROVE  \A f \in Fields : Labelled(f)'
<1> SUFFICES ASSUME NEW f \in Fields PROVE Labelled(f)'
  OBVIOUS
<1> DEFINE s == config[f].settings
<1>1. CASE config'[f] # None /\ config'[f].account # None
  <2>1. config[f] # None /\ config[f].account # None
        /\ config'[f].settings = s /\ config'[f].account = config[f].account
    BY <1>1 DEF KeepsAccounts
  <2>2. Labelled(f)
    BY DEF Label
  <2>3. cmd.at = "account" /\ cmd.field = f => s = cmd.was.settings
    <3>1. cmd.at = "account" => Stands(cmd.field, cmd.was)
      BY StepsAreApart DEF Place
    <3> QED BY <3>1 DEF Stands
  <2>4. keychain'[s.profile] = keychain[s.profile]
    OBVIOUS
  <2> HIDE DEF s
  <2>5. SettingsResolve(s)
    BY <2>1, <2>2 DEF Labelled, s
  <2>6. ASSUME CanStore(s), keychain[s.profile] # None, keychain[s.profile].by = f
        PROVE  \/ keychain[s.profile].owner = config[f].account
               \/ s.profile \in mislaid'
               \/ cmd'.at = "account" /\ cmd'.field = f
    BY <2>1, <2>2, <2>3, <2>6 DEF Labelled, s
  <2> QED BY <2>1, <2>4, <2>5, <2>6 DEF Labelled
<1>2. CASE ~ (config'[f] # None /\ config'[f].account # None)
  BY <1>2 DEF Labelled
<1> QED BY <1>1, <1>2

\* The tokens as they were, and none in hand.
LEMMA TokensStand ==
  ASSUME TypeOK, Place, TokenInv, UNCHANGED <<keychain, variable, live>>,
         mislaid \subseteq mislaid',
         cmd'.secret = None, cmd'.at \notin {"store", "rotate"},
         \/ cmd.at # "rotate"
         \/ cmd.was.settings.profile \in mislaid'
         \/ ~ CanStore(cmd.was.settings)
  PROVE  TokenInv'
<1>1. IsFiniteSet(Taken')
  <2>1. IsFiniteSet(Taken \cup {None})
    BY FS_AddElement DEF TokenInv, Distinct
  <2>2. Taken' \subseteq Taken \cup {None}
    BY DEF Taken
  <2> QED BY <2>1, <2>2, FS_Subset
<1>2. Distinct'
  BY <1>1 DEF TokenInv, Distinct
<1>3. Usable'
  BY DEF TokenInv, Usable
<1> QED BY <1>2, <1>3 DEF TokenInv, Rotation

LEMMA RestingRuns ==
  ASSUME Resting
  PROVE  RunInv' /\ Login'
  BY DEF Resting, RunInv, Forecast, StatusPredictsTheRun, Login, At

\* A step after which the command rests.
LEMMA RestKeeps ==
  ASSUME IInv, cmd' = Idle \/ NextField, UNCHANGED <<config, cursor, keychain, variable, live>>,
         mislaid \subseteq mislaid',
         \/ leftover' = Leavings
         \/ leftover' = leftover /\ ~ At("remove", "cursor"),
         \/ cmd.at \notin {"rotate", "account"}
         \/ cmd.was.settings.profile \in mislaid'
         \/ cmd.at = "rotate" /\ ~ CanStore(cmd.was.settings)
  PROVE  cmd' \in CommandStates /\ Place' /\ TokenInv' /\ Own' /\ Label' /\ RunInv'
<1>0. TypeOK /\ Place /\ TokenInv /\ Own /\ Label
  BY DEF IInv
<1>1. KeepsFields /\ KeepsAccounts /\ KeepsShape
  BY DEF KeepsFields, KeepsAccounts, KeepsShape
<1>2. cmd' \in CommandStates /\ Place' /\ Resting
  BY <1>0, <1>1, Rests
<1>3. TokenInv'
  BY <1>0, <1>2, TokensStand DEF Resting
<1>4. Own'
  BY <1>0, <1>1, OwnStands
<1>5. \A f \in Fields : Labelled(f)'
  BY <1>0, <1>1, LabelsStand
<1> QED BY <1>2, <1>3, <1>4, <1>5, RestingRuns DEF Label

\* A step of a run that has nothing to do with tokens.
LEMMA RunGoesOn ==
  ASSUME IInv, cmd.op = "sync", cmd.at \notin {"field", "rotate"},
         cmd'.op = cmd.op, cmd'.field = cmd.field, cmd'.was = cmd.was, cmd'.todo = cmd.todo,
         cmd'.secret = cmd.secret, cmd'.at \in RunSteps \ {"rotate"},
         KeepsFields, KeepsAccounts, UNCHANGED <<cursor, keychain, variable, live, mislaid, faults, leftover>>
  PROVE  Place' /\ TokenInv' /\ Own' /\ Label'
<1>0. TypeOK /\ Place /\ TokenInv /\ Own /\ Label
  BY DEF IInv
<1>1. cmd.at \notin {"store", "rotate", "account"} /\ cmd.secret = None /\ ~ At("remove", "cursor")
  BY <1>0 DEF Place, RunSteps, At
<1>2. Place'
  BY <1>0, <1>1, Proceeds DEF KeepsFields, RunSteps
<1>3. TokenInv'
  BY <1>0, <1>1, TokensStand DEF RunSteps
<1>4. Own'
  BY <1>0, <1>1, OwnStands
<1>5. \A f \in Fields : Labelled(f)'
  BY <1>0, <1>1, LabelsStand
<1>6. Login'
  BY DEF Login, RunSteps
<1> QED BY <1>2, <1>3, <1>4, <1>5, <1>6 DEF Label

-----------------------------------------------------------------------------
(* The beginning of a command *)

\* Nothing the invariant is about changes.
LEMMA SameKeeps ==
  ASSUME IInv, UNCHANGED <<config, cursor, keychain, variable, live, cmd, mislaid, faults, leftover>>
  PROVE  Place' /\ TokenInv' /\ Own' /\ Label' /\ RunInv'
<1>1. Place'
  <2>1. Idle' = Idle
    BY DEF Idle, NoForecast
  <2> QED BY <2>1 DEF IInv, Place, Stands
<1>2. Taken' = Taken /\ InHand' = InHand
  BY DEF Taken, InHand, Held
<1>3. TokenInv'
  BY <1>2 DEF IInv, TokenInv, Distinct, Usable, Rotation
<1>4. Own'
  BY DEF IInv, Own, CursorIsOwn, At
<1>5. Login'
  BY DEF IInv, Label, Login
<1>6. \A f \in Fields : Labelled(f)'
  BY DEF IInv, Label, Labelled
<1>7. Forecast'
  BY <1>2 DEF IInv, RunInv, Forecast, ResumesWith
<1>8. StatusPredictsTheRun'
  BY DEF IInv, RunInv, StatusPredictsTheRun, At
<1> QED BY <1>1, <1>3, <1>4, <1>5, <1>6, <1>7, <1>8 DEF Label, RunInv

\* Of a command that starts, whatever it is.
LEMMA IdleFacts ==
  ASSUME IInv, cmd = Idle
  PROVE  /\ cmd.op = "none" /\ cmd.at = "idle" /\ cmd.todo = <<>> /\ cmd.secret = None
         /\ \A op, step : step # "idle" => ~ At(op, step)
  BY DEF Idle, At

LEMMA AddFieldKeeps ==
  ASSUME IInv, NEW f \in Fields, AddField(f)
  PROVE  IInv'
<1>0. TypeOK /\ Place /\ TokenInv /\ Own /\ Label
  BY DEF IInv
<1>1. /\ cmd = Idle /\ cmd' = Idle /\ commands < MaxCommands /\ commands' = commands + 1
      /\ UNCHANGED <<cursor, status, staging, build, keychain, variable, live, mislaid, faults, leftover>>
  BY DEF AddField, Start, tokens
<1>2. PICK s \in Choices, enabled \in BOOLEAN :
        config' = IF config[f] = None /\ ValidSettings(s) /\ Writable(s)
                  THEN [config EXCEPT ![f] = NewConfig(s, enabled, commands')] ELSE config
  BY DEF AddField
<1>3. commands \in Nat /\ commands' \in 1 .. MaxCommands /\ faults \in Nat
  BY <1>0, <1>1, AdminAssumption DEF TypeOK
<1>4. PICK new : new = NewConfig(s, enabled, commands')
  OBVIOUS
<1>5. new \in Configs /\ new.account = None
  BY <1>3, <1>4 DEF NewConfig, Configs
<1>6. /\ config' \in [Fields -> Configs \cup {None}]
      /\ \A g \in Fields : config'[g] = config[g] \/ (config[g] = None /\ config'[g] = new)
  BY <1>0, <1>2, <1>4, <1>5 DEF TypeOK
<1>7. KeepsShape
  BY <1>6 DEF KeepsShape
<1>8. cmd' \in CommandStates /\ Place' /\ Resting
  BY <1>0, <1>1, <1>7, Rests
<1>9. TypeOK'
  BY <1>0, <1>1, <1>3, <1>6, <1>8 DEF TypeOK
<1>10. TokenInv'
  BY <1>0, <1>1, <1>8, IdleFacts, TokensStand DEF Resting
<1>11. Own'
  <2>1. ASSUME NEW g \in Fields, cursor[g] # None, config[g] = None PROVE g \in leftover
    BY <1>0, <1>1, <2>1, IdleFacts DEF Own
  <2>2. CursorIsOwn'
    BY <1>0, <1>1, <1>6, <2>1 DEF Own, CursorIsOwn
  <2>3. \A g \in Fields : config'[g] = None /\ cursor'[g] # None => g \in leftover'
    BY <1>1, <1>6, <2>1
  <2> QED BY <2>2, <2>3 DEF Own
<1>12. ASSUME NEW g \in Fields PROVE Labelled(g)'
  <2>1. CASE config'[g] = new
    BY <1>5, <2>1 DEF Labelled
  <2>2. CASE config'[g] = config[g]
    BY <1>0, <1>1, <2>2, IdleFacts DEF Label, Labelled
  <2> QED BY <1>6, <2>1, <2>2
<1> QED BY <1>8, <1>9, <1>10, <1>11, <1>12, RestingRuns DEF IInv, Label

LEMMA RemoveFieldKeeps ==
  ASSUME IInv, NEW f \in Fields, RemoveField(f)
  PROVE  IInv'
<1>0. TypeOK /\ Place /\ TokenInv /\ Own /\ Label
  BY DEF IInv
<1>1. /\ cmd = Idle /\ cmd' = [Idle EXCEPT !.op = "remove", !.at = "cursor", !.field = f]
      /\ commands < MaxCommands /\ commands' = commands + 1
      /\ config' = [config EXCEPT ![f] = None]
      /\ UNCHANGED <<cursor, status, staging, build, keychain, variable, live, mislaid, faults, leftover>>
  BY DEF RemoveField, Start, tokens
<1>2. commands \in Nat /\ commands' \in 0 .. MaxCommands
  BY <1>0, <1>1, AdminAssumption DEF TypeOK
<1>3. /\ cmd'.op = "remove" /\ cmd'.at = "cursor" /\ cmd'.field = f /\ cmd'.todo = <<>>
      /\ cmd'.secret = None
  BY <1>1 DEF Idle
<1>4. cmd' \in CommandStates
  BY <1>1, IdleIsTyped DEF CommandStates
<1>5. Place'
  BY <1>3 DEF Place, RemoveSteps
<1>6. TypeOK'
  BY <1>0, <1>1, <1>2, <1>4 DEF TypeOK
<1>7. TokenInv'
  BY <1>0, <1>1, <1>3, IdleFacts, TokensStand
<1>8. Own'
  <2>1. \A g \in Fields : config'[g] = (IF g = f THEN None ELSE config[g])
    BY <1>0, <1>1 DEF TypeOK
  <2>2. CursorIsOwn'
    BY <1>0, <1>1, <2>1 DEF Own, CursorIsOwn
  <2>3. \A g \in Fields : config[g] = None /\ cursor[g] # None => g \in leftover
    BY <1>0, <1>1, IdleFacts DEF Own
  <2>4. At("remove", "cursor")'
    BY <1>3 DEF At
  <2> QED BY <1>1, <1>3, <2>1, <2>2, <2>3, <2>4 DEF Own
<1>9. KeepsAccounts
  BY <1>0, <1>1 DEF KeepsAccounts, TypeOK
<1>10. \A g \in Fields : Labelled(g)'
  BY <1>0, <1>1, <1>9, IdleFacts, LabelsStand
<1>11. RunInv' /\ Login'
  BY <1>3 DEF RunInv, Forecast, StatusPredictsTheRun, Login, At
<1> QED BY <1>5, <1>6, <1>7, <1>8, <1>10, <1>11 DEF IInv, Label

LEMMA AuthFieldKeeps ==
  ASSUME IInv, NEW f \in Fields, AuthField(f)
  PROVE  IInv'
<1>0. TypeOK /\ Place /\ TokenInv /\ Own /\ Label
  BY DEF IInv
<1>1. /\ cmd = Idle /\ config[f] # None /\ SettingsResolve(config[f].settings)
      /\ cmd' = [Idle EXCEPT !.op = "auth", !.at = "describe", !.field = f, !.was = config[f]]
      /\ commands < MaxCommands /\ commands' = commands + 1
      /\ UNCHANGED <<config, cursor, status, staging, build, keychain, variable, live, mislaid, faults, leftover>>
  BY DEF AuthField, Start, tokens, files
<1>2. commands \in Nat /\ commands' \in 0 .. MaxCommands /\ config[f] \in Configs
  BY <1>0, <1>1, AdminAssumption DEF TypeOK
<1>3. /\ cmd'.op = "auth" /\ cmd'.at = "describe" /\ cmd'.field = f /\ cmd'.todo = <<>>
      /\ cmd'.secret = None /\ cmd'.was = config[f]
  BY <1>1 DEF Idle
<1>4. cmd' \in CommandStates
  BY <1>1, <1>2, IdleIsTyped DEF CommandStates
<1>5. Place'
  BY <1>1, <1>2, <1>3 DEF Place, AuthSteps, Stands
<1>6. TypeOK'
  BY <1>0, <1>1, <1>2, <1>4 DEF TypeOK
<1>7. TokenInv'
  BY <1>0, <1>1, <1>3, IdleFacts, TokensStand
<1>8. KeepsFields /\ KeepsAccounts
  BY <1>1 DEF KeepsFields, KeepsShape, KeepsAccounts
<1>9. Own'
  BY <1>0, <1>1, <1>8, IdleFacts, OwnStands
<1>10. \A g \in Fields : Labelled(g)'
  BY <1>0, <1>1, <1>8, IdleFacts, LabelsStand
<1>11. RunInv' /\ Login'
  BY <1>3 DEF RunInv, Forecast, StatusPredictsTheRun, Login, At
<1> QED BY <1>5, <1>6, <1>7, <1>9, <1>10, <1>11 DEF IInv, Label

LEMMA SyncKeeps ==
  ASSUME IInv, NEW targets \in Seq(Fields), \A i \in 1 .. Len(targets) : config[targets[i]] # None,
         Sync(targets)
  PROVE  IInv'
<1>0. TypeOK /\ Place /\ TokenInv /\ Own /\ Label
  BY DEF IInv
<1>1. PICK o \in OptionChoices :
        Start([Idle EXCEPT !.op = "sync", !.at = "field", !.options = o,
                           !.todo = [i \in 1 .. Len(targets) |-> <<targets[i], config[targets[i]]>>]])
  BY DEF Sync
<1>2. PICK todo : todo = [i \in 1 .. Len(targets) |-> <<targets[i], config[targets[i]]>>]
  OBVIOUS
<1>3. /\ cmd = Idle /\ commands < MaxCommands /\ commands' = commands + 1 /\ targets # <<>>
      /\ cmd' = [Idle EXCEPT !.op = "sync", !.at = "field", !.options = o, !.todo = todo]
      /\ UNCHANGED <<config, cursor, status, staging, build, keychain, variable, live, mislaid, faults, leftover>>
  BY <1>1, <1>2 DEF Sync, Start, tokens, files
<1>4. \A i \in 1 .. Len(targets) : targets[i] \in Fields /\ config[targets[i]] \in Configs
  BY <1>0 DEF TypeOK
<1>5. /\ todo \in Seq(Fields \X Configs) /\ Len(todo) = Len(targets) /\ todo # <<>>
      /\ \A i \in 1 .. Len(todo) : todo[i][1] = targets[i] /\ todo[i][2] = config[targets[i]]
  <2>1. todo \in [1 .. Len(targets) -> Fields \X Configs] /\ Len(targets) \in Nat /\ Len(targets) > 0
    BY <1>2, <1>3, <1>4
  <2>2. todo \in Seq(Fields \X Configs) /\ Len(todo) = Len(targets)
    BY <2>1
  <2>3. todo # <<>>
    BY <2>1, <2>2
  <2> QED BY <1>2, <2>2, <2>3
<1>6. commands \in Nat /\ commands' \in 0 .. MaxCommands
  BY <1>0, <1>3, AdminAssumption DEF TypeOK
<1>7. cmd'.op = "sync" /\ cmd'.at = "field" /\ cmd'.todo = todo /\ cmd'.secret = None
  BY <1>3 DEF Idle
<1>8. cmd' \in CommandStates
  BY <1>3, <1>5, IdleIsTyped DEF CommandStates
<1>9. Place'
  <2>1. \A i \in 1 .. Len(todo) : Stands(todo[i][1], todo[i][2])'
    BY <1>3, <1>4, <1>5 DEF Stands
  <2> QED BY <1>5, <1>7, <2>1 DEF Place
<1>10. TypeOK'
  BY <1>0, <1>3, <1>6, <1>8 DEF TypeOK
<1>11. Resting
  BY <1>7 DEF Resting
<1>12. TokenInv'
  BY <1>0, <1>3, <1>7, IdleFacts, TokensStand
<1>13. KeepsFields /\ KeepsAccounts
  BY <1>3 DEF KeepsFields, KeepsShape, KeepsAccounts
<1>14. Own'
  BY <1>0, <1>3, <1>13, IdleFacts, OwnStands
<1>15. \A g \in Fields : Labelled(g)'
  BY <1>0, <1>3, <1>13, IdleFacts, LabelsStand
<1> QED BY <1>9, <1>10, <1>11, <1>12, <1>14, <1>15, RestingRuns DEF IInv, Label

LEMMA SyncAllKeeps ==
  ASSUME IInv, SyncAll
  PROVE  IInv'
<1> DEFINE Due == {i \in 1 .. Len(FieldIds) :
                     config[FieldIds[i]] # None /\ config[FieldIds[i]].enabled}
<1>1. PICK order \in [1 .. Cardinality(Due) -> Due] :
        Sync([i \in DOMAIN order |-> FieldIds[order[i]]])
  BY DEF SyncAll
<1>2. \A i \in Due : FieldIds[i] \in Fields /\ config[FieldIds[i]] # None
  BY DEF Fields
<1>3. PICK targets : targets = [i \in DOMAIN order |-> FieldIds[order[i]]]
  OBVIOUS
<1>4. Cardinality(Due) \in Nat
  <2>1. Len(FieldIds) \in Nat
    BY AdminAssumption
  <2>2. IsFiniteSet(1 .. Len(FieldIds))
    BY <2>1, FS_Interval
  <2>3. IsFiniteSet(Due)
    BY <2>2, FS_Subset
  <2> QED BY <2>3, FS_CardinalityType
<1> HIDE DEF Due
<1>5. /\ targets \in Seq(Fields) /\ Len(targets) = Cardinality(Due)
      /\ \A i \in 1 .. Len(targets) : config[targets[i]] # None
  BY <1>1, <1>2, <1>3, <1>4
<1> QED BY <1>1, <1>3, <1>5, SyncKeeps

-----------------------------------------------------------------------------
(* The steps of a removal and of a login *)

LEMMA RemoveSyncStateKeeps ==
  ASSUME IInv, RemoveSyncState
  PROVE  IInv'
<1>0. TypeOK /\ Place /\ TokenInv /\ Own /\ Label
  BY DEF IInv
<1>1. /\ cmd.op = "remove" /\ RemovesOneThing
      /\ leftover' = {f \in leftover : cursor'[f] # None}
      /\ UNCHANGED <<config, build, keychain, variable, live, mislaid, commands, faults>>
  BY DEF RemoveSyncState, tokens
<1>2. cmd.at \in RemoveSteps /\ cmd.field \in Fields /\ cmd.secret = None
  BY <1>0, <1>1 DEF Place, RemoveSteps
<1>3. \/ cmd.at = "cursor" /\ cmd' = [cmd EXCEPT !.at = "status"]
      \/ cmd.at = "status" /\ cmd' = [cmd EXCEPT !.at = "staging"]
      \/ cmd.at = "staging" /\ cmd' = Idle
  BY <1>2 DEF RemoveSyncState, Goto, End, RemoveSteps
<1>4. /\ cursor' \in [Fields -> Cursors \cup {None}]
      /\ status' \in [Fields -> [account : Accounts \cup {None}] \cup {None}]
      /\ staging' \subseteq Fields
  BY <1>0, <1>1, <1>2 DEF RemovesOneThing, TypeOK
<1>5. KeepsFields /\ KeepsAccounts /\ KeepsShape
  BY <1>1 DEF KeepsFields, KeepsShape, KeepsAccounts
<1>6. cmd' \in CommandStates /\ cmd'.secret = None /\ cmd'.at \notin {"store", "rotate", "account"}
      /\ Place' /\ cmd'.op \in {"none", "remove"}
  <2>1. CASE cmd' = Idle
    BY <1>0, <1>5, <2>1, Rests DEF Resting, Idle
  <2>2. ASSUME NEW step \in {"status", "staging"}, cmd' = [cmd EXCEPT !.at = step]
        PROVE  /\ cmd' \in CommandStates /\ cmd'.secret = None
               /\ cmd'.at \notin {"store", "rotate", "account"}
               /\ Place' /\ cmd'.op = "remove"
    <3>1. cmd \in CommandStates
      BY <1>0 DEF TypeOK
    <3>2. /\ cmd' \in CommandStates /\ cmd'.secret = None /\ cmd'.at = step /\ cmd'.op = "remove"
          /\ cmd'.field = cmd.field /\ cmd'.todo = cmd.todo
      BY <1>1, <1>2, <2>2, <3>1 DEF CommandStates
    <3>3. \A i \in 1 .. Len(cmd.todo) : Stands(cmd.todo[i][1], cmd.todo[i][2])
      BY <1>0 DEF Place
    <3>4. \A i \in 1 .. Len(cmd'.todo) : Stands(cmd.todo[i][1], cmd.todo[i][2])'
      BY <1>1, <3>2, <3>3 DEF Stands
    <3>5. Place'
      BY <1>2, <2>2, <3>2, <3>4 DEF Place, RemoveSteps
    <3> QED BY <3>2, <3>5
  <2> QED BY <1>3, <2>1, <2>2
<1>7. TypeOK'
  BY <1>0, <1>1, <1>4, <1>6 DEF TypeOK
<1>8. TokenInv'
  BY <1>0, <1>1, <1>2, <1>6, TokensStand DEF RemoveSteps
<1>9. \A f \in Fields : Labelled(f)'
  BY <1>0, <1>1, <1>2, <1>5, LabelsStand DEF RemoveSteps
<1>10. RunInv' /\ Login'
  BY <1>6 DEF RunInv, Forecast, StatusPredictsTheRun, Login, At
<1>11. Own'
  <2>1. CASE cmd.at = "cursor"
    <3>1. \A f \in Fields : cursor'[f] = IF f = cmd.field THEN None ELSE cursor[f]
      BY <1>0, <1>1, <2>1 DEF RemovesOneThing, At, TypeOK
    <3>2. CursorIsOwn'
      BY <1>0, <1>1, <3>1 DEF Own, CursorIsOwn
    <3>3. \A f \in Fields : config[f] = None /\ cursor'[f] # None => f \in leftover'
      BY <1>0, <1>1, <3>1 DEF Own
    <3> QED BY <1>1, <3>2, <3>3 DEF Own
  <2>2. CASE cmd.at # "cursor"
    <3>1. cursor' = cursor /\ ~ At("remove", "cursor")
      BY <1>1, <2>2 DEF RemovesOneThing, At
    <3>2. CursorIsOwn'
      BY <1>0, <1>1, <3>1 DEF Own, CursorIsOwn
    <3>3. \A f \in Fields : config[f] = None /\ cursor'[f] # None => f \in leftover'
      BY <1>0, <1>1, <3>1 DEF Own
    <3> QED BY <1>1, <3>2, <3>3 DEF Own
  <2> QED BY <2>1, <2>2
<1> QED BY <1>6, <1>7, <1>8, <1>9, <1>10, <1>11 DEF IInv, Label

\* A manifest that is recorded changes nothing else of a configuration.
LEMMA RecordFacts ==
  ASSUME TypeOK, NEW f \in Fields, NEW m \in Manifests, config[f] # None, Record(f, m)
  PROVE  /\ config' \in [Fields -> Configs \cup {None}]
         /\ config'[f] = [config[f] EXCEPT !.manifest = m] /\ config'[f] \in Configs
         /\ config'[f].manifest = m
         /\ \A g \in Fields \ {f} : config'[g] = config[g]
         /\ KeepsFields /\ KeepsAccounts
<1>1. config[f] \in Configs /\ config \in [Fields -> Configs \cup {None}]
  BY DEF TypeOK
<1>2. config'[f] = [config[f] EXCEPT !.manifest = m]
      /\ \A g \in Fields \ {f} : config'[g] = config[g]
  BY <1>1 DEF Record
<1>3. /\ config'[f] \in Configs /\ config'[f].manifest = m
      /\ config'[f].settings = config[f].settings /\ config'[f].life = config[f].life
      /\ config'[f].account = config[f].account
  BY <1>1, <1>2 DEF Configs
<1>4. config' \in [Fields -> Configs \cup {None}]
  BY <1>1, <1>2, <1>3 DEF Record
<1>5. config'[f] # None
  BY <1>3, NothingAssumption
<1>6. KeepsShape
  BY <1>2, <1>3, <1>5 DEF KeepsShape
<1>7. KeepsFields
  BY <1>2, <1>6 DEF KeepsFields
<1>8. KeepsAccounts
  BY <1>2, <1>3 DEF KeepsAccounts
<1> QED BY <1>2, <1>3, <1>4, <1>7, <1>8

LEMMA DescribeForAuthKeeps ==
  ASSUME IInv, DescribeForAuth
  PROVE  IInv'
<1>0. TypeOK /\ Place /\ TokenInv /\ Own /\ Label
  BY DEF IInv
<1>1. PICK f, m : f = cmd.field /\ m = build[f]
  OBVIOUS
<1>2. /\ cmd.op = "auth" /\ cmd.at = "describe"
      /\ UNCHANGED <<cursor, status, staging, build, keychain, variable, live, mislaid, commands, faults, leftover>>
  BY DEF DescribeForAuth, At, tokens
<1>3. Stands(f, cmd.was) /\ f \in Fields /\ m \in Manifests /\ cmd.secret = None
  BY <1>0, <1>1, <1>2 DEF Place, Stands, TypeOK
<1>4. CASE DescribeAgrees(f, m)
  <2>1. Record(f, m) /\ cmd' = [cmd EXCEPT !.at = "authorize", !.manifest = m]
    BY <1>1, <1>4 DEF DescribeForAuth
  <2>2. /\ config' \in [Fields -> Configs \cup {None}]
        /\ KeepsFields /\ KeepsAccounts /\ KeepsShape
    BY <1>0, <1>3, <2>1, RecordFacts DEF Stands, KeepsFields
  <2>3. /\ cmd' \in CommandStates /\ cmd'.at = "authorize" /\ cmd'.op = "auth"
        /\ cmd'.field = cmd.field /\ cmd'.was = cmd.was /\ cmd'.todo = cmd.todo
        /\ cmd'.secret = None
    <3>1. cmd \in CommandStates
      BY <1>0 DEF TypeOK
    <3>2. m \in SomeManifest /\ "authorize" \in Ats
      BY <1>3 DEF SomeManifest, Ats
    <3> QED BY <1>2, <1>3, <2>1, <3>1, <3>2, CommandFields
  <2>4. TypeOK'
    BY <1>0, <1>2, <2>2, <2>3 DEF TypeOK
  <2>5. Place'
    BY <1>0, <1>2, <2>2, <2>3, Proceeds DEF AuthSteps
  <2>6. TokenInv'
    BY <1>0, <1>2, <2>3, TokensStand
  <2>7. Own'
    BY <1>0, <1>2, <2>2, OwnStands DEF At
  <2>8. \A g \in Fields : Labelled(g)'
    BY <1>0, <1>2, <2>2, LabelsStand
  <2>9. RunInv' /\ Login'
    BY <2>3 DEF RunInv, Forecast, StatusPredictsTheRun, Login, At
  <2> QED BY <2>4, <2>5, <2>6, <2>7, <2>8, <2>9 DEF IInv, Label
<1>5. CASE ~ DescribeAgrees(f, m)
  <2>1. cmd' = Idle /\ UNCHANGED config
    BY <1>1, <1>5 DEF DescribeForAuth, End
  <2>2. cmd' \in CommandStates /\ Place' /\ TokenInv' /\ Own' /\ Label' /\ RunInv'
    BY <1>2, <2>1, RestKeeps DEF At
  <2>3. TypeOK'
    BY <1>0, <1>2, <2>1, <2>2 DEF TypeOK
  <2> QED BY <2>2, <2>3 DEF IInv
<1> QED BY <1>4, <1>5

\* A new token is in nobody's hand yet.
LEMMA FreshKeepsDistinct ==
  ASSUME TypeOK, Place, Distinct, cmd.secret = None, NEW t, t \notin Taken, t # None,
         cmd'.secret = t, live' \subseteq live \cup {t}, UNCHANGED <<keychain, variable>>
  PROVE  Distinct'
<1>1. t # variable /\ \A p \in Profiles : keychain[p] # t
  BY DEF Taken
<1>2. IsFiniteSet(Taken')
  <2>1. IsFiniteSet(Taken \cup {t})
    BY FS_AddElement DEF Distinct
  <2>2. Taken' \subseteq Taken \cup {t}
    BY DEF Taken
  <2> QED BY <2>1, <2>2, FS_Subset
<1> QED BY <1>1, <1>2 DEF Distinct

LEMMA AuthorizeKeeps ==
  ASSUME IInv, Authorize
  PROVE  IInv'
<1>0. TypeOK /\ Place /\ TokenInv /\ Own /\ Label
  BY DEF IInv
<1>1. /\ cmd.op = "auth" /\ cmd.at = "authorize"
      /\ UNCHANGED <<config, cursor, status, staging, build, keychain, variable, mislaid, commands, faults, leftover>>
  BY DEF Authorize, At, files
<1>2. cmd.secret = None /\ cmd.field \in Fields /\ cmd \in CommandStates
  BY <1>0, <1>1 DEF Place, Stands, TypeOK
<1>3. CASE cmd' = Idle /\ UNCHANGED live
  <2>1. cmd' \in CommandStates /\ Place' /\ TokenInv' /\ Own' /\ Label' /\ RunInv'
    BY <1>1, <1>3, RestKeeps DEF At
  <2>2. TypeOK'
    BY <1>0, <1>1, <1>3, <2>1 DEF TypeOK
  <2> QED BY <2>1, <2>2 DEF IInv
<1>4. ASSUME NEW owner \in Accounts, NEW usable_claim \in BOOLEAN,
             MayAuthorize(cmd.was.settings, cmd.manifest),
             live' = live \cup {Fresh(owner, cmd.field)},
             cmd' = [cmd EXCEPT !.at = "store", !.secret = Fresh(owner, cmd.field),
                                !.account = AccountOf(owner, usable_claim)]
      PROVE  IInv'
  <2>1. PICK t \in Tokens : /\ t = Fresh(owner, cmd.field)
                            /\ t \notin Taken /\ t # None /\ t.owner = owner /\ t.by = cmd.field
    BY <1>0, <1>2, FreshIsNew DEF TokenInv, Distinct
  <2>2. PICK account \in {None, owner} : account = AccountOf(owner, usable_claim)
    BY DEF AccountOf
  <2>3. /\ cmd' \in CommandStates /\ cmd'.at = "store" /\ cmd'.op = "auth" /\ cmd'.secret = t
        /\ cmd'.account = account /\ cmd'.field = cmd.field /\ cmd'.was = cmd.was
        /\ cmd'.todo = cmd.todo
    <3>1. cmd' = [cmd EXCEPT !.at = "store", !.secret = t, !.account = account]
      BY <1>4, <2>1, <2>2
    <3>2. t \in SomeToken /\ account \in SomeAccount /\ "store" \in Ats
      BY DEF SomeToken, SomeAccount, Ats
    <3> QED BY <1>1, <1>2, <3>1, <3>2, CommandFields
  <2>4. live' = live \cup {t}
    BY <1>4, <2>1
  <2>5. TypeOK'
    BY <1>0, <1>1, <2>1, <2>3, <2>4 DEF TypeOK
  <2>6. KeepsFields /\ KeepsAccounts /\ KeepsShape
    BY <1>1 DEF KeepsFields, KeepsShape, KeepsAccounts
  <2>7. Place'
    BY <1>0, <1>1, <2>1, <2>3, <2>6, Proceeds DEF AuthSteps
  <2>8. Distinct'
    BY <1>0, <1>1, <1>2, <2>1, <2>3, <2>4, FreshKeepsDistinct DEF TokenInv
  <2>9. Usable' /\ Rotation'
    BY <1>0, <1>1, <2>3, <2>4 DEF TokenInv, Usable, Rotation
  <2>10. Own'
    BY <1>0, <1>1, <2>6, OwnStands DEF At
  <2>11. \A g \in Fields : Labelled(g)'
    BY <1>0, <1>1, <2>6, LabelsStand
  <2>12. CanStore(cmd.was.settings)
    BY <1>4 DEF MayAuthorize
  <2>13. RunInv' /\ Login'
    BY <2>1, <2>2, <2>3, <2>12 DEF RunInv, Forecast, StatusPredictsTheRun, Login, At
  <2> QED BY <2>5, <2>7, <2>8, <2>9, <2>10, <2>11, <2>13 DEF IInv, TokenInv, Label
<1> QED BY <1>1, <1>3, <1>4 DEF Authorize, End

\* A token that is stored is no longer in hand.
LEMMA StoredKeepsDistinct ==
  ASSUME TypeOK, Distinct, NEW t, t = cmd.secret, t # None, NEW p \in Profiles,
         keychain' = [keychain EXCEPT ![p] = t], cmd'.secret = None, UNCHANGED <<variable, live>>
  PROVE  Distinct'
<1>1. \A q \in Profiles : keychain'[q] = IF q = p THEN t ELSE keychain[q]
  BY DEF TypeOK
<1>2. t # variable /\ \A q \in Profiles : keychain[q] # t
  BY DEF Distinct
<1>3. \A q, r \in Profiles : keychain[q] # None /\ keychain[q] = keychain[r] => q = r
  BY DEF Distinct
<1>4. \A q, r \in Profiles : keychain'[q] # None /\ keychain'[q] = keychain'[r] => q = r
  BY <1>1, <1>2, <1>3
<1>5. \A q \in Profiles : keychain'[q] # None => keychain'[q] # variable
  BY <1>1, <1>2 DEF Distinct
<1>6. IsFiniteSet(Taken')
  <2>1. IsFiniteSet(Taken \cup {None})
    BY FS_AddElement DEF Distinct
  <2>2. \A q \in Profiles : keychain'[q] \in Taken
    BY <1>1 DEF Taken
  <2>3. Taken' \subseteq Taken \cup {None}
    BY <2>2 DEF Taken
  <2> QED BY <2>1, <2>3, FS_Subset
<1> QED BY <1>4, <1>5, <1>6 DEF Distinct

LEMMA StoreAuthorizedKeeps ==
  ASSUME IInv, StoreAuthorized
  PROVE  IInv'
<1>0. TypeOK /\ Place /\ TokenInv /\ Own /\ Label
  BY DEF IInv
<1>1. PICK p : p = cmd.was.settings.profile
  OBVIOUS
<1>2. PICK t : t = cmd.secret
  OBVIOUS
<1>3. /\ cmd.op = "auth" /\ cmd.at = "store" /\ keychain' = [keychain EXCEPT ![p] = t]
      /\ mislaid' = IF t \in live THEN mislaid \ {p} ELSE mislaid \cup {p}
      /\ cmd' = [cmd EXCEPT !.at = "account", !.secret = None]
      /\ UNCHANGED <<config, cursor, status, staging, build, variable, live, commands, faults, leftover>>
  BY <1>1, <1>2 DEF StoreAuthorized, At, files
<1>4. /\ p \in Profiles /\ t \in Tokens /\ t # None /\ Stands(cmd.field, cmd.was)
      /\ cmd \in CommandStates
  <2>1. cmd.secret # None /\ SettingsResolve(cmd.was.settings) /\ Stands(cmd.field, cmd.was)
    BY <1>0, <1>3 DEF Place
  <2>2. cmd \in CommandStates /\ cmd.secret \in Tokens \cup {None}
    BY <1>0 DEF TypeOK, CommandStates
  <2> QED BY <1>1, <1>2, <2>1, <2>2 DEF SettingsResolve
<1>5. \A q \in Profiles : keychain'[q] = IF q = p THEN t ELSE keychain[q]
  BY <1>0, <1>3 DEF TypeOK
<1>6. /\ cmd' \in CommandStates /\ cmd'.at = "account" /\ cmd'.op = "auth" /\ cmd'.secret = None
      /\ cmd'.field = cmd.field /\ cmd'.was = cmd.was /\ cmd'.todo = cmd.todo
      /\ cmd'.account = cmd.account
  BY <1>3, <1>4 DEF CommandStates
<1>7. TypeOK'
  BY <1>0, <1>3, <1>4, <1>6 DEF TypeOK
<1>8. KeepsFields /\ KeepsShape
  BY <1>3 DEF KeepsFields, KeepsShape
<1>9. Place'
  BY <1>0, <1>3, <1>6, <1>8, Proceeds DEF AuthSteps
<1>10. Distinct'
  BY <1>0, <1>2, <1>3, <1>4, <1>6, StoredKeepsDistinct DEF TokenInv
<1>11. Usable'
  <2>1. ASSUME NEW q \in Profiles, keychain'[q] # None, keychain'[q] \notin live'
        PROVE  q \in mislaid'
    BY <1>0, <1>3, <1>5, <2>1 DEF TokenInv, Usable
  <2> QED BY <1>6, <2>1 DEF Usable
<1>12. Own'
  BY <1>0, <1>3, <1>8, OwnStands DEF At
<1>13. \A f \in Fields : Labelled(f)'
  <2> SUFFICES ASSUME NEW f \in Fields PROVE Labelled(f)'
    OBVIOUS
  <2>1. CASE f = cmd.field
    <3>1. config[f] # None /\ config[f].settings = cmd.was.settings
      BY <1>4, <2>1 DEF Stands
    <3>2. SettingsResolve(cmd.was.settings)
      BY <1>0, <1>3 DEF Place
    <3> QED BY <1>3, <1>6, <2>1, <3>1, <3>2 DEF Labelled
  <2>2. CASE f # cmd.field
    <3>1. t.by = cmd.field
      BY <1>0, <1>2, <1>3 DEF Label, Login
    <3>2. Labelled(f)
      BY <1>0 DEF Label
    <3>3. CASE config[f] # None /\ config[f].account # None
      <4>1. PICK s : s = config[f].settings
        OBVIOUS
      <4>2. SettingsResolve(s) /\ s.profile \in Profiles
        BY <3>2, <3>3, <4>1 DEF Labelled, SettingsResolve
      <4>3. ASSUME CanStore(s), keychain'[s.profile] # None, keychain'[s.profile].by = f
            PROVE  keychain'[s.profile].owner = config[f].account \/ s.profile \in mislaid'
        <5>1. s.profile # p /\ keychain'[s.profile] = keychain[s.profile]
          BY <1>5, <2>2, <3>1, <4>2, <4>3
        <5>2. keychain[s.profile].owner = config[f].account \/ s.profile \in mislaid
          BY <2>2, <3>2, <3>3, <4>1, <4>3, <5>1 DEF Labelled
        <5> QED BY <1>3, <5>1, <5>2
      <4> QED BY <1>3, <4>1, <4>2, <4>3 DEF Labelled
    <3>4. CASE ~ (config[f] # None /\ config[f].account # None)
      BY <1>3, <3>4 DEF Labelled
    <3> QED BY <3>3, <3>4
  <2> QED BY <2>1, <2>2
<1>14. Login'
  <2>1. keychain'[p] = t /\ cmd'.was.settings.profile = p
    BY <1>1, <1>4, <1>5, <1>6
  <2>2. CanStore(cmd.was.settings) /\ t.by = cmd.field /\ cmd.account \in {None, t.owner}
    BY <1>0, <1>2, <1>3 DEF Label, Login
  <2> QED BY <1>4, <1>6, <2>1, <2>2 DEF Login
<1>15. Rotation' /\ RunInv'
  BY <1>6 DEF Rotation, RunInv, Forecast, StatusPredictsTheRun, At
<1> QED BY <1>7, <1>9, <1>10, <1>11, <1>12, <1>13, <1>14, <1>15 DEF IInv, TokenInv, Label

LEMMA RecordAccountKeeps ==
  ASSUME IInv, RecordAccount
  PROVE  IInv'
<1>0. TypeOK /\ Place /\ TokenInv /\ Own /\ Label
  BY DEF IInv
<1>1. PICK f : f = cmd.field
  OBVIOUS
<1>2. /\ cmd.op = "auth" /\ cmd.at = "account" /\ cmd' = Idle
      /\ config' = [config EXCEPT ![f].account = cmd.account]
      /\ UNCHANGED <<cursor, status, staging, build, keychain, variable, live, mislaid, commands, faults, leftover>>
  BY <1>1 DEF RecordAccount, Recorded, At, End, tokens
<1>3. /\ Stands(f, cmd.was) /\ f \in Fields /\ config[f] \in Configs
      /\ cmd.account \in Accounts \cup {None} /\ SettingsResolve(cmd.was.settings)
  BY <1>0, <1>1, <1>2 DEF Place, Stands, TypeOK, CommandStates
<1>4. /\ config'[f] = [config[f] EXCEPT !.account = cmd.account]
      /\ \A g \in Fields \ {f} : config'[g] = config[g]
  BY <1>0, <1>2, <1>3 DEF TypeOK
<1>5. /\ config'[f] \in Configs /\ config'[f].account = cmd.account
      /\ config'[f].settings = config[f].settings /\ config'[f].life = config[f].life
  BY <1>3, <1>4 DEF Configs
<1>6. config' \in [Fields -> Configs \cup {None}]
  BY <1>0, <1>2, <1>4, <1>5 DEF TypeOK
<1>7. KeepsFields /\ KeepsShape
  BY <1>3, <1>4, <1>5, NothingAssumption DEF KeepsFields, KeepsShape, Stands
<1>8. cmd' \in CommandStates /\ Place' /\ Resting
  BY <1>0, <1>2, <1>7, Rests
<1>9. TypeOK'
  BY <1>0, <1>2, <1>6, <1>8 DEF TypeOK
<1>10. TokenInv'
  BY <1>0, <1>2, <1>8, TokensStand DEF Resting
<1>11. Own'
  BY <1>0, <1>2, <1>7, OwnStands DEF At
<1>12. ASSUME NEW g \in Fields PROVE Labelled(g)'
  <2>1. CASE g = f
    <3>1. config'[f].settings = cmd.was.settings /\ config'[f].account = cmd.account
      BY <1>3, <1>5 DEF Stands
    <3>2. keychain[cmd.was.settings.profile].owner = cmd.account \/ cmd.account = None
      BY <1>0, <1>2 DEF Label, Login
    <3> QED BY <1>2, <1>3, <2>1, <3>1, <3>2 DEF Labelled
  <2>2. CASE g # f
    <3>1. config'[g] = config[g]
      BY <1>4, <2>2
    <3> QED BY <1>0, <1>1, <1>2, <2>2, <3>1 DEF Label, Labelled
  <2> QED BY <2>1, <2>2
<1> QED BY <1>8, <1>9, <1>10, <1>11, <1>12, RestingRuns DEF IInv, Label

-----------------------------------------------------------------------------
(* The steps of a run *)

\* What `fields status` says, as far as the run depends on it.
LEMMA StatusFacts ==
  ASSUME TypeOK, NEW f \in Fields, NEW c, Stands(f, c)
  PROVE  LET said == FieldStatus(f) IN
         /\ said \in Forecasts
         /\ said.cursor_present <=> cursor[f] # None
         /\ said.manifest_present <=> config[f].manifest # None
         /\ said.manifest_present => (said.resumes <=> ResumesWith(f, config[f].manifest))
         /\ said.credential = "absent" =>
              Declares(c.settings) /\ Held(c.settings, keychain, variable) = None
<1>1. PICK s : s = config[f].settings /\ s = c.settings
  BY DEF Stands
<1>2. PICK credential : credential = CredentialState(s, Needed(config[f]), keychain, variable)
  OBVIOUS
<1>3. /\ credential \in {"not_required", "not_configured", "absent", "stored"}
      /\ credential = "absent" => Declares(s) /\ Held(s, keychain, variable) = None
  BY <1>2 DEF CredentialState, Retrieved
<1>4. PICK resumes \in BOOLEAN :
        resumes = (/\ cursor[f] # None /\ config[f].manifest # None
                   /\ cursor[f].format = config[f].manifest.format)
  OBVIOUS
<1>5. PICK present, described \in BOOLEAN :
        present = (cursor[f] # None) /\ described = (config[f].manifest # None)
  OBVIOUS
<1>6. FieldStatus(f) = [cursor_present |-> present, resumes |-> resumes,
                        manifest_present |-> described, credential |-> credential]
  BY <1>1, <1>2, <1>4, <1>5 DEF FieldStatus
<1>7. FieldStatus(f) \in Forecasts
  BY <1>3, <1>6 DEF Forecasts
<1>8. /\ FieldStatus(f).cursor_present <=> cursor[f] # None
      /\ FieldStatus(f).manifest_present <=> config[f].manifest # None
      /\ FieldStatus(f).resumes <=> resumes
      /\ FieldStatus(f).credential = credential
  <2>1. /\ FieldStatus(f).cursor_present = present /\ FieldStatus(f).resumes = resumes
        /\ FieldStatus(f).manifest_present = described /\ FieldStatus(f).credential = credential
    BY ONLY <1>6
  <2> QED BY <1>5, <2>1
<1> QED BY <1>1, <1>3, <1>4, <1>7, <1>8 DEF ResumesWith

\* The Fields after the first one are still as they were configured.
LEMMA RestStands ==
  ASSUME TypeOK, Place, UNCHANGED config, NEW todo, todo = cmd.todo, todo # <<>>,
         NEW rest, rest = Tail(todo)
  PROVE  /\ todo[1] \in Fields \X Configs /\ Stands(todo[1][1], todo[1][2])'
         /\ rest \in Seq(Fields \X Configs)
         /\ \A i \in 1 .. Len(rest) : Stands(rest[i][1], rest[i][2])'
<1>1. todo \in Seq(Fields \X Configs)
  BY DEF TypeOK, CommandStates
<1>2. Len(todo) \in Nat /\ Len(todo) > 0 /\ todo[1] \in Fields \X Configs
  BY <1>1
<1>4. /\ rest \in Seq(Fields \X Configs) /\ Len(rest) = Len(todo) - 1
      /\ \A i \in 1 .. Len(rest) : rest[i] = todo[i + 1] /\ i + 1 \in 1 .. Len(todo)
  BY <1>1, <1>2
<1>5. \A i \in 1 .. Len(todo) : Stands(todo[i][1], todo[i][2])'
  BY <1>1 DEF Place, Stands
<1>6. \A i \in 1 .. Len(rest) : Stands(rest[i][1], rest[i][2])'
  BY <1>4, <1>5 DEF Stands
<1>7. Stands(todo[1][1], todo[1][2])'
  BY <1>2, <1>5
<1> QED BY <1>2, <1>4, <1>6, <1>7

LEMMA RunFieldKeeps ==
  ASSUME IInv, RunField
  PROVE  IInv'
<1>0. TypeOK /\ Place /\ TokenInv /\ Own /\ Label
  BY DEF IInv
<1>1. PICK f, c, rest : f = cmd.todo[1][1] /\ c = cmd.todo[1][2] /\ rest = Tail(cmd.todo)
  OBVIOUS
<1>2. /\ cmd.op = "sync" /\ cmd.at = "field"
      /\ cmd' = IF c.enabled
                THEN [cmd EXCEPT !.at = "mint", !.todo = rest, !.field = f, !.was = c,
                                 !.forecast = FieldStatus(f)]
                ELSE IF rest = <<>> THEN Idle ELSE [cmd EXCEPT !.todo = rest]
      /\ UNCHANGED <<config, cursor, status, staging, build, keychain, variable, live, mislaid,
                     commands, faults, leftover>>
  BY <1>1 DEF RunField, At, files, tokens
<1>3. cmd.secret = None /\ cmd.todo # <<>> /\ cmd \in CommandStates
  BY <1>0, <1>2 DEF Place, RunSteps, TypeOK
<1>4. /\ f \in Fields /\ c \in Configs /\ Stands(f, c)' /\ rest \in Seq(Fields \X Configs)
      /\ \A i \in 1 .. Len(rest) : Stands(rest[i][1], rest[i][2])'
  <2>1. PICK todo : todo = cmd.todo
    OBVIOUS
  <2>2. f = todo[1][1] /\ c = todo[1][2] /\ rest = Tail(todo)
    BY <1>1, <2>1
  <2>3. /\ todo[1] \in Fields \X Configs /\ Stands(todo[1][1], todo[1][2])'
        /\ rest \in Seq(Fields \X Configs)
        /\ \A i \in 1 .. Len(rest) : Stands(rest[i][1], rest[i][2])'
    BY <1>0, <1>2, <1>3, <2>1, <2>2, RestStands
  <2> QED BY <2>2, <2>3
<1>5. KeepsFields /\ KeepsAccounts
  BY <1>2 DEF KeepsFields, KeepsShape, KeepsAccounts
<1>6. Own' /\ \A g \in Fields : Labelled(g)'
  <2>1. Own'
    BY <1>0, <1>2, <1>5, OwnStands DEF At
  <2>2. \A g \in Fields : Labelled(g)'
    BY <1>0, <1>2, <1>5, LabelsStand
  <2> QED BY <2>1, <2>2
<1>7. CASE c.enabled
  <2>1. PICK said : said = FieldStatus(f)
    OBVIOUS
  <2>2. Stands(f, c)
    BY <1>2, <1>4 DEF Stands
  <2>3. said \in Forecasts
    BY <1>0, <1>4, <2>1, <2>2, StatusFacts
  <2>4. cmd' = [cmd EXCEPT !.at = "mint", !.todo = rest, !.field = f, !.was = c, !.forecast = said]
    BY <1>2, <1>7, <2>1
  <2>5. /\ cmd' \in CommandStates /\ cmd'.at = "mint" /\ cmd'.op = "sync" /\ cmd'.todo = rest
        /\ cmd'.field = f /\ cmd'.was = c /\ cmd'.forecast = said /\ cmd'.secret = None
    <3>1. /\ "mint" \in Ats /\ rest \in Todos /\ f \in SomeField /\ c \in SomeConfig
      BY <1>4 DEF Ats, Todos, SomeField, SomeConfig
    <3> QED BY <1>2, <1>3, <2>3, <2>4, <3>1, CommandFields
  <2>6. TypeOK'
    BY <1>0, <1>2, <2>5 DEF TypeOK
  <2>7. Place'
    BY <1>4, <2>5 DEF Place, RunSteps
  <2>8. TokenInv'
    BY <1>0, <1>2, <2>5, TokensStand
  <2>9. Forecast'
    <3>1. /\ said.cursor_present <=> cursor'[f] # None
          /\ said.manifest_present <=> config'[f].manifest # None
          /\ said.manifest_present => (said.resumes <=> ResumesWith(f, config[f].manifest)')
          /\ said.credential = "absent" =>
               Declares(c.settings) /\ Held(c.settings, keychain, variable) = None
      BY <1>0, <1>2, <1>4, <2>1, <2>2, StatusFacts DEF ResumesWith
    <3>2. InHand' = Held(c.settings, keychain, variable)
      BY <1>2, <2>5 DEF InHand
    <3> QED BY <2>5, <3>1, <3>2 DEF Forecast, ResumesWith
  <2>10. StatusPredictsTheRun' /\ Login'
    BY <2>5 DEF StatusPredictsTheRun, Login, At
  <2> QED BY <1>6, <2>6, <2>7, <2>8, <2>9, <2>10 DEF IInv, RunInv, Label
<1>8. CASE ~ c.enabled /\ rest = <<>>
  <2>1. cmd' = Idle
    BY <1>2, <1>8
  <2>2. cmd' \in CommandStates /\ Place' /\ TokenInv' /\ Own' /\ Label' /\ RunInv'
    BY <1>2, <2>1, RestKeeps DEF At
  <2>3. TypeOK'
    BY <1>0, <1>2, <2>2 DEF TypeOK
  <2> QED BY <2>2, <2>3 DEF IInv
<1>9. CASE ~ c.enabled /\ rest # <<>>
  <2>1. cmd' = [cmd EXCEPT !.todo = rest]
    BY <1>2, <1>9
  <2>2. /\ cmd' \in CommandStates /\ cmd'.at = "field" /\ cmd'.op = "sync" /\ cmd'.todo = rest
        /\ cmd'.secret = None
    BY <1>2, <1>3, <1>4, <2>1 DEF CommandStates
  <2>3. TypeOK'
    BY <1>0, <1>2, <2>2 DEF TypeOK
  <2>4. Place'
    BY <1>4, <1>9, <2>2 DEF Place
  <2>5. TokenInv'
    BY <1>0, <1>2, <2>2, TokensStand
  <2>6. RunInv' /\ Login'
    BY <2>2, RestingRuns DEF Resting
  <2> QED BY <1>6, <2>3, <2>4, <2>5, <2>6 DEF IInv, Label
<1> QED BY <1>7, <1>8, <1>9

\* Of a run that is under way: nothing of the forecast changes but the place.
LEMMA ForecastStands ==
  ASSUME IInv, cmd.op = "sync", cmd.at \in {"mint", "rotate", "staging"},
         cmd'.at \in {"rotate", "staging", "describe"}, cmd'.op = cmd.op,
         cmd'.field = cmd.field, cmd'.forecast = cmd.forecast, UNCHANGED <<config, cursor>>,
         cmd.at = "mint" => ~ Declares(cmd.was.settings) \/ InHand # None
  PROVE  RunInv'
<1>1. Forecast
  BY DEF IInv, RunInv
<1>2. cmd.forecast.credential # "absent"
  BY <1>1 DEF Forecast
<1>3. Forecast'
  BY <1>1, <1>2 DEF Forecast, ResumesWith
<1>4. StatusPredictsTheRun'
  BY DEF StatusPredictsTheRun, At
<1> QED BY <1>3, <1>4 DEF RunInv

\* A step that only goes on.
LEMMA Moves ==
  ASSUME cmd \in CommandStates, NEW step \in Ats, Goto(step)
  PROVE  /\ cmd' \in CommandStates /\ cmd'.at = step /\ cmd'.op = cmd.op /\ cmd'.todo = cmd.todo
         /\ cmd'.field = cmd.field /\ cmd'.was = cmd.was /\ cmd'.secret = cmd.secret
         /\ cmd'.manifest = cmd.manifest /\ cmd'.forecast = cmd.forecast
  BY CommandFields DEF Goto

LEMMA NeedsNoTokenKeeps ==
  ASSUME IInv, NeedsNoToken
  PROVE  IInv'
<1>0. TypeOK /\ Place /\ TokenInv /\ Own /\ Label
  BY DEF IInv
<1>1. /\ cmd.op = "sync" /\ cmd.at = "mint" /\ ~ Declares(cmd.was.settings) /\ Goto("staging")
      /\ UNCHANGED <<config, cursor, status, staging, build, keychain, variable, live, mislaid,
                     commands, faults, leftover>>
  BY DEF NeedsNoToken, At, files, tokens
<1>2. /\ cmd' \in CommandStates /\ cmd'.at = "staging" /\ cmd'.op = cmd.op /\ cmd'.todo = cmd.todo
      /\ cmd'.field = cmd.field /\ cmd'.was = cmd.was /\ cmd'.secret = cmd.secret
      /\ cmd'.forecast = cmd.forecast
  BY <1>0, <1>1, Moves DEF TypeOK, Ats
<1>3. KeepsFields /\ KeepsAccounts
  BY <1>1 DEF KeepsFields, KeepsShape, KeepsAccounts
<1>4. Place' /\ TokenInv' /\ Own' /\ Label'
  BY <1>1, <1>2, <1>3, RunGoesOn DEF RunSteps
<1>5. RunInv'
  BY <1>1, <1>2, ForecastStands
<1>6. TypeOK'
  BY <1>0, <1>1, <1>2 DEF TypeOK
<1> QED BY <1>4, <1>5, <1>6 DEF IInv

\* Only the profile that is refreshed has the token that is shown.
LEMMA InHandIsOwn ==
  ASSUME TypeOK, Distinct, SettingsResolve(cmd.was.settings), InHand # None
  PROVE  /\ InHand \in Tokens
         /\ \A p \in Profiles : keychain[p] = InHand =>
              CanStore(cmd.was.settings) /\ cmd.was.settings.profile = p
<1>1. PICK s : s = cmd.was.settings
  OBVIOUS
<1>2. s.profile \in Profiles
  BY <1>1 DEF SettingsResolve
<1>3. /\ Provider(s) = "environment" => InHand = variable
      /\ Provider(s) # "environment" => CanStore(s) /\ InHand = keychain[s.profile]
  BY <1>1 DEF InHand, Held, CanStore, Provider
<1>4. InHand \in Tokens
  BY <1>2, <1>3 DEF TypeOK
<1> QED BY <1>1, <1>2, <1>3, <1>4 DEF Distinct

LEMMA RefreshKeeps ==
  ASSUME IInv, Refresh
  PROVE  IInv'
<1>0. TypeOK /\ Place /\ TokenInv /\ Own /\ Label
  BY DEF IInv
<1>1. PICK s, t : s = cmd.was.settings /\ t = InHand
  OBVIOUS
<1>2. /\ cmd.op = "sync" /\ cmd.at = "mint" /\ SettingsResolve(s) /\ t # None /\ t \in live
      /\ UNCHANGED <<config, cursor, status, staging, build, keychain, variable, mislaid,
                     commands, faults, leftover>>
  BY <1>1 DEF Refresh, At, files
<1>3. /\ t \in Tokens /\ cmd \in CommandStates /\ cmd.secret = None
      /\ \A p \in Profiles : keychain[p] = t => CanStore(s) /\ s.profile = p
  BY <1>0, <1>1, <1>2, InHandIsOwn DEF TokenInv, TypeOK, Place
<1>4. KeepsFields /\ KeepsAccounts /\ KeepsShape
  BY <1>2 DEF KeepsFields, KeepsShape, KeepsAccounts
<1>5. CASE cmd' = [cmd EXCEPT !.at = "staging", !.minted = TRUE] /\ UNCHANGED live
  <2>1. /\ cmd' \in CommandStates /\ cmd'.at = "staging" /\ cmd'.op = cmd.op
        /\ cmd'.todo = cmd.todo /\ cmd'.field = cmd.field /\ cmd'.was = cmd.was
        /\ cmd'.secret = cmd.secret /\ cmd'.forecast = cmd.forecast
    <3>1. "staging" \in Ats
      BY DEF Ats
    <3> QED BY <1>3, <1>5, <3>1, CommandFields
  <2>2. Place' /\ TokenInv' /\ Own' /\ Label'
    BY <1>2, <1>4, <1>5, <2>1, RunGoesOn DEF RunSteps
  <2>3. RunInv'
    BY <1>1, <1>2, <2>1, ForecastStands
  <2>4. TypeOK'
    BY <1>0, <1>2, <1>5, <2>1 DEF TypeOK
  <2> QED BY <2>2, <2>3, <2>4 DEF IInv
<1>6. ASSUME NEW spent \in SUBSET {t}, live' = (live \ spent) \cup {Fresh(t.owner, t.by)},
             cmd' = [cmd EXCEPT !.at = "rotate", !.secret = Fresh(t.owner, t.by)]
      PROVE  IInv'
  <2>1. t.owner \in Accounts /\ t.by \in Fields \cup {None}
    BY <1>3 DEF Tokens
  <2>2. PICK new \in Tokens : /\ new = Fresh(t.owner, t.by)
                              /\ new \notin Taken /\ new # None
                              /\ new.owner = t.owner /\ new.by = t.by
    BY <1>0, <1>3, <2>1, FreshIsNew DEF TokenInv, Distinct
  <2>3. live' = (live \ spent) \cup {new}
    BY <1>6, <2>2
  <2>4. /\ cmd' \in CommandStates /\ cmd'.at = "rotate" /\ cmd'.op = cmd.op
        /\ cmd'.todo = cmd.todo /\ cmd'.field = cmd.field /\ cmd'.was = cmd.was
        /\ cmd'.secret = new /\ cmd'.forecast = cmd.forecast
    <3>1. cmd' = [cmd EXCEPT !.at = "rotate", !.secret = new]
      BY <1>6, <2>2
    <3>2. "rotate" \in Ats /\ new \in SomeToken
      BY DEF Ats, SomeToken
    <3> QED BY <1>3, <3>1, <3>2, CommandFields
  <2>5. TypeOK'
    BY <1>0, <1>2, <2>2, <2>3, <2>4 DEF TypeOK
  <2>6. Place'
    BY <1>0, <1>2, <1>4, <2>2, <2>4, Proceeds DEF RunSteps
  <2>7. Distinct'
    BY <1>0, <1>2, <1>3, <2>2, <2>3, <2>4, FreshKeepsDistinct DEF TokenInv
  <2>8. Usable'
    <3>1. ASSUME NEW p \in Profiles, keychain[p] # None, keychain[p] \notin live'
          PROVE  p \in mislaid \/ (CanStore(s) /\ s.profile = p)
      <4>1. CASE keychain[p] \in live
        BY <1>3, <1>6, <2>3, <3>1, <4>1
      <4>2. CASE keychain[p] \notin live
        BY <1>0, <1>2, <3>1, <4>2 DEF TokenInv, Usable
      <4> QED BY <4>1, <4>2
    <3> QED BY <1>1, <1>2, <2>3, <2>4, <3>1 DEF Usable
  <2>9. Rotation'
    <3>1. InHand' = t
      BY <1>1, <1>2, <2>4 DEF InHand, Held
    <3> QED BY <1>1, <1>2, <2>2, <2>4, <3>1 DEF Rotation
  <2>10. Own'
    BY <1>0, <1>2, <1>4, OwnStands DEF At
  <2>11. \A g \in Fields : Labelled(g)'
    BY <1>0, <1>2, <1>4, LabelsStand
  <2>12. RunInv' /\ Login'
    BY <1>1, <1>2, <2>4, ForecastStands DEF Login
  <2> QED BY <2>5, <2>6, <2>7, <2>8, <2>9, <2>10, <2>11, <2>12 DEF IInv, TokenInv, Label
<1> QED BY <1>1, <1>5, <1>6 DEF Refresh

LEMMA StoreRotatedKeeps ==
  ASSUME IInv, StoreRotated
  PROVE  IInv'
<1>0. TypeOK /\ Place /\ TokenInv /\ Own /\ Label
  BY DEF IInv
<1>1. PICK s, t, p : s = cmd.was.settings /\ t = cmd.secret /\ p = s.profile
  OBVIOUS
<1>2. /\ cmd.op = "sync" /\ cmd.at = "rotate"
      /\ UNCHANGED <<config, cursor, status, staging, build, variable, live, mislaid, commands,
                     faults, leftover>>
  BY DEF StoreRotated, At, files
<1>3. /\ SettingsResolve(s) /\ p \in Profiles /\ InHand # None /\ t \in Tokens /\ t # None
      /\ t.owner = InHand.owner /\ t.by = InHand.by /\ cmd \in CommandStates
  <2>1. t # None
    BY <1>0, <1>1, <1>2 DEF Place
  <2>2. SettingsResolve(s) /\ InHand # None /\ t.owner = InHand.owner /\ t.by = InHand.by
    BY <1>0, <1>1, <1>2 DEF TokenInv, Rotation
  <2>3. cmd \in CommandStates /\ cmd.secret \in Tokens \cup {None}
    BY <1>0 DEF TypeOK, CommandStates
  <2> QED BY <1>1, <2>1, <2>2, <2>3 DEF SettingsResolve
<1>4. KeepsFields /\ KeepsAccounts /\ KeepsShape
  BY <1>2 DEF KeepsFields, KeepsShape, KeepsAccounts
<1>5. CASE CanStore(s)
  <2>1. /\ keychain' = [keychain EXCEPT ![p] = t]
        /\ cmd' = [cmd EXCEPT !.at = "staging", !.secret = None, !.minted = TRUE]
    BY <1>1, <1>5 DEF StoreRotated, StoresRotation
  <2>2. InHand = keychain[p]
    BY <1>1, <1>5 DEF InHand, Held, CanStore
  <2>3. \A q \in Profiles : keychain'[q] = IF q = p THEN t ELSE keychain[q]
    BY <1>0, <2>1 DEF TypeOK
  <2>4. /\ cmd' \in CommandStates /\ cmd'.at = "staging" /\ cmd'.op = cmd.op
        /\ cmd'.todo = cmd.todo /\ cmd'.field = cmd.field /\ cmd'.was = cmd.was
        /\ cmd'.secret = None /\ cmd'.forecast = cmd.forecast
    <3>1. "staging" \in Ats /\ None \in SomeToken
      BY DEF Ats, SomeToken
    <3> QED BY <1>3, <2>1, <3>1, CommandFields
  <2>5. TypeOK'
    BY <1>0, <1>2, <1>3, <2>1, <2>4 DEF TypeOK
  <2>6. Place'
    BY <1>0, <1>2, <1>4, <2>4, Proceeds DEF RunSteps
  <2>7. Distinct'
    BY <1>0, <1>1, <1>2, <1>3, <2>1, <2>4, StoredKeepsDistinct DEF TokenInv
  <2>8. Usable'
    <3>1. ASSUME NEW q \in Profiles, keychain'[q] # None, keychain'[q] \notin live
          PROVE  q \in mislaid
      BY <1>0, <1>1, <1>3, <2>3, <3>1 DEF TokenInv, Usable
    <3> QED BY <1>2, <2>4, <3>1 DEF Usable
  <2>9. Rotation'
    BY <2>4 DEF Rotation
  <2>10. Own'
    BY <1>0, <1>2, <1>4, OwnStands DEF At
  <2>11. ASSUME NEW f \in Fields PROVE Labelled(f)'
    <3>1. Labelled(f)
      BY <1>0 DEF Label
    <3>2. CASE config[f] # None /\ config[f].account # None
      <4>1. PICK c : c = config[f].settings
        OBVIOUS
      <4>2. SettingsResolve(c) /\ c.profile \in Profiles
        BY <3>1, <3>2, <4>1 DEF Labelled, SettingsResolve
      <4>3. /\ keychain'[c.profile] # None => keychain[c.profile] # None
            /\ keychain'[c.profile].owner = keychain[c.profile].owner
            /\ keychain'[c.profile].by = keychain[c.profile].by
        BY <1>3, <2>2, <2>3, <4>2
      <4>4. ASSUME CanStore(c), keychain'[c.profile] # None, keychain'[c.profile].by = f
            PROVE  keychain'[c.profile].owner = config[f].account \/ c.profile \in mislaid
        BY <1>2, <3>1, <3>2, <4>1, <4>3, <4>4 DEF Labelled
      <4> QED BY <1>2, <4>1, <4>2, <4>4 DEF Labelled
    <3>3. CASE ~ (config[f] # None /\ config[f].account # None)
      BY <1>2, <3>3 DEF Labelled
    <3> QED BY <3>2, <3>3
  <2>12. RunInv' /\ Login'
    BY <1>2, <2>4, ForecastStands DEF Login
  <2> QED BY <2>5, <2>6, <2>7, <2>8, <2>9, <2>10, <2>11, <2>12 DEF IInv, TokenInv, Label
<1>6. CASE ~ CanStore(s)
  <2>1. NextField /\ UNCHANGED keychain
    BY <1>1, <1>6 DEF StoreRotated
  <2>2. cmd' \in CommandStates /\ Place' /\ TokenInv' /\ Own' /\ Label' /\ RunInv'
    BY <1>1, <1>2, <1>6, <2>1, RestKeeps DEF At
  <2>3. TypeOK'
    BY <1>0, <1>2, <2>1, <2>2 DEF TypeOK
  <2> QED BY <2>2, <2>3 DEF IInv
<1> QED BY <1>5, <1>6

LEMMA MintFailsKeeps ==
  ASSUME IInv, MintFails
  PROVE  IInv'
<1>1. /\ cmd.op = "sync" /\ cmd.at = "mint" /\ NextField
      /\ UNCHANGED <<config, cursor, status, staging, build, keychain, variable, live, mislaid,
                     commands, faults, leftover>>
  BY DEF MintFails, At, files, tokens
<1>2. cmd' \in CommandStates /\ Place' /\ TokenInv' /\ Own' /\ Label' /\ RunInv'
  BY <1>1, RestKeeps DEF At
<1>3. TypeOK'
  BY <1>1, <1>2 DEF IInv, TypeOK
<1> QED BY <1>2, <1>3 DEF IInv

LEMMA AnswerIsLostKeeps ==
  ASSUME IInv, AnswerIsLost
  PROVE  IInv'
<1>0. TypeOK /\ Place /\ TokenInv /\ Own /\ Label
  BY DEF IInv
<1>1. PICK s : s = cmd.was.settings
  OBVIOUS
<1>2. /\ cmd.op = "sync" /\ cmd.at = "mint" /\ SettingsResolve(s) /\ InHand \in live
      /\ faults < MaxFaults /\ faults' = faults + 1 /\ NextField
      /\ UNCHANGED <<config, cursor, status, staging, build, keychain, variable, commands, leftover>>
  BY <1>1 DEF AnswerIsLost, At, files
<1>3. PICK spent \in SUBSET {InHand} :
        /\ live' = live \ spent
        /\ mislaid' = IF spent = {} THEN mislaid ELSE mislaid \cup {s.profile}
  BY <1>1 DEF AnswerIsLost
<1>4. InHand # None /\ s.profile \in Profiles
  BY <1>0, <1>2, NothingAssumption DEF TypeOK, SettingsResolve
<1>5. \A p \in Profiles : keychain[p] = InHand => s.profile = p
  BY <1>0, <1>1, <1>2, <1>4, InHandIsOwn DEF TokenInv
<1>6. KeepsFields /\ KeepsAccounts /\ KeepsShape
  BY <1>2 DEF KeepsFields, KeepsShape, KeepsAccounts
<1>7. cmd' \in CommandStates /\ Place' /\ Resting
  BY <1>0, <1>2, <1>6, Rests
<1>8. TypeOK'
  <2>1. faults' \in 0 .. MaxFaults
    BY <1>0, <1>2, AdminAssumption DEF TypeOK
  <2>2. mislaid' \subseteq Profiles /\ live' \subseteq Tokens
    BY <1>0, <1>3, <1>4 DEF TypeOK
  <2> QED BY <1>0, <1>2, <1>7, <2>1, <2>2 DEF TypeOK
<1>9. IsFiniteSet(Taken')
  <2>1. IsFiniteSet(Taken \cup {None})
    BY <1>0, FS_AddElement DEF TokenInv, Distinct
  <2>2. Taken' \subseteq Taken \cup {None}
    BY <1>2, <1>3, <1>7 DEF Taken, Resting
  <2> QED BY <2>1, <2>2, FS_Subset
<1>10. Distinct'
  BY <1>0, <1>2, <1>7, <1>9 DEF TokenInv, Distinct, Resting
<1>11. Usable'
  <2>1. ASSUME NEW p \in Profiles, keychain[p] # None, keychain[p] \notin live'
        PROVE  p \in mislaid'
    <3>1. CASE keychain[p] \in live
      BY <1>3, <1>5, <2>1, <3>1
    <3>2. CASE keychain[p] \notin live
      BY <1>0, <1>2, <1>3, <2>1, <3>2 DEF TokenInv, Usable
    <3> QED BY <3>1, <3>2
  <2> QED BY <1>2, <1>7, <2>1 DEF Usable, Resting
<1>12. Rotation'
  BY <1>7 DEF Rotation, Resting
<1>13. Own'
  BY <1>0, <1>2, <1>6, OwnStands DEF At
<1>14. \A g \in Fields : Labelled(g)'
  BY <1>0, <1>2, <1>3, <1>6, LabelsStand
<1> QED BY <1>7, <1>8, <1>10, <1>11, <1>12, <1>13, <1>14, RestingRuns DEF IInv, TokenInv, Label

LEMMA ClearStagingKeeps ==
  ASSUME IInv, ClearStaging
  PROVE  IInv'
<1>0. TypeOK /\ Place /\ TokenInv /\ Own /\ Label
  BY DEF IInv
<1>1. /\ cmd.op = "sync" /\ cmd.at = "staging" /\ staging' = staging \ {cmd.field}
      /\ Goto("describe") \/ NextField
      /\ UNCHANGED <<config, cursor, status, build, keychain, variable, live, mislaid, commands,
                     faults, leftover>>
  BY DEF ClearStaging, At, tokens
<1>2. cmd' \in CommandStates /\ Place' /\ TokenInv' /\ Own' /\ Label' /\ RunInv'
  <2>1. CASE Goto("describe")
    <3>1. /\ cmd' \in CommandStates /\ cmd'.at = "describe" /\ cmd'.op = cmd.op
          /\ cmd'.todo = cmd.todo /\ cmd'.field = cmd.field /\ cmd'.was = cmd.was
          /\ cmd'.secret = cmd.secret /\ cmd'.forecast = cmd.forecast
      BY <1>0, <2>1, Moves DEF TypeOK, Ats
    <3>2. KeepsFields /\ KeepsAccounts
      BY <1>1 DEF KeepsFields, KeepsShape, KeepsAccounts
    <3>3. Place' /\ TokenInv' /\ Own' /\ Label'
      BY <1>1, <3>1, <3>2, RunGoesOn DEF RunSteps
    <3>4. RunInv'
      BY <1>1, <3>1, ForecastStands
    <3> QED BY <3>1, <3>3, <3>4
  <2>2. CASE NextField
    BY <1>1, <2>2, RestKeeps DEF At
  <2> QED BY <1>1, <2>1, <2>2
<1>3. TypeOK'
  BY <1>0, <1>1, <1>2 DEF TypeOK
<1> QED BY <1>2, <1>3 DEF IInv

LEMMA DescribeForSyncKeeps ==
  ASSUME IInv, DescribeForSync
  PROVE  IInv'
<1>0. TypeOK /\ Place /\ TokenInv /\ Own /\ Label
  BY DEF IInv
<1>1. PICK f, m : f = cmd.field /\ m = build[f]
  OBVIOUS
<1>2. /\ cmd.op = "sync" /\ cmd.at = "describe"
      /\ UNCHANGED <<cursor, status, staging, build, keychain, variable, live, mislaid, commands,
                     faults, leftover>>
  BY DEF DescribeForSync, At, tokens
<1>3. /\ Stands(f, cmd.was) /\ f \in Fields /\ m \in Manifests /\ cmd.secret = None
      /\ cmd \in CommandStates
  BY <1>0, <1>1, <1>2 DEF Place, Stands, TypeOK
<1>4. CASE DescribeAgrees(f, m) /\ m.stem
  <2>1. Record(f, m) /\ cmd' = [cmd EXCEPT !.at = "decide", !.manifest = m]
    BY <1>1, <1>4 DEF DescribeForSync
  <2>2. /\ config' \in [Fields -> Configs \cup {None}] /\ KeepsFields /\ KeepsAccounts
    BY <1>0, <1>3, <2>1, RecordFacts DEF Stands
  <2>3. /\ cmd' \in CommandStates /\ cmd'.at = "decide" /\ cmd'.op = cmd.op
        /\ cmd'.field = cmd.field /\ cmd'.was = cmd.was /\ cmd'.todo = cmd.todo
        /\ cmd'.secret = cmd.secret /\ cmd'.forecast = cmd.forecast /\ cmd'.manifest = m
    <3>1. m \in SomeManifest /\ "decide" \in Ats
      BY <1>3 DEF SomeManifest, Ats
    <3> QED BY <1>3, <2>1, <3>1, CommandFields
  <2>4. TypeOK'
    BY <1>0, <1>2, <2>2, <2>3 DEF TypeOK
  <2>5. Place' /\ TokenInv' /\ Own' /\ Label'
    BY <1>2, <2>2, <2>3, RunGoesOn DEF RunSteps
  <2>6. Forecast'
    <3>1. Forecast
      BY DEF IInv, RunInv
    <3>2. /\ cmd.forecast.credential # "absent"
          /\ cmd.forecast.cursor_present <=> cursor[f] # None
          /\ cmd.forecast.manifest_present <=> config[f].manifest # None
          /\ cmd.forecast.manifest_present =>
               (cmd.forecast.resumes <=> ResumesWith(f, config[f].manifest))
      BY <1>1, <1>2, <3>1 DEF Forecast
    <3>3. config[f].manifest # None => config[f].manifest.format = m.format
      BY <1>4 DEF DescribeAgrees, MayRecord, CheckAgainst
    <3>4. cmd.forecast.manifest_present => (cmd.forecast.resumes <=> ResumesWith(f, m))
      BY <3>2, <3>3 DEF ResumesWith
    <3> QED BY <1>1, <1>2, <1>3, <2>3, <3>2, <3>4 DEF Forecast, ResumesWith
  <2>7. StatusPredictsTheRun'
    BY <2>3 DEF StatusPredictsTheRun, At
  <2> QED BY <2>4, <2>5, <2>6, <2>7 DEF IInv, RunInv
<1>5. CASE ~ (DescribeAgrees(f, m) /\ m.stem)
  <2>1. NextField /\ UNCHANGED config
    BY <1>1, <1>5 DEF DescribeForSync
  <2>2. cmd' \in CommandStates /\ Place' /\ TokenInv' /\ Own' /\ Label' /\ RunInv'
    BY <1>2, <2>1, RestKeeps DEF At
  <2>3. TypeOK'
    BY <1>0, <1>2, <2>1, <2>2 DEF TypeOK
  <2> QED BY <2>2, <2>3 DEF IInv
<1> QED BY <1>4, <1>5

LEMMA DecideKeeps ==
  ASSUME IInv, Decide
  PROVE  IInv'
<1>0. TypeOK /\ Place /\ TokenInv /\ Own /\ Label /\ Forecast
  BY DEF IInv, RunInv
<1>1. PICK f, m : f = cmd.field /\ m = cmd.manifest
  OBVIOUS
<1>2. /\ cmd.op = "sync" /\ cmd.at = "decide"
      /\ UNCHANGED <<config, cursor, status, build, keychain, variable, live, mislaid, commands,
                     faults, leftover>>
  BY DEF Decide, At, tokens
<1>3. f \in Fields /\ m \in Manifests /\ cmd.secret = None /\ cmd \in CommandStates
  BY <1>0, <1>1, <1>2 DEF Place, Stands, TypeOK, Forecast
<1>4. CASE /\ staging' = staging \cup {f}
           /\ cmd' = [cmd EXCEPT !.at = "collect", !.replay = Replayable(f, m),
                                 !.window = Windowed(f, m)]
  <2>1. PICK replay : replay = Replayable(f, m)
    OBVIOUS
  <2>2. /\ replay \in SomeCursor
        /\ replay # None <=> ResumesWith(f, m)
        /\ replay # None => replay.format = m.format
    BY <1>0, <1>3, <2>1 DEF Replayable, ResumesWith, SomeCursor, TypeOK
  <2>3. PICK window \in BOOLEAN : window = Windowed(f, m)
    BY DEF Windowed
  <2>4. window => cursor[f] = None
    BY <2>3 DEF Windowed
  <2>5. /\ cmd' \in CommandStates /\ cmd'.at = "collect" /\ cmd'.op = cmd.op
        /\ cmd'.field = cmd.field /\ cmd'.was = cmd.was /\ cmd'.todo = cmd.todo
        /\ cmd'.secret = cmd.secret /\ cmd'.forecast = cmd.forecast /\ cmd'.manifest = m
        /\ cmd'.replay = replay /\ cmd'.window = window
    <3>1. cmd' = [cmd EXCEPT !.at = "collect", !.replay = replay, !.window = window]
      BY <1>4, <2>1, <2>3
    <3>2. "collect" \in Ats
      BY DEF Ats
    <3> QED BY <1>1, <1>3, <2>2, <3>1, <3>2, CommandFields
  <2>6. KeepsFields /\ KeepsAccounts
    BY <1>2 DEF KeepsFields, KeepsShape, KeepsAccounts
  <2>7. Place' /\ TokenInv' /\ Own' /\ Label'
    BY <1>2, <2>5, <2>6, RunGoesOn DEF RunSteps
  <2>8. /\ cmd.forecast.credential # "absent"
        /\ cmd.forecast.cursor_present <=> cursor[f] # None
        /\ cmd.forecast.manifest_present => (cmd.forecast.resumes <=> ResumesWith(f, m))
    BY <1>0, <1>1, <1>2 DEF Forecast
  <2>9. StatusPredictsTheRun'
    BY <2>2, <2>4, <2>5, <2>8 DEF StatusPredictsTheRun
  <2>10. Forecast'
    BY <1>3, <2>5, <2>8 DEF Forecast
  <2>11. TypeOK'
    BY <1>0, <1>2, <1>3, <1>4, <2>5 DEF TypeOK
  <2> QED BY <2>7, <2>9, <2>10, <2>11 DEF IInv, RunInv
<1>5. CASE NextField /\ UNCHANGED staging
  <2>1. cmd' \in CommandStates /\ Place' /\ TokenInv' /\ Own' /\ Label' /\ RunInv'
    BY <1>2, <1>5, RestKeeps DEF At
  <2>2. TypeOK'
    BY <1>0, <1>2, <1>5, <2>1 DEF TypeOK
  <2> QED BY <2>1, <2>2 DEF IInv
<1> QED BY <1>1, <1>4, <1>5 DEF Decide

LEMMA CommitCursorKeeps ==
  ASSUME IInv, CommitCursor
  PROVE  IInv'
<1>0. TypeOK /\ Place /\ TokenInv /\ Own /\ Label /\ RunInv
  BY DEF IInv
<1>1. PICK f, committed : /\ f = cmd.field
                          /\ committed = [format |-> cmd.manifest.format, life |-> cmd.was.life]
  OBVIOUS
<1>2. /\ cmd.op = "sync" /\ cmd.at = "collect" /\ cursor' = [cursor EXCEPT ![f] = committed]
      /\ UNCHANGED <<config, status, staging, build, keychain, variable, live, mislaid, cmd,
                     commands, faults>>
      /\ leftover' = leftover \ {f}
  BY <1>1 DEF CommitCursor, At, tokens
<1>3. /\ Stands(f, cmd.was) /\ f \in Fields /\ cmd.secret = None
      /\ cmd.manifest \in Manifests
  BY <1>0, <1>1, <1>2 DEF Place, Stands, RunInv, Forecast
<1>4. committed \in Cursors /\ committed.life = config[f].life /\ config[f] # None
  <2>1. cmd.was.life \in 1 .. MaxCommands /\ config[f].life = cmd.was.life /\ config[f] # None
    BY <1>3 DEF Stands, Configs
  <2>2. cmd.manifest.format \in {m.format : m \in Manifests}
    BY <1>3
  <2> QED BY <1>1, <2>1, <2>2 DEF Cursors
<1>5. TypeOK'
  BY <1>0, <1>2, <1>3, <1>4 DEF TypeOK
<1>6. Place'
  <2>1. Idle' = Idle
    BY DEF Idle, NoForecast
  <2> QED BY <1>0, <1>2, <2>1 DEF Place, Stands
<1>7. TokenInv'
  BY <1>0, <1>2, <1>3, TokensStand
<1>8. Own'
  <2>1. \A g \in Fields : cursor'[g] = IF g = f THEN committed ELSE cursor[g]
    BY <1>0, <1>2 DEF TypeOK
  <2>2. CursorIsOwn'
    BY <1>0, <1>2, <1>4, <2>1 DEF Own, CursorIsOwn
  <2>3. \A g \in Fields : config[g] = None /\ cursor'[g] # None => g \in leftover'
    BY <1>0, <1>2, <1>4, <2>1 DEF Own, At
  <2> QED BY <1>2, <2>2, <2>3 DEF Own
<1>9. \A g \in Fields : Labelled(g)'
  BY <1>0, <1>2 DEF Label, Labelled
<1>10. Login'
  BY <1>2 DEF Login
<1>11. RunInv'
  BY <1>0, <1>2 DEF RunInv, Forecast, StatusPredictsTheRun, At
<1> QED BY <1>5, <1>6, <1>7, <1>8, <1>9, <1>10, <1>11 DEF IInv, Label

LEMMA EndCollectKeeps ==
  ASSUME IInv, EndCollect
  PROVE  IInv'
<1>0. TypeOK /\ Place /\ TokenInv /\ Own /\ Label /\ Forecast
  BY DEF IInv, RunInv
<1>1. /\ cmd.op = "sync" /\ cmd.at = "collect" /\ staging' = staging \ {cmd.field}
      /\ Goto("status") \/ NextField
      /\ UNCHANGED <<config, cursor, status, build, keychain, variable, live, mislaid, commands,
                     faults, leftover>>
  BY DEF EndCollect, At, tokens
<1>2. cmd' \in CommandStates /\ Place' /\ TokenInv' /\ Own' /\ Label' /\ RunInv'
  <2>1. CASE Goto("status")
    <3>1. /\ cmd' \in CommandStates /\ cmd'.at = "status" /\ cmd'.op = cmd.op
          /\ cmd'.todo = cmd.todo /\ cmd'.field = cmd.field /\ cmd'.was = cmd.was
          /\ cmd'.secret = cmd.secret /\ cmd'.forecast = cmd.forecast
      BY <1>0, <2>1, Moves DEF TypeOK, Ats
    <3>2. KeepsFields /\ KeepsAccounts
      BY <1>1 DEF KeepsFields, KeepsShape, KeepsAccounts
    <3>3. Place' /\ TokenInv' /\ Own' /\ Label'
      BY <1>1, <3>1, <3>2, RunGoesOn DEF RunSteps
    <3>4. cmd.forecast.credential # "absent"
      BY <1>0, <1>1 DEF Forecast
    <3>5. RunInv'
      BY <3>1, <3>4 DEF RunInv, Forecast, StatusPredictsTheRun, At
    <3> QED BY <3>1, <3>3, <3>5
  <2>2. CASE NextField
    BY <1>1, <2>2, RestKeeps DEF At
  <2> QED BY <1>1, <2>1, <2>2
<1>3. TypeOK'
  BY <1>0, <1>1, <1>2 DEF TypeOK
<1> QED BY <1>2, <1>3 DEF IInv

LEMMA WriteStatusKeeps ==
  ASSUME IInv, WriteStatus
  PROVE  IInv'
<1>0. TypeOK /\ Place
  BY DEF IInv
<1>1. /\ cmd.op = "sync" /\ cmd.at = "status" /\ NextField
      /\ status' = [status EXCEPT ![cmd.field] = [account |-> cmd.was.account]]
      /\ UNCHANGED <<config, cursor, staging, build, keychain, variable, live, mislaid, commands,
                     faults, leftover>>
  BY DEF WriteStatus, At, tokens
<1>2. cmd' \in CommandStates /\ Place' /\ TokenInv' /\ Own' /\ Label' /\ RunInv'
  BY <1>1, RestKeeps DEF At
<1>3. cmd.was.account \in Accounts \cup {None}
  <2>1. cmd.was \in Configs
    BY <1>0, <1>1 DEF Place, Stands
  <2> QED BY <2>1 DEF Configs
<1>4. TypeOK'
  BY <1>0, <1>1, <1>2, <1>3 DEF TypeOK
<1> QED BY <1>2, <1>4 DEF IInv

-----------------------------------------------------------------------------
(* What happens to a command and around it *)

LEMMA FaultKeeps ==
  ASSUME IInv, Fault, cmd' = Idle \/ NextField,
         UNCHANGED <<config, cursor, status, staging, build, keychain, variable, live, commands>>
  PROVE  IInv'
<1>0. TypeOK /\ Place /\ TokenInv
  BY DEF IInv
<1>1. /\ faults < MaxFaults /\ faults' = faults + 1
      /\ mislaid' = Unrecorded /\ leftover' = Leavings
  BY DEF Fault
<1>2. cmd.at \in {"rotate", "account"} => cmd.was.settings.profile \in Profiles
  <2>1. cmd.at = "rotate" => SettingsResolve(cmd.was.settings)
    BY <1>0 DEF TokenInv, Rotation
  <2>2. cmd.at = "account" => SettingsResolve(cmd.was.settings)
    BY <1>0, StepsAreApart DEF Place
  <2> QED BY <2>1, <2>2 DEF SettingsResolve
<1>3. /\ mislaid \subseteq mislaid' /\ mislaid' \subseteq Profiles
      /\ cmd.at \in {"rotate", "account"} => cmd.was.settings.profile \in mislaid'
  BY <1>0, <1>1, <1>2 DEF Unrecorded, TypeOK
<1>4. cmd' \in CommandStates /\ Place' /\ TokenInv' /\ Own' /\ Label' /\ RunInv'
  BY <1>1, <1>3, RestKeeps
<1>5. TypeOK'
  <2>1. faults' \in 0 .. MaxFaults
    BY <1>0, <1>1, AdminAssumption DEF TypeOK
  <2>2. leftover' \subseteq Fields
    <3>1. At("remove", "cursor") => cmd.field \in Fields
      BY <1>0 DEF Place, At
    <3> QED BY <1>0, <1>1, <3>1 DEF Leavings, TypeOK
  <2> QED BY <1>0, <1>3, <1>4, <2>1, <2>2 DEF TypeOK
<1> QED BY <1>4, <1>5 DEF IInv

LEMMA RevokedUpstreamKeeps ==
  ASSUME IInv, RevokedUpstream
  PROVE  IInv'
<1>0. TypeOK /\ Place /\ TokenInv /\ Own /\ Label /\ RunInv
  BY DEF IInv
<1>1. PICK lost : lost = IF cmd.secret # None /\ cmd.secret \notin live'
                         THEN {cmd.was.settings.profile} ELSE {}
  OBVIOUS
<1>2. /\ faults < MaxFaults /\ faults' = faults + 1 /\ live' \subseteq live
      /\ mislaid' = mislaid \cup {p \in Profiles : keychain[p] # None /\ keychain[p] \notin live'}
                            \cup lost
      /\ UNCHANGED <<config, cursor, status, staging, build, keychain, variable, cmd, commands,
                     leftover>>
  BY <1>1 DEF RevokedUpstream, files
<1>3. lost \subseteq Profiles
  <2>1. cmd.secret # None => cmd.at \in {"store", "rotate"}
    BY <1>0 DEF Place
  <2>2. cmd.at = "rotate" => SettingsResolve(cmd.was.settings)
    BY <1>0 DEF TokenInv, Rotation
  <2>3. cmd.at = "store" => SettingsResolve(cmd.was.settings)
    BY <1>0, StepsAreApart DEF Place
  <2> QED BY <1>1, <2>1, <2>2, <2>3 DEF SettingsResolve
<1>4. TypeOK'
  <2>1. faults' \in 0 .. MaxFaults
    BY <1>0, <1>2, AdminAssumption DEF TypeOK
  <2>2. mislaid' \subseteq Profiles /\ live' \subseteq Tokens
    BY <1>0, <1>2, <1>3 DEF TypeOK
  <2> QED BY <1>0, <1>2, <2>1, <2>2 DEF TypeOK
<1>5. Place'
  <2>1. Idle' = Idle
    BY DEF Idle, NoForecast
  <2> QED BY <1>0, <1>2, <2>1 DEF Place, Stands
<1>6. Distinct'
  <2>1. Taken' \subseteq Taken
    BY <1>2 DEF Taken
  <2>2. IsFiniteSet(Taken')
    BY <1>0, <2>1, FS_Subset DEF TokenInv, Distinct
  <2> QED BY <1>0, <1>2, <2>2 DEF TokenInv, Distinct
<1>7. Usable'
  <2>1. \A p \in Profiles : keychain[p] # None /\ keychain[p] \notin live' => p \in mislaid'
    BY <1>2
  <2>2. cmd.secret # None => cmd.secret \in live' \/ cmd.was.settings.profile \in mislaid'
    BY <1>1, <1>2
  <2> QED BY <1>2, <2>1, <2>2 DEF Usable
<1>8. InHand' = InHand
  BY <1>2 DEF InHand, Held
<1>9. Rotation'
  BY <1>0, <1>2, <1>8 DEF TokenInv, Rotation
<1>10. KeepsFields /\ KeepsAccounts
  BY <1>2 DEF KeepsFields, KeepsShape, KeepsAccounts
<1>11. Own'
  BY <1>0, <1>2, <1>10, OwnStands
<1>12. \A g \in Fields : Labelled(g)'
  BY <1>0, <1>2, <1>10, LabelsStand
<1>13. Login'
  BY <1>0, <1>2 DEF Label, Login
<1>14. RunInv'
  BY <1>0, <1>2, <1>8 DEF RunInv, Forecast, ResumesWith, StatusPredictsTheRun, At
<1> QED BY <1>4, <1>5, <1>6, <1>7, <1>9, <1>11, <1>12, <1>13, <1>14 DEF IInv, TokenInv, Label

LEMMA UpgradeKeeps ==
  ASSUME IInv, NEW f \in Fields, Upgrade(f)
  PROVE  IInv'
<1>1. PICK m \in Manifests : build' = [build EXCEPT ![f] = m]
  BY DEF Upgrade
<1>2. UNCHANGED <<config, cursor, status, staging, keychain, variable, live, mislaid, cmd,
                  commands, faults, leftover>>
  BY DEF Upgrade, files, tokens
<1>3. Place' /\ TokenInv' /\ Own' /\ Label' /\ RunInv'
  BY <1>2, SameKeeps
<1>4. TypeOK'
  BY <1>1, <1>2 DEF IInv, TypeOK
<1> QED BY <1>3, <1>4 DEF IInv

-----------------------------------------------------------------------------
(* The invariant holds *)

LEMMA InitKeeps == Init => IInv
<1> SUFFICES ASSUME Init PROVE IInv
  OBVIOUS
<1>1. /\ \A f \in Fields : config[f] = None /\ cursor[f] = None
      /\ \A p \in Profiles : keychain[p] = None
      /\ cmd = Idle /\ mislaid = {} /\ leftover = {}
  BY DEF Init
<1>2. /\ cmd.op = "none" /\ cmd.at = "idle" /\ cmd.todo = <<>> /\ cmd.secret = None
  BY <1>1 DEF Idle
<1>3. /\ variable = None \/ variable \in Tokens
      /\ live = IF variable = None THEN {} ELSE {variable}
  BY DEF Init, Tokens
<1>4. TypeOK
  <2>1. commands \in 0 .. MaxCommands /\ faults \in 0 .. MaxFaults
    BY AdminAssumption DEF Init
  <2>2. cmd \in CommandStates
    BY <1>1, IdleIsTyped
  <2>3. /\ config \in [Fields -> Configs \cup {None}] /\ cursor \in [Fields -> Cursors \cup {None}]
        /\ status \in [Fields -> [account : Accounts \cup {None}] \cup {None}]
        /\ staging \subseteq Fields /\ build \in [Fields -> Manifests]
        /\ keychain \in [Profiles -> Tokens \cup {None}]
    BY DEF Init
  <2> QED BY <1>1, <1>3, <2>1, <2>2, <2>3 DEF TypeOK
<1>5. Place
  BY <1>1, <1>2 DEF Place
<1>6. IsFiniteSet(Taken)
  <2>1. IsFiniteSet({variable} \cup {None})
    BY FS_Singleton, FS_AddElement
  <2>2. Taken \subseteq {variable} \cup {None}
    BY <1>1, <1>2, <1>3 DEF Taken
  <2> QED BY <2>1, <2>2, FS_Subset
<1>7. TokenInv
  BY <1>1, <1>2, <1>6 DEF TokenInv, Distinct, Usable, Rotation
<1>8. Own
  BY <1>1 DEF Own, CursorIsOwn
<1>9. Label
  BY <1>1, <1>2 DEF Label, Login, Labelled
<1>10. RunInv
  BY <1>2 DEF RunInv, Forecast, StatusPredictsTheRun, At
<1> QED BY <1>4, <1>5, <1>7, <1>8, <1>9, <1>10 DEF IInv

LEMMA NextKeeps ==
  ASSUME IInv, [Next]_vars
  PROVE  IInv'
<1>1. CASE UNCHANGED vars
  <2>1. UNCHANGED <<config, cursor, status, staging, build, keychain, variable, live, mislaid, cmd,
                    commands, faults, leftover>>
    BY <1>1 DEF vars
  <2>2. TypeOK'
    BY <2>1 DEF IInv, TypeOK
  <2> QED BY <2>1, <2>2, SameKeeps DEF IInv
<1>2. ASSUME NEW f \in Fields, Command(f) \/ Upgrade(f) PROVE IInv'
  <2>1. CASE AddField(f)
    BY <2>1, AddFieldKeeps
  <2>2. CASE RemoveField(f)
    BY <2>2, RemoveFieldKeeps
  <2>3. CASE AuthField(f)
    BY <2>3, AuthFieldKeeps
  <2>4. CASE SyncOne(f)
    <3>1. <<f>> \in Seq(Fields) /\ Len(<<f>>) = 1 /\ <<f>>[1] = f
      OBVIOUS
    <3>2. config[f] # None /\ Sync(<<f>>)
      BY <2>4 DEF SyncOne
    <3>3. \A i \in 1 .. Len(<<f>>) : config[<<f>>[i]] # None
      BY <3>1, <3>2
    <3> QED BY <3>1, <3>2, <3>3, SyncKeeps
  <2>5. CASE Upgrade(f)
    BY <2>5, UpgradeKeeps
  <2> QED BY <1>2, <2>1, <2>2, <2>3, <2>4, <2>5 DEF Command
<1>3. CASE SyncAll
  BY <1>3, SyncAllKeeps
<1>4. CASE RemoveSyncState \/ DescribeForAuth \/ Authorize \/ StoreAuthorized \/ RecordAccount
  BY <1>4, RemoveSyncStateKeeps, DescribeForAuthKeeps, AuthorizeKeeps, StoreAuthorizedKeeps,
     RecordAccountKeeps
<1>5. CASE \/ RunField \/ NeedsNoToken \/ Refresh \/ StoreRotated \/ MintFails \/ AnswerIsLost
  BY <1>5, RunFieldKeeps, NeedsNoTokenKeeps, RefreshKeeps, StoreRotatedKeeps, MintFailsKeeps,
     AnswerIsLostKeeps
<1>6. CASE \/ ClearStaging \/ DescribeForSync \/ Decide \/ CommitCursor \/ EndCollect \/ WriteStatus
  BY <1>6, ClearStagingKeeps, DescribeForSyncKeeps, DecideKeeps, CommitCursorKeeps,
     EndCollectKeeps, WriteStatusKeeps
<1>7. CASE Killed \/ StepFails
  <2>1. /\ Fault
        /\ cmd' = Idle \/ NextField
        /\ UNCHANGED <<config, cursor, status, staging, build, keychain, variable, live, commands>>
    BY <1>7 DEF Killed, StepFails, End, files
  <2> QED BY <2>1, FaultKeeps
<1>8. CASE RevokedUpstream
  BY <1>8, RevokedUpstreamKeeps
<1> QED BY <1>1, <1>2, <1>3, <1>4, <1>5, <1>6, <1>7, <1>8 DEF Next, Step

LEMMA InvariantHolds == Spec => []IInv
<1>1. IInv /\ [Next]_vars => IInv'
  BY NextKeeps
<1> QED BY InitKeeps, <1>1, PTL DEF Spec

\* Every state is of the declared types: the configuration, cursors, summaries
\* and tokens are what the files and the keychain may hold.
THEOREM TypeCorrect == Spec => []TypeOK
<1>1. IInv => TypeOK
  BY DEF IInv
<1> QED BY <1>1, InvariantHolds, PTL

\* What `fields status` says of a Field before it is run is what the run does,
\* whatever was upgraded, removed or killed in between.
THEOREM StatusPredictsTheRunAlways == Spec => []StatusPredictsTheRun
<1>1. IInv => StatusPredictsTheRun
  BY DEF IInv, RunInv
<1> QED BY <1>1, InvariantHolds, PTL

\* A refresh token in the keychain is honoured, unless a fault or the account's
\* owner is to blame: rotation never leaves a spent one behind.
THEOREM TokenStaysUsableAlways == Spec => []TokenStaysUsable
<1>1. IInv => TokenStaysUsable
  BY DEF IInv, TokenInv, Usable, TokenStaysUsable
<1> QED BY <1>1, InvariantHolds, PTL

\* A cursor is of the configuration it is found under, whatever fails or is
\* killed, unless this Field's last removal was cut short before the cursor went
\* and no run has committed one since (fields.rs).
THEOREM CursorIsOwnAlways == Spec => []CursorIsOwn
<1>1. IInv => CursorIsOwn
  BY DEF IInv, Own
<1> QED BY <1>1, InvariantHolds, PTL

\* The account recorded for a Field is the one whose token its login stored.
THEOREM LabelIsTrueAlways == Spec => []LabelIsTrue
<1>1. IInv => LabelIsTrue
  BY DEF IInv, Label, Labelled, LabelIsTrue
<1> QED BY <1>1, InvariantHolds, PTL

-----------------------------------------------------------------------------
(* The recorded manifest *)

Forgets(f) ==
  /\ config[f] # None /\ config'[f] # None /\ config[f].manifest # None
  /\ ~ /\ config'[f].manifest # None
       /\ config'[f].manifest.format = config[f].manifest.format
       /\ \A p \in DOMAIN config[f].manifest.declared :
            /\ p \in DOMAIN config'[f].manifest.declared
            /\ config'[f].manifest.declared[p] = config[f].manifest.declared[p]

LEMMA SameForgetsNothing ==
  ASSUME NEW f, config[f] # None => config'[f] = None \/ config'[f].manifest = config[f].manifest
  PROVE  ~ Forgets(f)
  BY DEF Forgets

\* A manifest is recorded only where it agrees with the one there is.
LEMMA RecordForgetsNothing ==
  ASSUME TypeOK, NEW f \in Fields, NEW g \in Fields, NEW m \in Manifests, DescribeAgrees(g, m),
         Record(g, m)
  PROVE  ~ Forgets(f)
<1>1. config[g] # None /\ MayRecord(config[g], m)
  BY DEF DescribeAgrees
<1>2. /\ config'[g].manifest = m
      /\ \A h \in Fields \ {g} : config'[h] = config[h]
  BY <1>1, RecordFacts
<1>3. CASE f # g
  BY <1>2, <1>3 DEF Forgets
<1>4. CASE f = g
  <2>1. m # None
    BY NothingAssumption
  <2>2. CASE config[g].manifest = None
    BY <1>4, <2>2 DEF Forgets
  <2>3. CASE CheckAgainst(config[g].manifest, m)
    BY <1>2, <1>4, <2>1, <2>3 DEF Forgets, CheckAgainst
  <2> QED BY <1>1, <2>2, <2>3 DEF MayRecord
<1> QED BY <1>3, <1>4

LEMMA NothingIsForgotten ==
  ASSUME IInv, [Next]_vars, NEW f \in Fields
  PROVE  ~ Forgets(f)
<1>0. TypeOK /\ Place
  BY DEF IInv
<1>1. CASE UNCHANGED config
  BY <1>1, SameForgetsNothing
<1>2. ASSUME NEW g \in Fields, AddField(g) PROVE ~ Forgets(f)
  <2>1. config[f] # None => config'[f] = config[f]
    BY <1>0, <1>2 DEF AddField, TypeOK
  <2> QED BY <2>1, SameForgetsNothing
<1>3. ASSUME NEW g \in Fields, RemoveField(g) PROVE ~ Forgets(f)
  <2>1. config'[f] = None \/ config'[f] = config[f]
    BY <1>0, <1>3 DEF RemoveField, TypeOK
  <2> QED BY <2>1, SameForgetsNothing
<1>4. CASE DescribeForAuth \/ DescribeForSync
  <2>1. PICK g, m : g = cmd.field /\ m = build[g]
    OBVIOUS
  <2>2. UNCHANGED config \/ (DescribeAgrees(g, m) /\ Record(g, m))
    BY <1>4, <2>1 DEF DescribeForAuth, DescribeForSync
  <2>3. At("auth", "describe") \/ At("sync", "describe")
    BY <1>4 DEF DescribeForAuth, DescribeForSync
  <2>4. g \in Fields /\ m \in Manifests
    BY <1>0, <2>1, <2>3 DEF Place, Stands, At, TypeOK
  <2> QED BY <1>0, <1>1, <2>2, <2>4, RecordForgetsNothing
<1>5. CASE RecordAccount
  <2>1. PICK g, account : g = cmd.field /\ account = cmd.account
    OBVIOUS
  <2>2. config' = [config EXCEPT ![g].account = account]
    BY <1>5, <2>1 DEF RecordAccount, Recorded
  <2>3. config[f] \in Configs => config'[f].manifest = config[f].manifest
    BY <1>0, <2>2 DEF Configs, TypeOK
  <2>4. config[f] # None => config[f] \in Configs
    BY <1>0 DEF TypeOK
  <2> QED BY <2>3, <2>4, SameForgetsNothing
<1>6. CASE SyncAll
  <2>1. UNCHANGED config
    BY <1>6 DEF SyncAll, Sync, files
  <2> QED BY <1>1, <2>1
<1>7. CASE \/ RemoveSyncState \/ Authorize \/ StoreAuthorized \/ RunField \/ NeedsNoToken
           \/ Refresh \/ StoreRotated \/ MintFails \/ AnswerIsLost \/ ClearStaging \/ Decide
           \/ CommitCursor \/ EndCollect \/ WriteStatus \/ Killed \/ StepFails \/ RevokedUpstream
  <2>1. UNCHANGED config
    BY <1>7 DEF RemoveSyncState, Authorize, StoreAuthorized, RunField, NeedsNoToken, Refresh,
                StoreRotated, MintFails, AnswerIsLost, ClearStaging, Decide, CommitCursor,
                EndCollect, WriteStatus, Killed, StepFails, RevokedUpstream, files
  <2> QED BY <1>1, <2>1
<1>8. ASSUME NEW g \in Fields, AuthField(g) \/ SyncOne(g) \/ Upgrade(g) PROVE ~ Forgets(f)
  <2>1. UNCHANGED config
    BY <1>8 DEF AuthField, SyncOne, Sync, Upgrade, files
  <2> QED BY <1>1, <2>1
<1> QED BY <1>1, <1>2, <1>3, <1>4, <1>5, <1>6, <1>7, <1>8 DEF Next, Step, Command, vars

\* While a Field stays configured, its recorded manifest keeps its cursor
\* format and every property it declares, with its shape.
THEOREM SnapshotNeverForgetsAlways == Spec => SnapshotNeverForgets
<1>1. IInv /\ [Next]_vars =>
        [\A f \in Fields :
           (config[f] # None /\ config'[f] # None /\ config[f].manifest # None) =>
              /\ config'[f].manifest # None
              /\ config'[f].manifest.format = config[f].manifest.format
              /\ \A p \in DOMAIN config[f].manifest.declared :
                    /\ p \in DOMAIN config'[f].manifest.declared
                    /\ config'[f].manifest.declared[p] = config[f].manifest.declared[p]]_vars
  BY NothingIsForgotten DEF Forgets
<1> QED BY <1>1, InvariantHolds, PTL DEF Spec, SnapshotNeverForgets
=============================================================================
