----------------------------- MODULE FieldAdmin -----------------------------
(***************************************************************************)
(* The commands that configure, authenticate, collect and remove a Field,  *)
(* and the state they share: the configuration file, the cursor, the       *)
(* last-run summary and the staging directory of each Field, the keychain, *)
(* and the token endpoint.                                                 *)
(*                                                                         *)
(* One command runs at a time.  It is a sequence of steps, each of which   *)
(* makes at most one durable change, because a command may be killed or    *)
(* may fail between any two of them; the configuration a sync works with   *)
(* is the one it read when it started.  What happens inside a collect run  *)
(* is SyncRun's subject: here it may commit a cursor, and ends.            *)
(***************************************************************************)
EXTENDS Credentials, Sequences

CONSTANTS
    FieldIds,       \* the Field identifiers, in order
    Choices,        \* bound: the settings a person may give `fields add`
    Manifests,      \* bound: the manifests a build of a Field may report
    OptionChoices,  \* bound: the options a sync may be started with
    MaxCommands,    \* bound: commands started
    MaxFaults       \* bound: commands killed, steps that fail, answers that are lost

Fields == {FieldIds[i] : i \in 1..Len(FieldIds)}

ASSUME AdminAssumption ==
    /\ FieldIds \in Seq(Fields)
    /\ Choices \subseteq Settings
    /\ \A m \in Manifests :
          /\ m.auth \in AuthDeclarations /\ m.format \in Nat /\ m.window \in BOOLEAN
          /\ m.stem \in BOOLEAN /\ m.modes \subseteq {"incremental", "snapshot"}
    /\ MaxCommands \in Nat /\ MaxFaults \in Nat

VARIABLES
    config,         \* .fieldnotes/fields/<id>.json
    cursor,         \* .fieldnotes/state/sync/<id>.cursor
    status,         \* .fieldnotes/state/sync/<id>.status.json
    staging,        \* Fields that have a staging directory
    build,          \* the manifest the executable at the configured path reports
    keychain,       \* profile -> refresh token
    variable,       \* the environment variable, set out of band
    live,           \* refresh tokens the endpoint honours
    cmd,            \* the command that runs
    commands,       \* commands started
    faults,         \* faults met
    mislaid,        \* history: profiles whose token was lost by a fault or upstream
    leftover        \* history: Fields whose removal was cut short before the cursor

vars == <<config, cursor, status, staging, build, keychain, variable, live, cmd,
          commands, faults, mislaid, leftover>>
files == <<config, cursor, status, staging>>
tokens == <<keychain, variable, live, mislaid>>

Tokens == [owner : Accounts, serial : Nat, by : Fields \cup {None}]
Cursors == [format : {m.format : m \in Manifests}, life : 1..MaxCommands]
Configs == [settings : Choices, enabled : BOOLEAN, manifest : Manifests \cup {None},
            account : Accounts \cup {None}, life : 1..MaxCommands]

ASSUME NothingAssumption == None \notin Configs \cup Manifests \cup Tokens

(***************************************************************************)
(* Manifest snapshots: a cursor format and the declared properties with    *)
(* their shapes.                                                           *)
(***************************************************************************)
\* mutant: a property that is no longer declared is not noticed
AgreesOnShared(stored, now) ==
    /\ stored.format = now.format
    /\ \A p \in DOMAIN stored.declared \cap DOMAIN now.declared :
          stored.declared[p] = now.declared[p]

CheckAgainst(stored, now) ==
    /\ stored.format = now.format
    /\ \A p \in DOMAIN stored.declared :
          p \in DOMAIN now.declared /\ now.declared[p] = stored.declared[p]

\* record_manifest, on the configuration as it is now
MayRecord(c, manifest) == c.manifest = None \/ CheckAgainst(c.manifest, manifest)

(***************************************************************************)
(* `fields status`.  It reads and changes nothing.                         *)
(***************************************************************************)
Needed(c) == c.manifest # None /\ RequirementOf(c.manifest.auth) # "not_required"

FieldStatus(f) ==
    [cursor_present |-> cursor[f] # None,
     resumes |-> /\ cursor[f] # None /\ config[f].manifest # None
                 /\ cursor[f].format = config[f].manifest.format,
     manifest_present |-> config[f].manifest # None,
     credential |-> CredentialState(config[f].settings, Needed(config[f]), keychain, variable)]

NoForecast == [cursor_present |-> FALSE, resumes |-> FALSE, manifest_present |-> FALSE,
               credential |-> "not_required"]

(***************************************************************************)
(* The command that runs.  `todo`: the Fields a sync has still to run, as  *)
(* configured when it started; `secret`: a refresh token in hand; `minted`:*)
(* an access token was obtained; `replay`: the cursor the request carries; *)
(* `forecast`: history, what `fields status` said of the Field before it.  *)
(***************************************************************************)
Idle == [op |-> "none", at |-> "idle", todo |-> <<>>, options |-> None, field |-> None,
         was |-> None, manifest |-> None, secret |-> None, minted |-> FALSE,
         account |-> None, replay |-> None, window |-> FALSE, forecast |-> NoForecast]

At(op, step) == cmd.op = op /\ cmd.at = step
Goto(step) == cmd' = [cmd EXCEPT !.at = step]
End == cmd' = Idle

Forecasts == [cursor_present : BOOLEAN, resumes : BOOLEAN, manifest_present : BOOLEAN,
              credential : {"not_required", "not_configured", "absent", "stored"}]

CommandStates ==
    [op : {"none", "remove", "auth", "sync"},
     at : {"idle", "cursor", "status", "staging", "describe", "authorize", "store", "account",
           "field", "mint", "rotate", "decide", "collect"},
     todo : Seq(Fields \X Configs), options : OptionChoices \cup {None},
     field : Fields \cup {None}, was : Configs \cup {None}, manifest : Manifests \cup {None},
     secret : Tokens \cup {None}, minted : BOOLEAN, account : Accounts \cup {None},
     replay : Cursors \cup {None}, window : BOOLEAN, forecast : Forecasts]

\* A sync goes on with the next Field; any other command ends.
NextField ==
    cmd' = IF cmd.op = "sync" /\ cmd.todo # <<>>
           THEN [Idle EXCEPT !.op = "sync", !.at = "field", !.todo = cmd.todo,
                             !.options = cmd.options]
           ELSE Idle

Init ==
    /\ config = [f \in Fields |-> None]
    /\ cursor = [f \in Fields |-> None]
    /\ status = [f \in Fields |-> None]
    /\ staging = {}
    /\ build \in [Fields -> Manifests]
    /\ keychain = [p \in Profiles |-> None]
    /\ variable \in {None} \cup [owner : Accounts, serial : {0}, by : {None}]
    /\ live = IF variable = None THEN {} ELSE {variable}
    /\ cmd = Idle
    /\ commands = 0
    /\ faults = 0
    /\ mislaid = {}
    /\ leftover = {}

Start(c) ==
    /\ cmd = Idle
    /\ commands < MaxCommands
    /\ commands' = commands + 1
    /\ cmd' = c

(***************************************************************************)
(* fields add: an existing configuration is left alone.                    *)
(***************************************************************************)
NewConfig(s, enabled, life) ==
    [settings |-> s, enabled |-> enabled, manifest |-> None, account |-> None,
     life |-> life]

AddField(f) ==
    /\ Start(Idle)
    /\ \E s \in Choices, enabled \in BOOLEAN :
          config' = IF config[f] = None /\ ValidSettings(s) /\ Writable(s)
                    THEN [config EXCEPT ![f] = NewConfig(s, enabled, commands')]
                    ELSE config
    /\ UNCHANGED <<cursor, status, staging, build, tokens, faults, leftover>>

(***************************************************************************)
(* fields remove: configuration first, then cursor, summary and staging.   *)
(***************************************************************************)
RemoveField(f) ==
    /\ config[f] # None
    /\ Start([Idle EXCEPT !.op = "remove", !.at = "cursor", !.field = f])
    /\ config' = [config EXCEPT ![f] = None]
    /\ UNCHANGED <<cursor, status, staging, build, tokens, faults, leftover>>

\* mutant: only the summary and the staging directory go
KeepsTheCursor ==
    /\ cursor' = cursor
    /\ status' = IF At("remove", "status") THEN [status EXCEPT ![cmd.field] = None] ELSE status
    /\ staging' = IF At("remove", "staging") THEN staging \ {cmd.field} ELSE staging

RemovesOneThing ==
    /\ cursor' = IF At("remove", "cursor") THEN [cursor EXCEPT ![cmd.field] = None] ELSE cursor
    /\ status' = IF At("remove", "status") THEN [status EXCEPT ![cmd.field] = None] ELSE status
    /\ staging' = IF At("remove", "staging") THEN staging \ {cmd.field} ELSE staging

RemoveSyncState ==
    /\ cmd.op = "remove"
    /\ RemovesOneThing
    /\ CASE cmd.at = "cursor" -> Goto("status")
         [] cmd.at = "status" -> Goto("staging")
         [] cmd.at = "staging" -> End
    /\ leftover' = {f \in leftover : cursor'[f] # None}
    /\ UNCHANGED <<config, build, tokens, commands, faults>>

(***************************************************************************)
(* describe, the stem, the agreement with the snapshot of the              *)
(* configuration that was read first, and record_manifest.                 *)
(***************************************************************************)
DescribeAgrees(f, m) ==
    /\ cmd.was.manifest # None => CheckAgainst(cmd.was.manifest, m)
    /\ config[f] # None
    /\ MayRecord(config[f], m)

Record(f, m) == config' = [config EXCEPT ![f].manifest = m]

(***************************************************************************)
(* fields auth                                                             *)
(***************************************************************************)
AuthField(f) ==
    /\ config[f] # None /\ SettingsResolve(config[f].settings)
    /\ Start([Idle EXCEPT !.op = "auth", !.at = "describe", !.field = f, !.was = config[f]])
    /\ UNCHANGED <<files, build, tokens, faults, leftover>>

DescribeForAuth ==
    LET f == cmd.field   m == build[f] IN
    /\ At("auth", "describe")
    /\ IF DescribeAgrees(f, m)
       THEN Record(f, m) /\ cmd' = [cmd EXCEPT !.at = "authorize", !.manifest = m]
       ELSE End /\ UNCHANGED config
    /\ UNCHANGED <<cursor, status, staging, build, tokens, commands, faults, leftover>>

Taken == live \cup {keychain[p] : p \in Profiles} \cup {variable, cmd.secret}

\* The serials no token has, as far as one is needed.
Free == {n \in 0..Cardinality(Taken) : \A t \in Taken \ {None} : t.serial # n}

\* A token nobody holds yet.
Fresh(owner, by) ==
    [owner |-> owner, serial |-> CHOOSE n \in Free : \A k \in Free : n <= k, by |-> by]

MayAuthorize(s, m) == RequirementOf(m.auth) = "required" /\ CanStore(s)

\* The browser signs somebody in, not necessarily who was meant; the code is
\* exchanged, and the response may lack a refresh token or a readable ID token.
Authorize ==
    LET s == cmd.was.settings IN
    /\ At("auth", "authorize")
    /\ \/ /\ MayAuthorize(s, cmd.manifest)
          /\ "code" \in {Callback(c) : c \in Connections}
          /\ \E owner \in Accounts, usable_claim \in BOOLEAN :
                LET t == Fresh(owner, cmd.field) IN
                /\ live' = live \cup {t}
                /\ cmd' = [cmd EXCEPT !.at = "store", !.secret = t,
                                      !.account = AccountOf(owner, usable_claim)]
       \/ \* any other callback, and any other answer, ends the command
          /\ \/ ~MayAuthorize(s, cmd.manifest)
             \/ \E c \in Connections : Callback(c) # "code"
             \/ \E r \in RepliesTo(TRUE) : Classify(r) # "ok"
          /\ End
          /\ UNCHANGED live
    /\ UNCHANGED <<files, build, keychain, variable, mislaid, commands, faults, leftover>>

StoreAuthorized ==
    LET p == cmd.was.settings.profile IN
    /\ At("auth", "store")
    /\ keychain' = [keychain EXCEPT ![p] = cmd.secret]
    /\ mislaid' = IF cmd.secret \in live THEN mislaid \ {p} ELSE mislaid \cup {p}
    /\ cmd' = [cmd EXCEPT !.at = "account", !.secret = None]
    /\ UNCHANGED <<files, build, variable, live, commands, faults, leftover>>

\* mutant: an account is only ever replaced by another one
RecordedUnlessUnknown(old, new) == IF new = None THEN old ELSE new

Recorded(old, new) == new

RecordAccount ==
    LET f == cmd.field IN
    /\ At("auth", "account")
    /\ config' = [config EXCEPT ![f].account = Recorded(@, cmd.account)]
    /\ End
    /\ UNCHANGED <<cursor, status, staging, build, tokens, commands, faults, leftover>>

(***************************************************************************)
(* sync: one Field, or every enabled one in order.  A Field that fails     *)
(* does not stop the next.                                                 *)
(***************************************************************************)
Sync(targets) ==
    /\ targets # <<>>
    /\ \E o \in OptionChoices :
          Start([Idle EXCEPT !.op = "sync", !.at = "field", !.options = o,
                             !.todo = [i \in 1..Len(targets) |->
                                          <<targets[i], config[targets[i]]>>]])
    /\ UNCHANGED <<files, build, tokens, faults, leftover>>

SyncOne(f) == config[f] # None /\ Sync(<<f>>)

\* Every enabled Field, in the order of the identifiers.
SyncAll ==
    LET Due == {i \in 1..Len(FieldIds) :
                   config[FieldIds[i]] # None /\ config[FieldIds[i]].enabled} IN
    \E order \in [1..Cardinality(Due) -> Due] :
        /\ \A i, j \in DOMAIN order : i < j => order[i] < order[j]
        /\ Sync([i \in DOMAIN order |-> FieldIds[order[i]]])

RunField ==
    LET f == cmd.todo[1][1]   c == cmd.todo[1][2]   rest == Tail(cmd.todo) IN
    /\ At("sync", "field")
    /\ cmd' = IF c.enabled
              THEN [cmd EXCEPT !.at = "mint", !.todo = rest, !.field = f, !.was = c,
                               !.forecast = FieldStatus(f)]
              ELSE IF rest = <<>> THEN Idle ELSE [cmd EXCEPT !.todo = rest]
    /\ UNCHANGED <<files, build, tokens, commands, faults, leftover>>

NeedsNoToken ==
    /\ At("sync", "mint") /\ ~Declares(cmd.was.settings)
    /\ Goto("staging")
    /\ UNCHANGED <<files, build, tokens, commands, faults, leftover>>

InHand == Held(cmd.was.settings, keychain, variable)

\* The endpoint gives an access token and perhaps a refresh token that takes
\* the place of the one it was shown.
Refresh ==
    LET s == cmd.was.settings   t == InHand IN
    /\ At("sync", "mint") /\ Declares(s) /\ SettingsResolve(s)
    /\ t # None /\ t \in live
    /\ "tokens" \in RepliesTo(TRUE)
    /\ \/ /\ cmd' = [cmd EXCEPT !.at = "staging", !.minted = TRUE]
          /\ UNCHANGED live
       \/ \E spent \in SUBSET {t} :
             /\ live' = (live \ spent) \cup {Fresh(t.owner, t.by)}
             /\ cmd' = [cmd EXCEPT !.at = "rotate", !.secret = Fresh(t.owner, t.by)]
    /\ UNCHANGED <<files, build, keychain, variable, mislaid, commands, faults, leftover>>

\* mutant: the rotated refresh token is dropped
ForgetsRotation(s) == keychain

StoresRotation(s) == [keychain EXCEPT ![s.profile] = cmd.secret]

\* The environment cannot be written: the run is refused, after the rotation.
StoreRotated ==
    LET s == cmd.was.settings IN
    /\ At("sync", "rotate")
    /\ IF CanStore(s)
       THEN /\ keychain' = StoresRotation(s)
            /\ cmd' = [cmd EXCEPT !.at = "staging", !.secret = None, !.minted = TRUE]
       ELSE NextField /\ UNCHANGED keychain
    /\ UNCHANGED <<files, build, variable, live, mislaid, commands, faults, leftover>>

MintFails ==
    LET s == cmd.was.settings IN
    /\ At("sync", "mint") /\ Declares(s)
    /\ \/ ~SettingsResolve(s)
       \/ Retrieved(s, keychain, variable) = "absent"
       \/ \E r \in RepliesTo(InHand \in live) \ {"unparsed", "no_response"} : Classify(r) # "ok"
    /\ NextField
    /\ UNCHANGED <<files, build, tokens, commands, faults, leftover>>

\* The request arrived and the answer did not, or not whole.
AnswerIsLost ==
    LET s == cmd.was.settings IN
    /\ At("sync", "mint") /\ Declares(s) /\ SettingsResolve(s) /\ InHand \in live
    /\ faults < MaxFaults /\ faults' = faults + 1
    /\ \E spent \in SUBSET {InHand} :
          /\ live' = live \ spent
          /\ mislaid' = IF spent = {} THEN mislaid ELSE mislaid \cup {s.profile}
    /\ NextField
    /\ UNCHANGED <<files, build, keychain, variable, commands, leftover>>

ThresholdIsUsable(o) == o.artifacts
MediaTypesAreUsable(o) == o.media_types
WindowIsUsable(o) == o.window # 0
DeadlineIsUsable(o) == o.deadline
OptionsAreUsable(o) ==
    ThresholdIsUsable(o) /\ MediaTypesAreUsable(o) /\ WindowIsUsable(o) /\ DeadlineIsUsable(o)

ClearStaging ==
    /\ At("sync", "staging")
    /\ staging' = staging \ {cmd.field}
    /\ IF OptionsAreUsable(cmd.options) THEN Goto("describe") ELSE NextField
    /\ UNCHANGED <<config, cursor, status, build, tokens, commands, faults, leftover>>

DescribeForSync ==
    LET f == cmd.field   m == build[f] IN
    /\ At("sync", "describe")
    /\ IF m.stem /\ DescribeAgrees(f, m)
       THEN Record(f, m) /\ cmd' = [cmd EXCEPT !.at = "decide", !.manifest = m]
       ELSE NextField /\ UNCHANGED config
    /\ UNCHANGED <<cursor, status, staging, build, tokens, commands, faults, leftover>>

\* mutant: any cursor is handed on
ReplayableWhateverItsFormat(f, m) == cursor[f]

Replayable(f, m) ==
    IF cursor[f] # None /\ cursor[f].format = m.format THEN cursor[f] ELSE None

\* A window only where there has never been a cursor, whatever becomes of it.
Windowed(f, m) == m.window /\ cursor[f] = None

\* Whether core can name the scope a snapshot reconciles depends on the Notes.
ScopeIsKnown(o, inferred) == o.mode = "snapshot" => o.scope \/ inferred

\* Requirement, mode, scope, cursor and window; then the channel, for a token
\* that has not expired meanwhile; then the staging directory.
Decide ==
    LET f == cmd.field   m == cmd.manifest   o == cmd.options
        needed == RequirementOf(m.auth) IN
    /\ At("sync", "decide")
    /\ \/ /\ needed # "unsupported"
          /\ needed = "required" => cmd.minted
          /\ o.mode \in m.modes
          /\ \E inferred \in BOOLEAN : ScopeIsKnown(o, inferred)
          /\ staging' = staging \cup {f}
          /\ cmd' = [cmd EXCEPT !.at = "collect", !.replay = Replayable(f, m),
                                !.window = Windowed(f, m)]
       \/ /\ \/ needed = "unsupported"
             \/ needed = "required"     \* not minted, or expired by now
             \/ o.mode \notin m.modes
             \/ \E inferred \in BOOLEAN : ~ScopeIsKnown(o, inferred)
          /\ NextField
          /\ UNCHANGED staging
    /\ UNCHANGED <<config, cursor, status, build, tokens, commands, faults, leftover>>

CommitCursor ==
    /\ At("sync", "collect")
    /\ cursor' = [cursor EXCEPT ![cmd.field] =
                     [format |-> cmd.manifest.format, life |-> cmd.was.life]]
    /\ leftover' = leftover \ {cmd.field}
    /\ UNCHANGED <<config, status, staging, build, tokens, cmd, commands, faults>>

\* Staging is cleared whatever the outcome; a run that could not be carried
\* out leaves no summary.
EndCollect ==
    /\ At("sync", "collect")
    /\ staging' = staging \ {cmd.field}
    /\ Goto("status") \/ NextField
    /\ UNCHANGED <<config, cursor, status, build, tokens, commands, faults, leftover>>

WriteStatus ==
    /\ At("sync", "status")
    /\ status' = [status EXCEPT ![cmd.field] = [account |-> cmd.was.account]]
    /\ NextField
    /\ UNCHANGED <<config, cursor, staging, build, tokens, commands, faults, leftover>>

(***************************************************************************)
(* What happens to a command and around it.                                *)
(***************************************************************************)
\* A rotated token that was not stored, and an account that was not recorded.
Unrecorded ==
    mislaid \cup IF cmd.at \in {"rotate", "account"} THEN {cmd.was.settings.profile} ELSE {}

\* A cursor whose configuration is gone already.
Leavings ==
    leftover \cup IF At("remove", "cursor") /\ cursor[cmd.field] # None THEN {cmd.field} ELSE {}

Fault ==
    /\ faults < MaxFaults /\ faults' = faults + 1
    /\ mislaid' = Unrecorded
    /\ leftover' = Leavings

Killed ==
    /\ cmd # Idle
    /\ Fault
    /\ End
    /\ UNCHANGED <<files, build, keychain, variable, live, commands>>

\* A file, the keychain, the listener or the Field's process fails.
StepFails ==
    /\ cmd # Idle /\ ~At("sync", "field")
    /\ Fault
    /\ NextField
    /\ UNCHANGED <<files, build, keychain, variable, live, commands>>

Upgrade(f) ==
    /\ \E m \in Manifests : build' = [build EXCEPT ![f] = m]
    /\ UNCHANGED <<files, tokens, cmd, commands, faults, leftover>>

\* The account's owner, or its administrator, withdraws a token.
RevokedUpstream ==
    /\ faults < MaxFaults /\ faults' = faults + 1
    /\ \E t \in live : live' = live \ {t}
    /\ mislaid' = mislaid \cup {p \in Profiles : keychain[p] # None /\ keychain[p] \notin live'}
                       \cup IF cmd.secret # None /\ cmd.secret \notin live'
                            THEN {cmd.was.settings.profile} ELSE {}
    /\ UNCHANGED <<files, build, keychain, variable, cmd, commands, leftover>>

Command(f) == AddField(f) \/ RemoveField(f) \/ AuthField(f) \/ SyncOne(f)

Step ==
    \/ RemoveSyncState
    \/ DescribeForAuth \/ Authorize \/ StoreAuthorized \/ RecordAccount
    \/ RunField \/ NeedsNoToken \/ Refresh \/ StoreRotated \/ MintFails \/ AnswerIsLost
    \/ ClearStaging \/ DescribeForSync \/ Decide \/ CommitCursor \/ EndCollect \/ WriteStatus

Next ==
    \/ \E f \in Fields : Command(f) \/ Upgrade(f)
    \/ SyncAll
    \/ Step
    \/ Killed \/ StepFails \/ RevokedUpstream

Spec == Init /\ [][Next]_vars

(***************************************************************************)
(* Properties                                                              *)
(***************************************************************************)
TypeOK ==
    /\ config \in [Fields -> Configs \cup {None}]
    /\ cursor \in [Fields -> Cursors \cup {None}]
    /\ status \in [Fields -> [account : Accounts \cup {None}] \cup {None}]
    /\ staging \subseteq Fields
    /\ build \in [Fields -> Manifests]
    /\ keychain \in [Profiles -> Tokens \cup {None}]
    /\ variable \in Tokens \cup {None}
    /\ live \subseteq Tokens
    /\ cmd \in CommandStates
    /\ commands \in 0..MaxCommands /\ faults \in 0..MaxFaults
    /\ mislaid \subseteq Profiles
    /\ leftover \subseteq Fields

\* What `fields status` says before a run is what the run does, if it gets as
\* far as collecting: it resumes exactly when the stored cursor's format is
\* that of the recorded manifest, it is given a window only if there is no
\* cursor, and a Field whose credential is absent is not run.  And whatever was
\* removed, added, upgraded or killed before, a Field is never handed a cursor
\* written in another format than the one it declares.
StatusPredictsTheRun ==
    At("sync", "collect") =>
        /\ cmd.forecast.manifest_present => (cmd.replay # None <=> cmd.forecast.resumes)
        /\ cmd.window => ~cmd.forecast.cursor_present
        /\ cmd.forecast.credential # "absent"
        /\ cmd.replay # None => cmd.replay.format = cmd.manifest.format

\* While a Field stays configured, the recorded manifest keeps its cursor
\* format and never drops or retypes a declared property.
SnapshotNeverForgets ==
    [][\A f \in Fields :
          (config[f] # None /\ config'[f] # None /\ config[f].manifest # None) =>
              /\ config'[f].manifest # None
              /\ config'[f].manifest.format = config[f].manifest.format
              /\ \A p \in DOMAIN config[f].manifest.declared :
                    /\ p \in DOMAIN config'[f].manifest.declared
                    /\ config'[f].manifest.declared[p] = config[f].manifest.declared[p]]_vars

\* A refresh token in the keychain is one the endpoint honours, unless a fault
\* or the account's owner is to blame, or it is being replaced.
TokenStaysUsable ==
    \A p \in Profiles :
        (keychain[p] # None /\ keychain[p] \notin live) =>
            p \in mislaid \/ (cmd.at = "rotate" /\ cmd.was.settings.profile = p)

\* A cursor belongs to the configuration it is found under: a Field that is
\* added again starts anew, whatever was killed, failed, lost or revoked, unless
\* its own last removal was cut short before it took the cursor; and then until
\* a run has committed one of its own.
CursorIsOwn ==
    \A f \in Fields :
        (cursor[f] # None /\ config[f] # None) => cursor[f].life = config[f].life \/ f \in leftover

\* The recorded account is the account of the token this Field's own login
\* stored, unless that login was cut short.
LabelIsTrue ==
    \A f \in Fields :
        LET c == config[f] IN
        (c # None /\ c.account # None /\ CanStore(c.settings)) =>
            LET t == keychain[c.settings.profile] IN
            (t # None /\ t.by = f) =>
                \/ t.owner = c.account
                \/ c.settings.profile \in mislaid
                \/ cmd.at = "account"

=============================================================================
