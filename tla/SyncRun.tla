------------------------------- MODULE SyncRun ------------------------------
(***************************************************************************)
(* `fieldnotes sync` of one Field: the runs of                             *)
(* crates/fieldnotes-app/src/sync/mod.rs over the notebook (NotebookStore) *)
(* and the protocol session (CollectSession), against a Field that keeps   *)
(* the collection contract and an upstream that keeps changing.            *)
(*                                                                         *)
(* A run is sequential: `pc` names the durable operation it is about to    *)
(* perform, and between any two of them the process can be killed, the     *)
(* machine can lose power, or the operation can fail.                      *)
(***************************************************************************)
EXTENDS NotebookStore

CONSTANTS
  Scopes,       \* snapshot scopes
  Fields,       \* the Fields that may be synced, see below
  MaxRunRecords, MaxRunDiagnostics, MaxRunArtifactBytes,
  MaxFaults     \* bound: how many faults happen in all

\* What a Field declares: whether it reports deletions as records and orders
\* its versions, whether a window bounds its first run, the keys of objects
\* outside that window (`old`) and the scope of each key; and how it is synced:
\* the modes core is asked for, and bounds on what happens meanwhile (number,
\* event times and artifacts of upstream changes, kinds of faults).
FieldTypes ==
  [ tombstones : BOOLEAN, version_ordering : BOOLEAN, window_supported : BOOLEAN,
    old : SUBSET Keys, scope_of : [Keys -> Scopes],
    modes : SUBSET {"incremental", "snapshot"},
    changes : 0 .. MaxVersion, times : SUBSET Times, artifacts : SUBSET Artifacts,
    faults : SUBSET {"io", "frame", "diagnostic", "partial", "exit", "kill", "power", "forget"} ]

ASSUME SyncAssumption == Fields \subseteq FieldTypes /\ MaxFaults \in Nat

INSTANCE CollectSession WITH
  SourceKeys <- Keys,
  Upserts    <- {"upsert"} \X (1 .. MaxVersion),
  Deletions  <- {"delete"} \X (1 .. MaxVersion),
  Unseen     <- <<"unseen", 0>>,
  Cursors    <- 0 .. MaxVersion

VARIABLES
  field,    \* the Field that is synced, the same for ever
  session,  \* the protocol session of the run
  run,      \* the rest of the run's memory
  faults    \* how many faults have happened

vars == <<field, log, disk, durable, session, run, faults>>

-----------------------------------------------------------------------------
(* A run *)

\* The upstream moves on, whatever core is doing.
UpstreamChanges ==
  /\ ChangeWithin(field.changes, field.times, field.artifacts)
  /\ UNCHANGED <<disk, durable, session, run, faults>>

Manifest(f) == [tombstones |-> f.tombstones, snapshots |-> TRUE,
                version_ordering |-> f.version_ordering]

NoSession(f) == NewSession(Manifest(f), [mode |-> "incremental", scope |-> {}, windowed |-> FALSE],
                        NothingSeen)

\* Where a run stands.
Points == {"idle", "reading", "draining", "compare", "artifact", "artifact_sync", "note", "note_sync",
           "stale", "stale_sync", "unlink", "unlink_sync", "cursor", "cursor_sync",
           "sweep", "sweep_sync"}

\* What core keeps of a run beside the session.  `start` is the length of the
\* log when the run began, `cursor` the position it asked to resume from and
\* `offered` the last one offered; `reported` is the version of each key in the
\* records accepted, 0 if none; `key` and `note` are the record being applied
\* and the Note projected from it; `absent` is what a snapshot still removes.
Runs ==
  [ pc : Points, start : 0 .. MaxVersion, cursor : 0 .. MaxVersion, offered : 0 .. MaxVersion,
    index : [Keys -> SUBSET Notes], reported : [Keys -> 0 .. MaxVersion],
    key : SUBSET Keys, note : SUBSET Notes, absent : SUBSET Keys,
    failure : BOOLEAN, withheld : BOOLEAN ]

Idle == [ pc |-> "idle", start |-> 0, cursor |-> 0, offered |-> 0,
          index |-> [k \in Keys |-> {}], reported |-> [k \in Keys |-> 0],
          key |-> {}, note |-> {}, absent |-> {},
          failure |-> FALSE, withheld |-> FALSE ]

Init ==
  /\ field \in Fields
  /\ UpstreamInit /\ StoreInit
  /\ session = NoSession(field) /\ run = Idle /\ faults = 0

\* prepare_and_collect: read the cursor, scan the Notes, bound a first run.
Begin ==
  /\ run.pc = "idle"
  /\ \E mode \in field.modes, scope \in Range(field.scope_of) :
       /\ session' = NewSession(Manifest(field),
            [mode |-> mode, scope |-> IF mode = "snapshot" THEN {scope} ELSE {},
             windowed |-> field.window_supported /\ disk.cursor = {}], NothingSeen)
       /\ run' = [Idle EXCEPT !.pc = "reading", !.start = Len(log),
                    !.cursor = Max({0} \cup disk.cursor),
                    !.offered = Max({0} \cup disk.cursor),
                    !.index = Index(disk.notes)]
  /\ UNCHANGED <<log, disk, durable, faults>>

-----------------------------------------------------------------------------
(* The Field (external): it keeps the collection contract *)

InWindow(key) == session.request.windowed => key \notin field.old

\* The Field still has to report `key` before a cursor at `p` is honest.
Owed(key, p) ==
  /\ InWindow(key)
  /\ VersionAt(key, p) > run.cursor
  /\ VersionAt(key, p) > run.reported[key]
  /\ IsDelete(VersionAt(key, p)) => field.tombstones

\* A snapshot enumerates the live objects of its scope as well.
Unenumerated(key) ==
  /\ {field.scope_of[key]} = session.request.scope
  /\ InWindow(key) /\ LiveSince(key, run.start) /\ run.reported[key] = 0

\* The record that states what `key` is now.
RecordOf(key) ==
  [type |-> "record", own_run |-> TRUE, seq |-> session.last_seq + 1, well_formed |-> TRUE,
   key |-> key, payload |-> <<log[Version(key)].change, Version(key)>>]

\* The Field reports what it owes, or repeats what it has reported already.
MaySend(key) ==
  \/ Owed(key, Len(log))
  \/ Unenumerated(key)
  \/ /\ run.reported[key] = Version(key) /\ Version(key) > 0
     /\ session.record_count < MaxRunRecords - Cardinality(Keys)

\* A checkpoint advances, and the final one reaches where the run began.
MayOffer(p, final) ==
  /\ \A k \in Keys : ~ Owed(k, p)
  /\ IF final THEN p >= run.offered /\ p >= run.start ELSE p > run.offered

Enumerated == \A k \in Keys : ~ Unenumerated(k)

\* The final checkpoint of a snapshot claims that its scope is complete, or that
\* it is not.
CheckpointAt(p, final, state) ==
  [type |-> "checkpoint", own_run |-> TRUE, seq |-> session.last_seq + 1, well_formed |-> TRUE,
   cursor |-> p, covers |-> session.last_seq,
   records_covered |-> Cardinality(NewlyCovered(session, session.last_seq)),
   is_final |-> final,
   claim |-> IF session.request.mode = "snapshot" /\ final
               THEN {[scope |-> s, state |-> state] : s \in session.request.scope}
             ELSE {}]

-----------------------------------------------------------------------------
(* Core takes a record *)

Reported(key) == [run EXCEPT !.reported[key] = Version(key), !.key = {key}]

\* `accept` takes the record and gives it this disposition.
Takes(key, disposition) ==
  /\ run.pc = "reading" /\ session.final_checkpoint_seq = {} /\ MaySend(key)
  /\ ~ Divergent(session, key, RecordOf(key).payload)
  /\ Accepted(session, RecordOf(key))
  /\ Disposition(session, RecordOf(key)) = disposition

\* The record's durable work is done: `record_durable`.
Settled(s) == RecordDurable(s, s.last_seq)

TakeRepeat ==
  /\ \E k \in Keys :
       /\ Takes(k, "no_change")
       /\ session' = Settled(Accept(session, RecordOf(k)))
       /\ run' = [Reported(k) EXCEPT !.key = {}]
  /\ UNCHANGED <<log, disk, durable, faults>>

TakeDelete ==
  /\ \E k \in Keys :
       /\ Takes(k, "delete")
       /\ IF run.index[k] = {}
            THEN /\ session' = Settled(Accept(session, RecordOf(k)))
                 /\ run' = [Reported(k) EXCEPT !.key = {}]
            ELSE /\ session' = Accept(session, RecordOf(k))
                 /\ run' = [Reported(k) EXCEPT !.pc = "unlink"]
  /\ UNCHANGED <<log, disk, durable, faults>>

\* Mutant of Missing: every referenced artifact is staged again.
Referenced(key) == log[Version(key)].artifacts

\* The bytes a record has to stage: those the notebook does not store yet.
Missing(key) == {a \in log[Version(key)].artifacts : ~ Stored(a)}

\* An upsert resolves its artifacts against the run's staged-byte budget first.
TakeUpsert ==
  /\ \E k \in Keys :
       /\ Takes(k, "upsert")
       /\ session' = ResolveArtifacts(Accept(session, RecordOf(k)), TRUE, Cardinality(Missing(k)))
       /\ run' = [Reported(k) EXCEPT !.pc = IF session'.rejected    THEN "draining"
                                            ELSE IF Missing(k) = {} THEN "compare"
                                            ELSE "artifact"]
  /\ UNCHANGED <<log, disk, durable, faults>>

-----------------------------------------------------------------------------
(* Applying the record, in the fixed persistence order *)

Go(pc) == run' = [run EXCEPT !.pc = pc]

\* The key and the upstream state of the record being applied.
Key     == CHOOSE k \in run.key : TRUE
Reporting == run.reported[Key]
Existing == run.index[Key]

InstallArtifact ==
  /\ run.pc = "artifact"
  /\ \E a \in log[Reporting].artifacts : RenameArtifact(a)
  /\ Go("artifact_sync")
  /\ UNCHANGED <<log, durable, session, faults>>

SyncArtifact ==
  /\ run.pc = "artifact_sync"
  /\ SyncArtifacts /\ Go("compare")
  /\ UNCHANGED <<log, disk, session, faults>>

\* Mutant of Candidate: every projection draws a Note ID.
CandidateWithNewId ==
  [ key |-> Key, id |-> NewId, time |-> log[Reporting].time, version |-> Reporting,
    artifacts |-> log[Reporting].artifacts ]

\* project::build_note: a known key keeps its Note ID.
Candidate ==
  [ key |-> Key, id |-> IF Existing = {} THEN NewId ELSE (CHOOSE n \in Existing : TRUE).id,
    time |-> log[Reporting].time, version |-> Reporting, artifacts |-> log[Reporting].artifacts ]

\* `unchanged`: the notebook already holds this state under this name.
Compare ==
  /\ run.pc = "compare"
  /\ Existing = {} => FreshIds # {}    \* bound: a Note ID is left
  /\ IF Existing = {Candidate}
       THEN /\ session' = Settled(session)
            /\ run' = [run EXCEPT !.pc = "reading", !.key = {}]
       ELSE /\ run' = [run EXCEPT !.pc = "note", !.note = {Candidate}]
            /\ UNCHANGED session
  /\ UNCHANGED <<log, disk, durable, faults>>

InstallNote ==
  /\ run.pc = "note"
  /\ \E n \in run.note : RenameNote(n)
  /\ Go("note_sync")
  /\ UNCHANGED <<log, durable, session, faults>>

\* Mutant of Superseded: a Note that changes its name leaves the old file behind.
SupersededNever == {}

\* The name the Note had before, when it is another one and still there.
Superseded ==
  {Filename(n) : n \in {m \in Existing : /\ \A c \in run.note : Filename(c) # Filename(m)
                                         /\ Named(disk.notes, Filename(m)) # {}}}

\* The replacement is in place: index it and mark the record durable.
Replaced ==
  /\ session' = Settled(session)
  /\ run' = [run EXCEPT !.pc = "reading", !.index[Key] = run.note, !.key = {}, !.note = {}]

SyncNote ==
  /\ run.pc = "note_sync"
  /\ SyncNotes
  /\ IF Superseded = {} THEN Replaced ELSE Go("stale") /\ UNCHANGED session
  /\ UNCHANGED <<log, disk, faults>>

RemoveSuperseded ==
  /\ run.pc = "stale"
  /\ \E name \in Superseded : UnlinkNote(name)
  /\ Go("stale_sync")
  /\ UNCHANGED <<log, durable, session, faults>>

SyncSuperseded ==
  /\ run.pc = "stale_sync"
  /\ SyncNotes /\ Replaced
  /\ UNCHANGED <<log, disk, faults>>

\* An authoritative tombstone removes the Note the index holds for the key.
RemoveNote ==
  /\ run.pc = "unlink"
  /\ \E n \in Existing : UnlinkNote(Filename(n))
  /\ Go("unlink_sync")
  /\ UNCHANGED <<log, durable, session, faults>>

SyncRemoval ==
  /\ run.pc = "unlink_sync"
  /\ SyncNotes
  /\ session' = Settled(session)
  /\ run' = [run EXCEPT !.pc = "reading", !.index[Key] = {}, !.key = {}]
  /\ UNCHANGED <<log, disk, faults>>

-----------------------------------------------------------------------------
(* Checkpoints *)

\* commit_checkpoint: the session commits, and only then is the cursor written.
TakesOffer(checkpoint) ==
  LET offered == Accept(session, checkpoint)
      offer   == OfferOf(checkpoint)
  IN
  /\ run.pc = "reading" /\ session.final_checkpoint_seq = {}
  /\ MayOffer(checkpoint.cursor, checkpoint.is_final)
  /\ ~ offered.rejected
  /\ IF CommitVerdict(offered, offer) = "committed"
       THEN /\ session' = Commit(offered, offer)
            /\ run' = [run EXCEPT !.pc = "cursor", !.offered = checkpoint.cursor]
       ELSE /\ session' = Withhold(Commit(offered, offer), offer)
            /\ run' = [run EXCEPT !.withheld = TRUE, !.offered = checkpoint.cursor]
  /\ UNCHANGED <<log, disk, durable>>

TakeCheckpoint ==
  /\ \E p \in 0 .. Len(log), final \in BOOLEAN :
       /\ final => Enumerated
       /\ TakesOffer(CheckpointAt(p, final, "complete"))
  /\ UNCHANGED faults

WriteCursor ==
  /\ run.pc = "cursor"
  /\ \E c \in session.committed : RenameCursor(c.cursor)
  /\ Go("cursor_sync")
  /\ UNCHANGED <<log, durable, session, faults>>

FinishCursor ==
  /\ run.pc = "cursor_sync"
  /\ SyncCursor /\ Go("reading")
  /\ UNCHANGED <<log, disk, session, faults>>

-----------------------------------------------------------------------------
(* The end of a run *)

End == run' = Idle /\ session' = NoSession(field)

\* What the finished run may remove by absence: only a complete run with every
\* write done, and only keys of the claimed scope that no record reported.
Absent(exit) ==
  {k \in Keys :
    /\ DeletionAuthorized(session, exit) /\ Outcome(session, exit) = "complete"
    /\ ~ run.failure /\ ~ run.withheld
    /\ {field.scope_of[k]} = session.request.scope
    /\ run.index[k] # {} /\ run.reported[k] = 0}

\* finish, and remove_absent_notes when deletion is authorized.
Finish(exit) ==
  IF Absent(exit) = {} THEN End
  ELSE /\ run' = [run EXCEPT !.pc = "sweep", !.absent = Absent(exit)]
       /\ UNCHANGED session

\* The Field ends its stream after the final checkpoint, or core stopped
\* reading and waits for it, however it exits.
EndOfStream ==
  /\ \/ run.pc = "reading" /\ session.final_checkpoint_seq # {} /\ Finish("zero")
     \/ run.pc = "draining" /\ \E exit \in Exits : Finish(exit)
  /\ UNCHANGED <<log, disk, durable, faults>>

\* One absent key after another.
Sweep ==
  /\ run.pc = "sweep"
  /\ \E k \in run.absent :
       /\ \E n \in run.index[k] : UnlinkNote(Filename(n))
       /\ run' = [run EXCEPT !.pc = "sweep_sync", !.absent = @ \ {k}]
  /\ UNCHANGED <<log, durable, session, faults>>

SyncSweep ==
  /\ run.pc = "sweep_sync"
  /\ SyncNotes
  /\ IF run.absent = {} THEN End ELSE Go("sweep") /\ UNCHANGED session
  /\ UNCHANGED <<log, disk, faults>>

-----------------------------------------------------------------------------
(* Faults *)

Fault(kind) ==
  /\ kind \in field.faults /\ faults < MaxFaults
  /\ faults' = faults + 1

\* Mutant of RecordWriteFails: the failure is passed over and the run goes on.
RecordWriteFailsQuietly ==
  /\ Fault("io")
  /\ run.pc \in {"artifact", "artifact_sync", "note", "note_sync", "stale", "stale_sync",
                 "unlink", "unlink_sync"}
  /\ session' = Settled(session)
  /\ run' = [run EXCEPT !.pc = "reading", !.failure = TRUE, !.key = {}, !.note = {}]
  /\ UNCHANGED <<log, disk, durable>>

\* A durable operation of a record fails: core stops reading, and nothing marks
\* the record durable.
RecordWriteFails ==
  /\ Fault("io")
  /\ run.pc \in {"artifact", "artifact_sync", "note", "note_sync", "stale", "stale_sync",
                 "unlink", "unlink_sync"}
  /\ run' = [run EXCEPT !.pc = "draining", !.failure = TRUE]
  /\ UNCHANGED <<log, disk, durable, session>>

\* The cursor cannot be written: the checkpoint is withheld and the run goes on.
CursorWriteFails ==
  /\ Fault("io")
  /\ run.pc \in {"cursor", "cursor_sync"}
  /\ run' = [run EXCEPT !.pc = "reading", !.withheld = TRUE]
  /\ UNCHANGED <<log, disk, durable, session>>

\* A removal by absence fails: the run ends there.
SweepFails ==
  /\ Fault("io")
  /\ run.pc \in {"sweep", "sweep_sync"}
  /\ End
  /\ UNCHANGED <<log, disk, durable>>

\* A frame core cannot decode, or refuses.
BadFrame ==
  /\ Fault("frame")
  /\ run.pc = "reading"
  /\ session' = NoteRejection(session) /\ Go("draining")
  /\ UNCHANGED <<log, disk, durable>>

\* The Field reports an error about something it could not collect.
ErrorDiagnostic ==
  /\ Fault("diagnostic")
  /\ run.pc = "reading"
  /\ session' = Accept(session, [type |-> "diagnostic", own_run |-> TRUE,
                    seq |-> session.last_seq + 1, severity |-> "error"])
  /\ run' = IF session'.rejected THEN [run EXCEPT !.pc = "draining"] ELSE run
  /\ UNCHANGED <<log, disk, durable>>

\* The Field ends a snapshot before it has enumerated its scope, and says so.
PartialSnapshot ==
  /\ Fault("partial")
  /\ session.request.mode = "snapshot"
  /\ \E p \in 0 .. Len(log) : TakesOffer(CheckpointAt(p, TRUE, "partial"))

\* The Field's process ends anywhere, with any exit.
EarlyExit ==
  /\ Fault("exit")
  /\ run.pc = "reading"
  /\ \E exit \in Exits : Finish(exit)
  /\ UNCHANGED <<log, disk, durable>>

\* Core is killed: what is visible stays, the run's memory is gone.
Kill ==
  /\ Fault("kill") /\ run.pc # "idle"
  /\ End
  /\ UNCHANGED <<log, disk, durable>>

PowerLoss ==
  /\ Fault("power")
  /\ LosePower /\ End
  /\ UNCHANGED log

\* `fields remove` and a later `fields add`: the Notes stay, the cursor goes.
ForgetCursor ==
  /\ Fault("forget") /\ run.pc = "idle"
  /\ RemoveSyncState
  /\ UNCHANGED <<log, session, run>>

-----------------------------------------------------------------------------
Take  == TakeRepeat \/ TakeDelete \/ TakeUpsert \/ TakeCheckpoint
Apply == \/ InstallArtifact \/ SyncArtifact \/ Compare \/ InstallNote \/ SyncNote
         \/ RemoveSuperseded \/ SyncSuperseded \/ RemoveNote \/ SyncRemoval
         \/ WriteCursor \/ FinishCursor
Work  == Begin \/ Take \/ Apply \/ EndOfStream \/ Sweep \/ SyncSweep

Faults == \/ RecordWriteFails \/ CursorWriteFails \/ SweepFails \/ BadFrame \/ ErrorDiagnostic
          \/ PartialSnapshot \/ EarlyExit \/ Kill \/ PowerLoss \/ ForgetCursor

Next == (UpstreamChanges \/ Work \/ Faults) /\ UNCHANGED field

Spec == Init /\ [][Next]_vars

\* Runs are started again and again and each one goes on; the upstream and the
\* faults need not.
FairSpec == Spec /\ WF_vars(Work /\ UNCHANGED field)
-----------------------------------------------------------------------------
(* Properties *)

\* Every component has its type.
TypeOK ==
  /\ field \in Fields
  /\ StoreTypeOK
  /\ UpstreamTypeOK
  /\ session \in Sessions /\ run \in Runs
  /\ faults \in 0 .. MaxFaults

\* Keys whose objects a cursor speaks for: a windowed first run leaves out the rest.
Covered == IF field.window_supported THEN Keys \ field.old ELSE Keys

\* The cursor cannot lead: every object the stored cursor accounts for has a
\* Note at least as new, unless the object was deleted upstream since, whatever
\* was killed, lost or failed in between (sync/mod.rs, "why the cursor cannot
\* lead").
CursorNeverLeads ==
  \A c \in disk.cursor, k \in Covered :
    LET v == VersionAt(k, c) IN
    IsUpsert(v) =>
      \/ \E n \in NotesOf(disk.notes, k) : n.version >= v
      \/ DeletedSince(k, v)

\* The same for deletions: once the cursor accounts for a deletion the Field
\* reports, no Note of the deleted object is left.
DeletedNotesAreGone ==
  \A c \in disk.cursor, k \in Covered :
    LET v == VersionAt(k, c) IN
    field.tombstones /\ IsDelete(v) => \A n \in NotesOf(disk.notes, k) : n.version > v

\* A Note never references an artifact the notebook does not hold.
ArtifactsBeforeNotes == \A n \in disk.notes : n.artifacts \subseteq disk.artifacts

\* While an object has a Note its Note ID stays the same, through updates,
\* renames, replays, crashes and repeated collections.
IdentityIsKept ==
  [][\A m \in disk.notes, n \in disk'.notes : m.key = n.key => m.id = n.id]_vars

\* Apart from a power loss, a Note goes only when its object was deleted
\* upstream after the state the Note holds: neither a tombstone of another key,
\* nor a windowed, partial, failed or foreign snapshot removes a live object.
RemovalIsJustified ==
  [][\A n \in disk.notes :
       \/ \E m \in disk'.notes : m.key = n.key
       \/ DeletedSince(n.key, n.version)
       \/ PowerLoss]_vars

\* Between runs an object has at most one Note (A1-notebook-contract.md section 7).
OneNotePerObject ==
  run.pc = "idle" => \A m, n \in disk.notes : m.key = n.key => m = n

\* Once the upstream is quiet and the faults are spent, the notebook comes to
\* hold exactly what there is upstream: each object once, in its last version,
\* and none that was deleted, when the Field reports deletions or the runs are
\* snapshots (operations.md: replay "reconciles" and makes no "uncontrolled
\* duplicates").
Converged ==
  \A k \in Covered :
    /\ IsUpsert(Version(k)) =>
         {n.version : n \in NotesOf(disk.notes, k)} = {Version(k)}
    /\ IsDelete(Version(k)) /\ (field.tombstones \/ field.modes = {"snapshot"})
         => NotesOf(disk.notes, k) = {}

\* However the runs were interrupted, they bring the notebook there, and it
\* stays (operations.md, recovery by replay).
EventuallyConverged == <>[]Converged

\* The notebook implements the contract: the newest Note of each key is the
\* shelf and the stored cursor is the mark.
Contract == INSTANCE SyncContract WITH
  accountable <- Covered,
  tombstones  <- field.tombstones,
  shelf       <- [k \in Keys |-> Max({0} \cup {n.version : n \in NotesOf(disk.notes, k)})],
  mark        <- Max({0} \cup disk.cursor)

KeepsTheContract == Contract!ContractSpec
=============================================================================
