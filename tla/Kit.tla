-------------------------------- MODULE Kit ---------------------------------
(***************************************************************************)
(* The conformance driver (fieldnotes-field-protocol/src/conformance.rs):  *)
(* it describes a Field, collects from it with a real session, stands in   *)
(* for the notebook, and may collect again from where the first run        *)
(* stopped.  The Field is the fixture playing a scenario, or one of the    *)
(* four Fields with objects of its source.                                 *)
(***************************************************************************)
EXTENDS Fixture

CONSTANT
  Tests         \* [subject, plan]: what is under test, and the plan of its first run

VARIABLES
  subject,      \* [field, scenario, objects]: the Field, and what it plays
  plan,         \* the CollectPlan of the run
  phase,        \* "describe", "collect" or "done"
  run,          \* 1, or 2 for the run that resumes
  script,       \* what the process writes and how it ends, since it was spawned
  position,     \* lines of the Field's output read so far
  session,      \* core's collect session
  refused,      \* the code the run was rejected with, if it was
  cancelled,    \* core sent a cancel frame
  exit,         \* how the process ended
  notes,        \* source identity -> what its Note says
  undurable     \* identities whose Note could not be written

vars == <<subject, plan, phase, run, script, position, session, refused, cancelled, exit, notes, undurable>>

Identities == {"readme", "agreement", "timeline", "message", "standup", "first", "second"}

Unseen == [change |-> "unseen"]

S == INSTANCE CollectSession WITH
       SourceKeys <- Identities, Unseen <- Unseen,
       Upserts <- {r \in RecordEvent : r.change = "upsert"},
       Deletions <- {r \in RecordEvent : r.change = "delete"},
       Scopes <- STRING, Cursors <- STRING,
       MaxRunRecords <- Ceilings.max_run_records,
       MaxRunDiagnostics <- Ceilings.max_run_diagnostics,
       MaxRunArtifactBytes <- Ceilings.max_run_artifact_bytes

\* semantic_fingerprint: the frame without its place in the run.
Fingerprint(record) == [record EXCEPT !.seq = 0]

\* Before collect there is no session, and nothing to resume from.
NoSession == [committed |-> {}, rejected |-> FALSE]

NothingHeld == [key \in {} |-> 0]

-----------------------------------------------------------------------------
(* The plan and what core asks for *)

Incremental(limits) ==
  [mode |-> "incremental", snapshot_scope |-> {}, cursor |-> {}, known_digests |-> {},
   durability |-> {}, cancel_after |-> {}, limits |-> limits, current_state |-> S!NothingSeen]

Snapshot(limits, scope) ==
  [Incremental(limits) EXCEPT !.mode = "snapshot", !.snapshot_scope = {scope}]

Deadline == [idle_seconds |-> 300, cancel_grace_seconds |-> 10]

DescribeFrame ==
  [type |-> "describe", supported_protocol_versions |-> <<1>>, max_protocol_revision |-> 0,
   limits |-> {plan.limits}, deadline |-> Deadline]

BuildRequest ==
  [type |-> "collect", protocol_revision |-> 0, mode |-> plan.mode,
   cursor |-> plan.cursor, cursor_format_version |-> {1 : c \in plan.cursor}, window |-> {},
   snapshot_scope |-> plan.snapshot_scope, credential |-> {}, artifact_staging_dir |-> 40,
   limits |-> plan.limits, deadline |-> Deadline, artifact_media_types |-> DefaultMediaTypes,
   recollect_targets |-> {}]

-----------------------------------------------------------------------------
(* The Field under test *)

OwnManifest(field) ==
  CASE field = "local"    -> LocalManifest
    [] field = "mail"     -> MailManifest
    [] field = "calendar" -> CalendarManifest
    [] field = "contacts" -> ContactsManifest

OwnRecord(field, object, seq) ==
  CASE field = "local"    -> LocalRecord(object, seq, plan.limits, DefaultMediaTypes)
    [] field = "mail"     -> MailRecord(object, seq, plan.limits)
    [] field = "calendar" -> CalendarRecord(object, seq)
    [] field = "contacts" -> ContactRecord(object, seq, plan.limits, DefaultMediaTypes)

OwnDeletion(field, object, seq) ==
  CASE field = "mail"     -> MailTombstone(object, seq)
    [] field = "calendar" -> CalendarDelete(object, seq)
    [] field = "contacts" -> ContactDelete(object, seq)

\* An object of a delta page is there or was removed; what is there may have no record.
OwnFrame(field, object, seq) ==
  LET built == IF object.removed THEN OwnDeletion(field, object, seq) ELSE OwnRecord(field, object, seq)
  IN IF built = {} THEN Diagnostic(seq, "error", "source.unavailable") ELSE CHOOSE r \in built : TRUE

\* After every object in turn the one checkpoint, and in a snapshot its claim.
WithCheckpoint(records) ==
  LET made    == {i \in DOMAIN records : records[i].type = "record"}
      last    == IF made = {} THEN 0 ELSE CHOOSE i \in made : \A j \in made : j <= i
      state   == IF made = DOMAIN records THEN "complete" ELSE "partial"
  IN Append(records,
       [Checkpoint(Len(records) + 1, "own", last, Cardinality(made), TRUE) EXCEPT
          !.snapshot = {Claim(scope, state, Len(records)) : scope \in plan.snapshot_scope}])

OwnFrames ==
  WithCheckpoint([i \in DOMAIN subject.objects |-> OwnFrame(subject.field, subject.objects[i], i)])

\* Emitter::write, FrameWriter::write_value: a frame past the ceiling is not
\* written, and nothing is after it.
Written(frames, max_frame_bytes) ==
  LET over == {i \in DOMAIN frames : FrameBytes(frames[i]) > max_frame_bytes}
  IN SelectSeq(frames, LAMBDA frame :
       \E i \in DOMAIN frames : frames[i] = frame /\ \A j \in over : i < j)

LinesOf(frames) ==
  [i \in DOMAIN frames |-> [FrameLine(frames[i]) EXCEPT !.bytes = FrameBytes(frames[i])]]

\* How the process ends says nothing of what could not be written.
OwnScript(frames) ==
  [lines |-> LinesOf(Written(frames, plan.limits.max_frame_bytes)),
   ends |-> IF \A i \in DOMAIN frames : frames[i].type # "diagnostic" THEN "Completed" ELSE "Unclassified"]

Describes ==
  IF subject.field = "fixture" THEN DescribeScript(subject.scenario)
  ELSE Script(<<OwnManifest(subject.field)>>, "Completed")

Plays ==
  IF subject.field = "fixture" THEN CollectScript(subject.scenario, BuildRequest, FALSE)
  ELSE OwnScript(OwnFrames)

\* The four Fields do not read a cancel frame; the fixture's script goes on from it.
PlaysOnceCancelled ==
  IF subject.field = "fixture" THEN CollectScript(subject.scenario, BuildRequest, TRUE) ELSE script

TheManifest ==
  IF subject.field = "fixture" THEN ManifestOf(Flavor(subject.scenario)) ELSE OwnManifest(subject.field)

Staging == IF subject.field = "fixture" THEN StagedFiles(subject.scenario)
           ELSE [name \in {HandleFor(i).name : i \in DOMAIN subject.objects} |->
                   LET i == CHOOSE i \in DOMAIN subject.objects : HandleFor(i).name = name
                   IN [regular |-> TRUE, bytes |-> subject.objects[i].bytes, digest |-> "content"]]

-----------------------------------------------------------------------------
(* Describe *)

Init ==
  /\ \E test \in Tests : subject = test.subject /\ plan = test.plan
  /\ phase = "describe" /\ run = 1 /\ script = Script(<<>>, "Usage") /\ position = 0 /\ session = NoSession /\ refused = {}
  /\ cancelled = FALSE /\ exit = {} /\ notes = NothingHeld /\ undurable = {}

\* describe: the request must be sendable, the answer one manifest core can read.
DescribeCode ==
  FirstOf(<<
    DecodeCoreFrame(FrameLine(DescribeFrame)),
    IF Describes.lines = <<>> THEN "protocol.version_unsupported"
    ELSE LET line == Head(Describes.lines) IN
      IF FirstOf(<<NextFrame(line, plan.limits, 0), DecodeFieldEvent(line)>>) # "ok"
        THEN FirstOf(<<NextFrame(line, plan.limits, 0), DecodeFieldEvent(line)>>)
      ELSE IF line.tag # {"manifest"} THEN "protocol.unexpected_order"
      ELSE Negotiate({1}, 0, 1, line.frame.protocol_revision,
                     Members(line.frame.supported_protocol_versions))>>)

\* CollectSession::new with what the session keeps of the request and the manifest.
NewRun ==
  S!NewSession([tombstones       |-> TheManifest.collection.deletion.tombstones = "authoritative",
                snapshots        |-> TheManifest.collection.deletion.snapshot = "authoritative",
                version_ordering |-> TheManifest.source_key.source_version_ordering # "unsupported"],
               [mode |-> plan.mode, scope |-> plan.snapshot_scope, windowed |-> FALSE],
               plan.current_state)

StartCode ==
  FirstOf(<<IndexProperties(TheManifest), DecodeCoreFrame(FrameLine(BuildRequest))>>)

Describe ==
  /\ phase = "describe"
  /\ LET code == FirstOf(<<DescribeCode, IF DescribeCode = "ok" THEN StartCode ELSE "ok">>) IN
       IF code = "ok"
         THEN /\ phase' = "collect" /\ session' = NewRun /\ script' = Plays
              /\ UNCHANGED <<refused, exit>>
         ELSE /\ phase' = "done" /\ refused' = {code} /\ exit' = {Describes.ends}
              /\ UNCHANGED <<session, script>>
  /\ UNCHANGED <<subject, plan, run, position, cancelled, notes, undurable>>

-----------------------------------------------------------------------------
(* Collect: one frame *)

Limit(exceeded) == Refuse(exceeded, "protocol.limit_exceeded")

\* check_run_id, check_not_after_final, advance_seq
OrderCode(event) ==
  FirstOf(<<
    Refuse(~event.own_run \/ session.final_checkpoint_seq # {}, "protocol.unexpected_order"),
    Refuse(event.seq = session.last_seq, "protocol.duplicate_seq"),
    Refuse(event.seq < session.last_seq, "protocol.seq_regression"),
    Refuse(event.seq # session.last_seq + 1, "protocol.seq_gap")>>)

PropertiesCode(properties) ==
  FirstOf(<<
    Limit(Len(properties) > plan.limits.max_properties_per_record),
    EachOf(properties, LAMBDA p : Limit(\/ p.value.members > plan.limits.max_list_members
                                        \/ p.value.bytes > plan.limits.max_property_value_bytes)),
    EachOf(properties, LAMBDA p : CheckProperty(TheManifest, p.name, p.value))>>)

PrimaryNoteTypes == {"text", "message", "mail", "meeting", "call", "ticket", "document", "file",
                     "contact", "event", "voice"}

\* What accept_record refuses of a record's own content, in its order.
ContentCode(record) ==
  FirstOf(<<
    IfAny(record.object_kind, LAMBDA kind :
      Refuse(~DeclaresObjectKind(TheManifest, kind), "manifest.undeclared_capability")),
    Refuse(record.note_type # {} /\ record.note_type \cap PrimaryNoteTypes = {}, "record.invalid_note_type"),
    IfAny(record.object_kind, LAMBDA kind :
      Refuse(record.note_type \notin {{}, DeclaredNoteTypeFor(TheManifest, kind)},
             "record.note_type_not_declared")),
    Limit(\E body \in record.body : body.bytes > plan.limits.max_body_bytes),
    PropertiesCode(record.properties),
    Limit(Len(record.artifacts) > plan.limits.max_artifacts_per_record)>>)

RecordCode(record) ==
  FirstOf(<<
    OrderCode(record),
    Limit(session.record_count + 1 > plan.limits.max_run_records),
    ContentCode(record),
    Refuse(record.change = "delete" /\ ~session.manifest.tombstones, "deletion.unauthorized"),
    Refuse(S!Divergent(session, record.source.identity, Fingerprint(record)),
           "record.duplicate_divergent_in_run")>>)

CheckpointCode(checkpoint) ==
  FirstOf(<<
    OrderCode(checkpoint),
    Refuse(checkpoint.covers_record_seq_through >= checkpoint.seq, Invalid),
    Refuse(checkpoint.covers_record_seq_through < session.last_checkpoint_coverage, "protocol.unexpected_order"),
    Refuse(checkpoint.records_covered
             # Cardinality(S!NewlyCovered(session, checkpoint.covers_record_seq_through)),
           "protocol.coverage_mismatch"),
    Limit(checkpoint.cursor.bytes > plan.limits.max_cursor_bytes),
    Refuse(checkpoint.cursor_format_version # TheManifest.collection.cursor_format_version,
           "manifest.cursor_format_changed"),
    IfAny(checkpoint.snapshot, LAMBDA claim :
      FirstOf(<<Refuse(plan.mode # "snapshot", "snapshot.completeness_contradicted"),
                Refuse(plan.snapshot_scope # {claim.scope}, "snapshot.scope_widened")>>))>>)

DiagnosticCodeOf(diagnostic) ==
  FirstOf(<<OrderCode(diagnostic), Limit(session.diagnostic_count + 1 > plan.limits.max_run_diagnostics)>>)

\* The event the session is given.
Event(frame) ==
  CASE frame.type = "record" ->
         [type |-> "record", own_run |-> frame.own_run, seq |-> frame.seq,
          well_formed |-> ContentCode(frame) = "ok", key |-> frame.source.identity,
          payload |-> Fingerprint(frame)]
    [] frame.type = "checkpoint" ->
         [type |-> "checkpoint", own_run |-> frame.own_run, seq |-> frame.seq,
          well_formed |-> /\ frame.cursor.bytes <= plan.limits.max_cursor_bytes
                          /\ frame.cursor_format_version = TheManifest.collection.cursor_format_version,
          cursor |-> frame.cursor.text, covers |-> frame.covers_record_seq_through,
          records_covered |-> frame.records_covered, is_final |-> frame.is_final,
          claim |-> {[scope |-> claim.scope, state |-> claim.state] : claim \in frame.snapshot}]
    [] OTHER -> frame

Line == script.lines[position + 1]

HasLine == phase = "collect" /\ refused = {} /\ position < Len(script.lines)

\* A line that is no frame, or whose frame does not decode, ends the run unseen.
LineCode == FirstOf(<<NextFrame(Line, plan.limits, 0), DecodeFieldEvent(Line)>>)

RefuseLine ==
  /\ HasLine /\ LineCode # "ok"
  /\ session' = S!NoteRejection(session) /\ refused' = {LineCode}
  /\ UNCHANGED <<subject, plan, phase, run, script, position, cancelled, exit, notes, undurable>>

ReadsA(type) == HasLine /\ LineCode = "ok" /\ Line.tag = {type}

\* The artifacts of an accepted record, the first that fails decides.
ResolveCode(record) ==
  EachOf(record.artifacts, LAMBDA a :
    ResolveArtifact(Staging, plan.known_digests, a, plan.limits, DefaultMediaTypes))

DurablyWrites(seq) == seq \notin plan.durability

\* What the stand-in notebook holds after the record.
NotesAfter(record) ==
  LET id          == record.source.identity
      disposition == S!Disposition(session, Event(record)) IN
  CASE disposition = "no_change" -> notes
    [] disposition = "upsert"    -> (id :> record.body) @@ notes
    [] disposition = "delete"    -> [key \in DOMAIN notes \ {id} |-> notes[key]]

\* install: a write that fails rejects nothing, it only leaves the record undurable.
Install(record, accepted) ==
  IF DurablyWrites(record.seq)
    THEN /\ session' = S!RecordDurable(accepted, record.seq) /\ notes' = NotesAfter(record)
         /\ UNCHANGED undurable
    ELSE /\ session' = accepted /\ undurable' = undurable \cup {record.source.identity}
         /\ UNCHANGED notes

TakeRecord ==
  /\ ReadsA("record")
  /\ LET record   == Line.frame
         accepted == S!Accept(session, Event(record))
         resolved == S!ResolveArtifacts(accepted, ResolveCode(record) = "ok", 0)
         code     == FirstOf(<<RecordCode(record), ResolveCode(record)>>)
     IN IF code # "ok"
          THEN /\ refused' = {code}
               /\ session' = IF accepted.rejected THEN accepted ELSE resolved
               /\ UNCHANGED <<script, position, notes, undurable, cancelled>>
          ELSE /\ Install(record, resolved) /\ position' = position + 1
               /\ IF plan.cancel_after = {resolved.record_count}
                    THEN cancelled' = TRUE /\ script' = PlaysOnceCancelled
                    ELSE UNCHANGED <<cancelled, script>>
               /\ UNCHANGED refused
  /\ UNCHANGED <<subject, plan, phase, run, exit>>

\* The offer is committed, or withheld when the session will not.
Settle(offered, offer) ==
  IF S!CommitVerdict(offered, offer) = "committed"
    THEN session' = S!Commit(offered, offer)
    ELSE session' = S!Withhold(S!Commit(offered, offer), offer)

TakeCheckpoint ==
  /\ ReadsA("checkpoint")
  /\ LET event    == Event(Line.frame)
         offered  == S!Accept(session, event)
     IN IF CheckpointCode(Line.frame) # "ok"
          THEN /\ refused' = {CheckpointCode(Line.frame)} /\ session' = offered
               /\ UNCHANGED position
          ELSE /\ Settle(offered, S!OfferOf(event)) /\ position' = position + 1
               /\ UNCHANGED refused
  /\ UNCHANGED <<subject, plan, phase, run, script, cancelled, exit, notes, undurable>>

TakeDiagnostic ==
  /\ ReadsA("diagnostic")
  /\ session' = S!Accept(session, Event(Line.frame))
  /\ IF DiagnosticCodeOf(Line.frame) # "ok"
       THEN refused' = {DiagnosticCodeOf(Line.frame)} /\ UNCHANGED position
       ELSE position' = position + 1 /\ UNCHANGED refused
  /\ UNCHANGED <<subject, plan, phase, run, script, cancelled, exit, notes, undurable>>

-----------------------------------------------------------------------------
(* Collect: the end *)

\* Standard output is closed, or stays silent past the idle bound.
EndOfOutput ==
  /\ phase = "collect" /\ (refused # {} \/ position = Len(script.lines))
  /\ phase' = "done"
  /\ IF refused = {} /\ script.ends = "silent"
       THEN refused' = {"protocol.idle_timeout"} /\ session' = S!NoteRejection(session) /\ exit' = {"abort"}
       ELSE exit' = {script.ends} /\ UNCHANGED <<refused, session>>
  /\ UNCHANGED <<subject, plan, run, script, position, cancelled, notes, undurable>>

\* Another run with the cursor committed last and the state core now holds.
Resume ==
  /\ phase = "done" /\ run = 1 /\ subject.field = "fixture"
  /\ session.committed # {} /\ TheManifest = FixtureLocal
  /\ \E offer \in session.committed, scenario \in {"Resume", "ResumeAfterCrash"} :
       /\ subject' = [subject EXCEPT !.scenario = scenario]
       /\ plan' = [Incremental(plan.limits) EXCEPT
            !.cursor = {[text |-> offer.cursor, bytes |-> 41]}, !.current_state = session.seen_keys]
  /\ phase' = "describe" /\ run' = 2 /\ script' = Script(<<>>, "Usage") /\ position' = 0 /\ session' = NoSession /\ refused' = {}
  /\ cancelled' = FALSE /\ exit' = {}
  /\ UNCHANGED <<notes, undurable>>

Next == Describe \/ RefuseLine \/ TakeRecord \/ TakeCheckpoint \/ TakeDiagnostic \/ EndOfOutput \/ Resume

Spec == Init /\ [][Next]_vars

-----------------------------------------------------------------------------
(* Properties *)

\* The code each hostile scenario of the fixture is named for.
NamedCode ==
  [ DescribeVersionMismatch     |-> "protocol.version_unsupported",
    DescribeFutureVersion       |-> "protocol.version_unsupported",
    DuplicateDivergent          |-> "record.duplicate_divergent_in_run",
    TombstoneUnauthorized       |-> "deletion.unauthorized",
    TombstoneLocalUnauthorized  |-> "deletion.unauthorized",
    SnapshotScopeWidened        |-> "snapshot.scope_widened",
    MalformedNotJson            |-> "protocol.not_json",
    MalformedUnknownEvent       |-> "protocol.unknown_event",
    MalformedSeqRegression      |-> "protocol.seq_regression",
    MalformedDuplicateSeq       |-> "protocol.duplicate_seq",
    MalformedSeqGap             |-> "protocol.seq_gap",
    MalformedInvalidUtf8        |-> "protocol.invalid_utf8",
    MalformedOversizedFrame     |-> "protocol.oversized_frame",
    MalformedTruncatedFrame     |-> "protocol.truncated_frame",
    Hang                        |-> "protocol.idle_timeout",
    ArtifactTraversalHandle     |-> "artifact.invalid_handle",
    ArtifactAbsoluteHandle      |-> "artifact.invalid_handle",
    ArtifactDeviceNameHandle    |-> "artifact.invalid_handle",
    ArtifactSymlinkEscape       |-> "artifact.not_regular_file",
    ArtifactDigestMismatch      |-> "artifact.digest_mismatch",
    ArtifactUnknownDigest       |-> "artifact.unknown_digest",
    ArtifactMissingStagedFile   |-> "artifact.missing_staged_file",
    ArtifactOversized           |-> "artifact.oversized",
    ArtifactLengthMismatch      |-> "artifact.length_mismatch",
    ArtifactTypeExcludedHostile |-> "artifact.type_excluded",
    PropertyUndeclared          |-> "record.undeclared_property",
    PropertyForeignPrefix       |-> "record.foreign_prefix",
    PropertyUnknown             |-> "record.unknown_property",
    PropertyTypeMismatch        |-> "record.property_type_mismatch",
    PropertyCoreOwned           |-> "protocol.schema_invalid",
    PropertyInvalidDate         |-> "record.invalid_date",
    PropertyDerivedRecordOnly   |-> "record.unknown_property",
    NoteTypeInvalid             |-> "record.invalid_note_type",
    NoteTypeNotDeclared         |-> "record.note_type_not_declared",
    CapabilityUndeclared        |-> "manifest.undeclared_capability" ]

\* What the plan changes of that: a scenario is refused for what it does only
\* under a plan that lets it get there.
ExpectedRefusal ==
  LET scenario == subject.scenario IN
  CASE scenario \in {"SnapshotComplete", "SnapshotPartial", "SnapshotScopeWidened"}
         /\ plan.mode = "incremental" -> {"snapshot.completeness_contradicted"}
    [] scenario = "ArtifactDigestOnly" /\ plan.known_digests = {} -> {"artifact.unknown_digest"}
    [] scenario = "ArtifactOversized" /\ plan.limits = Ceilings -> {Invalid}
    [] scenario = "Cancel" /\ ~cancelled -> {"protocol.idle_timeout"}
    [] OTHER -> IF scenario \in DOMAIN NamedCode THEN {NamedCode[scenario]} ELSE {}

\* The names the tests use are codes of the vocabulary.
ASSUME NamedCodeAssumption == \A scenario \in DOMAIN NamedCode : NamedCode[scenario] \in RejectionCode

\* A run of a hostile Field ends with the one code its test names, whichever of
\* the layers (frame, message, session, artifact, host) is the first to look,
\* and a run of a well-behaved one with none.  The order of the checks decides
\* in each of decode, accept_record and resolve_artifact.
RefusedForItsReason ==
  phase = "done" /\ subject.field = "fixture" => refused = ExpectedRefusal

\* What core admits of an object: everybody it names is an anchor of the record,
\* and only mail and local files cut their text.
Admissible(field, object) ==
  CASE field = "local"    -> TRUE
    [] field = "mail"     -> Cardinality(Participants(object)) <= 256
    [] field = "calendar" -> /\ Len(CalendarAnchorsOf(object)) <= 256
                             /\ object.subject <= 65536
    [] field = "contacts" -> /\ Len(ContactAnchorsOf(object)) <= 256
                             /\ TitleOf(object) <= 65536 /\ object.company <= 65536

\* A Field's own records pass its own manifest and the run's limits: a run is
\* refused exactly for an object larger than the protocol, and then for all of
\* its other objects too.
OwnRecordsAreAdmitted ==
  phase = "done" /\ subject.field # "fixture" =>
    (refused = {} <=> \A i \in DOMAIN subject.objects :
                        \/ subject.objects[i].removed
                        \/ Admissible(subject.field, subject.objects[i]))

ExitOf == IF exit \in {{}, {"abort"}} THEN "killed"
          ELSE IF \A code \in exit : ExitCode[code] = 0 THEN "zero" ELSE "nonzero"

\* The run has shown that what it did not send is gone.
EnumeratedAll ==
  /\ plan.mode = "snapshot" /\ undurable = {} /\ refused = {}
  /\ IF subject.field = "fixture" THEN subject.scenario = "SnapshotComplete"
     ELSE \A i \in DOMAIN subject.objects : subject.objects[i].id \in DOMAIN notes

\* Deletion by absence is authorized exactly by a run that enumerated and kept
\* the whole scope, for the fixture's snapshots and for the local Field's.
AbsenceIsProven ==
  phase = "done" /\ session # NoSession =>
    (S!DeletionAuthorized(session, ExitOf) <=> EnumeratedAll)
=============================================================================
