------------------------------ MODULE Fixture -------------------------------
(***************************************************************************)
(* The Field the conformance tests run: fieldnotes-field-fixture.  Asked   *)
(* to describe or to collect, it plays the script of one named scenario.   *)
(* A script is the lines it writes and how the process ends; the files a   *)
(* scenario stages are in place before the frame that names them.          *)
(***************************************************************************)
EXTENDS FieldRecords

(* Records *)

FileSlice     == LocalCapabilities[1]
DocumentSlice == LocalCapabilities[2]
MailSlice     == MailCapabilities[1]

FileProperties ==
  Property("", "title", Text(17)) \o Property("local", "media_type", Text(13))
    \o Property("local", "relative_path", Text(26))

Readme(seq) ==
  Asserts(seq, SourceOf("readme", {"r1"}, {}), FileSlice, FileProperties, 83, FALSE, <<>>, <<>>)

ReadmeDivergent(seq) == [Readme(seq) EXCEPT !.body = {[text |-> "rewritten", bytes |-> 90]}]

Timeline(seq) ==
  Asserts(seq, SourceOf("timeline", {"t1"}, {}), FileSlice, FileProperties, 70, FALSE, <<>>, <<>>)

Agreement(seq) ==
  Asserts(seq, SourceOf("agreement", {"a1"}, {}), DocumentSlice,
    FileProperties
      \o Property("local", "document_date", [Text(10) EXCEPT !.reads = {"date"}])
      \o Property("local", "document_flag", Text(4)) \o Property("local", "tags", Texts(2, 9)),
    90, FALSE, <<>>, <<>>)

ReadmeWithArtifact(seq, artifact) == [Readme(seq) EXCEPT !.artifacts = <<artifact>>]

\* `set` of one property: it replaces the value of a name that is there.
SetProperty(record, stem, rest, value) ==
  [record EXCEPT !.properties =
     SelectSeq(@, LAMBDA p : p.name # <<stem, rest>>) \o Property(stem, rest, value)]

ReadmeWithProperty(seq, stem, rest, value) == SetProperty(Readme(seq), stem, rest, value)

ReadmeWithNoteType(seq, note_type) == [Readme(seq) EXCEPT !.note_type = {note_type}]

AgreementWithProperty(seq, stem, rest, value) == SetProperty(Agreement(seq), stem, rest, value)

MailTombstoneFrame(seq)  == Removes(seq, "message", MailSlice.object_kind)
LocalTombstoneFrame(seq) == Removes(seq, "timeline", FileSlice.object_kind)

MailHeaders ==
  Property("", "subject", Text(22)) \o Property("", "from", Text(17))
    \o Property("", "to", Texts(1, 15)) \o Property("", "participants", Texts(2, 17))
    \o Property("", "conversation_id", Text(10)) \o Property("", "thread_id", Text(25))
    \o Property("outlook_mail", "importance", Text(6))
    \o Property("outlook_mail", "internet_message_id", Text(31))
    \o Property("outlook_mail", "folder_path", Text(5))
    \o Property("outlook_mail", "has_attachments", Flag)

MailMessage(seq) ==
  Asserts(seq, SourceOf("message", {"m1"}, {51}), MailSlice,
    MailHeaders \o Property("", "cc", Texts(1, 17)) \o Property("outlook_mail", "categories", Texts(2, 8)),
    120, FALSE, <<>>, Anchors(NormalizedAnchor("email", "email_v1"), 2, {"sender"}))

-----------------------------------------------------------------------------
(* Artifacts *)

ArtifactBytes == 40

Handle(name) == [HandleFor(0) EXCEPT !.name = name, !.bytes = 5]

Staged(handle, sha256, bytes, media_type) ==
  [kind |-> "staged", handle |-> {handle}, sha256 |-> sha256, byte_length |-> {bytes},
   media_type |-> media_type, source_filename |-> {}, attachment_ref |-> {}]

DigestOnly(digest, media_type) ==
  [kind |-> "digest_only", handle |-> {}, sha256 |-> {digest}, byte_length |-> {},
   media_type |-> {media_type}, source_filename |-> {19}, attachment_ref |-> {}]

Markdown == {<<"text", "markdown">>}

ReadmeWithStagedArtifact(seq, name) ==
  ReadmeWithArtifact(seq, Staged(Handle(name), {"artifact"}, ArtifactBytes, Markdown))

StandupRecordingDeclined(seq) ==
  Asserts(seq, SourceOf("standup", {"s1"}, {51}), MailSlice, MailHeaders, 100, FALSE,
    << Staged(Handle("a0021"), {"artifact"}, ArtifactBytes, {<<"text", "plain">>}),
       NotRetainedRef(641728512, {<<"video", "mp4">>}, {26}) >>, <<>>)

StandupRecordingHostileStagedVideo(seq) ==
  [StandupRecordingDeclined(seq) EXCEPT !.artifacts =
     <<Staged(Handle("a0022"), {"artifact"}, ArtifactBytes, {<<"video", "mp4">>})>>]

\* What each scenario puts into the staging directory (stage, stage_escape).
File(name) == name :> [regular |-> TRUE, bytes |-> ArtifactBytes, digest |-> "artifact"]

StagedFiles(scenario) ==
  CASE scenario = "Incremental"                  -> File("a0001")
    [] scenario = "ArtifactSymlinkEscape"        -> "a0004" :> [regular |-> FALSE, bytes |-> 0, digest |-> ""]
    [] scenario = "ArtifactDigestMismatch"       -> File("a0005")
    [] scenario = "ArtifactLengthMismatch"       -> File("a0011")
    [] scenario = "ArtifactTypeExcludedDeclined" -> File("a0021")
    [] scenario = "ArtifactTypeExcludedHostile"  -> File("a0022")
    [] OTHER                                     -> <<>>

-----------------------------------------------------------------------------
(* Checkpoints and diagnostics *)

Checkpoint(seq, cursor, covers, count, is_final) ==
  [type |-> "checkpoint", own_run |-> TRUE, seq |-> seq, cursor |-> [text |-> cursor, bytes |-> 41],
   cursor_format_version |-> 1, covers_record_seq_through |-> covers, records_covered |-> count,
   snapshot |-> {}, is_final |-> is_final]

Claim(scope, state, objects) == [scope |-> scope, state |-> state, objects_enumerated |-> {objects}]

SnapshotCheckpoint(seq, cursor, covers, count, claim) ==
  [Checkpoint(seq, cursor, covers, count, TRUE) EXCEPT !.snapshot = {claim}]

Diagnostic(seq, severity, code) ==
  [type |-> "diagnostic", own_run |-> TRUE, seq |-> seq, severity |-> severity, code |-> code,
   message |-> 80, source |-> {}, retry_after_seconds |-> {}, redacted |-> {}]

SkippedDiagnostic(seq)     == Diagnostic(seq, "warning", "content.skipped")
UnavailableDiagnostic(seq) == Diagnostic(seq, "error", "source.unavailable")
CancelledDiagnostic(seq)   == Diagnostic(seq, "warning", "run.cancelled")
LeakingDiagnostic(seq)     == Diagnostic(seq, "warning", "internal.error")

RedactedAuthDiagnostic(seq) ==
  [Diagnostic(seq, "error", "auth.reauth_required") EXCEPT
     !.redacted = {<<"authorization", "continuation_url", "www_authenticate_realm">>}]

-----------------------------------------------------------------------------
(* Describe *)

ManifestOf(flavor) ==
  CASE flavor = "Local"                 -> FixtureLocal
    [] flavor = "LocalCursorFormat2"    -> FixtureLocalCursorFormat2
    [] flavor = "LocalRetypedProperty"  -> FixtureLocalRetyped
    [] flavor = "LocalWithTombstones"   -> FixtureLocalWithTombstones
    [] flavor = "Mail"                  -> FixtureMail
    [] flavor = "MailWithoutTombstones" -> FixtureMailWithoutTombstones

Flavor(scenario) ==
  CASE scenario = "DescribeVersionMismatch"  -> "NoSharedVersion"
    [] scenario = "DescribeFutureVersion"    -> "FutureVersion"
    [] scenario = "DescribeCursorFormat2"    -> "LocalCursorFormat2"
    [] scenario = "DescribeRetypedProperty"  -> "LocalRetypedProperty"
    [] scenario = "TombstoneLocal"           -> "LocalWithTombstones"
    [] scenario = "TombstoneUnauthorized"    -> "MailWithoutTombstones"
    [] scenario \in {"Tombstone", "RedactedDiagnostic", "ArtifactTypeExcludedDeclined",
                     "ArtifactTypeExcludedHostile", "DescribeMail"} -> "Mail"
    [] OTHER                                 -> "Local"

Script(frames, ends) == [lines |-> [i \in DOMAIN frames |-> FrameLine(frames[i])], ends |-> ends]

DescribeScript(scenario) ==
  CASE Flavor(scenario) = "NoSharedVersion" -> Script(<<>>, "Negotiation")
    [] Flavor(scenario) = "FutureVersion"   -> [lines |-> <<FixtureFutureVersion>>, ends |-> "Completed"]
    [] OTHER                                -> Script(<<ManifestOf(Flavor(scenario))>>, "Completed")

-----------------------------------------------------------------------------
(* Collect *)

LocalTombstoneRun(ends) == Script(<<LocalTombstoneFrame(1), Checkpoint(2, "walk-1", 1, 1, TRUE)>>, ends)
MailTombstoneRun(ends)  == Script(<<MailTombstoneFrame(1), Checkpoint(2, "delta-2", 1, 1, TRUE)>>, ends)

ReplayScripts ==
  [ Incremental |->
      Script(<<ReadmeWithStagedArtifact(1, "a0001"), Agreement(2), Checkpoint(3, "walk-2", 2, 2, TRUE)>>,
             "Completed"),
    DuplicateReplay    |-> Script(<<Readme(1), Readme(2), Checkpoint(3, "walk-2", 2, 2, TRUE)>>, "Completed"),
    DuplicateDivergent |-> Script(<<Readme(1), ReadmeDivergent(2)>>, "Internal") ]

TombstoneScripts ==
  [ TombstoneLocal             |-> LocalTombstoneRun("Completed"),
    TombstoneLocalUnauthorized |-> LocalTombstoneRun("Internal"),
    Tombstone                  |-> MailTombstoneRun("Completed"),
    TombstoneUnauthorized      |-> MailTombstoneRun("Internal") ]

ResumeScripts(cursor) ==
  [ Resume |->
      IF cursor = {}
        THEN Script(<<Readme(1), Agreement(2), Timeline(3), Checkpoint(4, "walk-3", 3, 3, TRUE)>>, "Completed")
        ELSE Script(<<SkippedDiagnostic(1), Timeline(2), Checkpoint(3, "walk-3", 2, 1, TRUE)>>, "Completed"),
    ResumeAfterCrash |->
      IF cursor = {} THEN Script(<<>>, "CursorUnusable")
        ELSE Script(<<Agreement(1), Checkpoint(2, "walk-4", 1, 1, TRUE)>>, "Completed") ]

\* The scope core asked for, or one of the Field's own.
SnapshotScripts(scope) ==
  [ SnapshotComplete |->
      Script(<<Readme(1), Agreement(2),
               SnapshotCheckpoint(3, "generation-7", 2, 2, Claim(scope, "complete", 2))>>, "Completed"),
    SnapshotPartial |->
      Script(<<Readme(1), UnavailableDiagnostic(2),
               SnapshotCheckpoint(3, "prefix", 1, 1, Claim(scope, "partial", 1))>>, "SourceUnavailable"),
    SnapshotScopeWidened |->
      Script(<<Readme(1),
               SnapshotCheckpoint(2, "generation-8", 1, 1, Claim("everything", "complete", 1))>>, "Internal"),
    RedactedDiagnostic |->
      Script(<<MailMessage(1), Checkpoint(2, "delta-3", 1, 1, FALSE), RedactedAuthDiagnostic(3)>>,
             "Authentication") ]

\* Lines no well-behaved emitter writes.
MalformedScripts(limits) ==
  LET begun    == <<Readme(1), Checkpoint(2, "walk-2", 1, 1, FALSE)>>
      raw      == FrameLine([type |-> "raw"])
      after(line) == [lines |-> Script(begun, "").lines \o <<line>>, ends |-> "Internal"]
      only(line)  == [lines |-> <<line>>, ends |-> "Internal"]
  IN [ MalformedNotJson        |-> after([raw EXCEPT !.json = FALSE]),
       MalformedUnknownEvent   |-> only([raw EXCEPT !.tag = {"note"}]),
       MalformedSeqRegression  |-> after(FrameLine(Readme(1))),
       MalformedDuplicateSeq   |-> Script(<<Readme(1), Agreement(1)>>, "Internal"),
       MalformedSeqGap         |-> Script(<<Readme(1), Agreement(3)>>, "Internal"),
       MalformedInvalidUtf8    |-> only([raw EXCEPT !.utf8 = FALSE]),
       MalformedOversizedFrame |-> only([FrameLine(Readme(1)) EXCEPT !.bytes = limits.max_frame_bytes + 1500]),
       MalformedTruncatedFrame |-> only([raw EXCEPT !.terminated = FALSE, !.bytes = 80]) ]

ArtifactScripts(limits) ==
  LET refused(artifact) == Script(<<ReadmeWithArtifact(1, artifact)>>, "Internal")
      taken(record)     == Script(<<record, Checkpoint(2, "walk-1", 1, 1, TRUE)>>, "Completed")
  IN [ ArtifactDigestOnly |-> taken(ReadmeWithArtifact(1, DigestOnly("artifact", <<"text", "plain">>))),
       ArtifactTraversalHandle  |-> refused(Staged([Handle("..") EXCEPT !.first = "other", !.characters = "other"], {}, 4096, {})),
       ArtifactAbsoluteHandle   |-> refused(Staged([Handle("/") EXCEPT !.first = "other", !.characters = "other"], {}, 464, {})),
       ArtifactDeviceNameHandle |-> refused(Staged([Handle("nul") EXCEPT !.device = TRUE], {}, 0, {})),
       ArtifactSymlinkEscape    |-> Script(<<ReadmeWithStagedArtifact(1, "a0004")>>, "Internal"),
       ArtifactDigestMismatch   |-> refused(Staged(Handle("a0005"), {"wrong"}, ArtifactBytes, Markdown)),
       ArtifactUnknownDigest    |-> refused(DigestOnly("unknown", <<"application", "octet-stream">>)),
       ArtifactMissingStagedFile |-> Script(<<ReadmeWithStagedArtifact(1, "a0009")>>, "Internal"),
       ArtifactOversized        |-> refused(Staged(Handle("a0010"), {}, limits.max_artifact_bytes + 1,
                                                   {<<"application", "octet-stream">>})),
       ArtifactLengthMismatch   |-> refused(Staged(Handle("a0011"), {}, ArtifactBytes - 1, Markdown)),
       ArtifactNotRetained      |-> taken(ReadmeWithArtifact(1,
                                      NotRetainedRef(1073741824, {<<"application", "zip">>}, {15}))),
       ArtifactTypeExcludedDeclined |-> taken(StandupRecordingDeclined(1)),
       ArtifactTypeExcludedHostile  |-> Script(<<StandupRecordingHostileStagedVideo(1)>>, "Internal") ]

PropertyScripts ==
  LET refused(record) == Script(<<record>>, "Internal") IN
  [ PropertyUndeclared    |-> refused(ReadmeWithProperty(1, "local", "inode_number", Number)),
    PropertyForeignPrefix |-> refused(ReadmeWithProperty(1, "teams", "chat_id", Text(6))),
    PropertyUnknown       |-> refused(ReadmeWithProperty(1, "", "checksum_kind", Text(6))),
    PropertyTypeMismatch  |-> refused(SetProperty(AgreementWithProperty(1, "local", "document_flag", Flag),
                                                  "local", "tags", Text(9))),
    PropertyCoreOwned     |-> refused(SetProperty(ReadmeWithProperty(1, "", "id", Text(41)),
                                                  "", "content_hash", Text(25))),
    NoteTypeInvalid       |-> refused(ReadmeWithNoteType(1, "email")),
    NoteTypeNotDeclared   |-> refused(ReadmeWithNoteType(1, "document")),
    PropertyInvalidDate   |-> refused(AgreementWithProperty(1, "local", "document_date", Text(10))),
    PropertyDerivedRecordOnly |-> refused(ReadmeWithProperty(1, "", "confidence", Number)),
    CapabilityUndeclared  |-> refused([Readme(1) EXCEPT !.object_kind = {"mailbox"}]) ]

\* Without the cancel frame it asked for, the Cancel scenario reads on.
InterruptedScripts(mode, scope, cancelled) ==
  LET begun == <<Readme(1), Checkpoint(2, "walk-2", 1, 1, FALSE)>>
      last  == IF mode = "snapshot" THEN SnapshotCheckpoint(3, "prefix", 1, 1, Claim(scope, "partial", 1))
                                    ELSE Checkpoint(3, "prefix", 1, 1, TRUE)
  IN [ Cancel |-> IF cancelled THEN Script(<<Readme(1), CancelledDiagnostic(2), last>>, "Cancelled")
                               ELSE Script(<<Readme(1)>>, "silent"),
       CrashAfterCheckpoint  |-> Script(begun, "abort"),
       CrashBeforeCheckpoint |-> Script(Append(begun, Agreement(3)), "abort"),
       ExitBeforeCheckpoint  |-> Script(Append(begun, Agreement(3)), "Unclassified"),
       StderrFlood           |-> Script(<<Readme(1), Checkpoint(2, "walk-1", 1, 1, TRUE)>>, "Completed"),
       Hang                  |-> Script(<<>>, "silent"),
       LeakSecretInDiagnostic |->
         Script(<<Readme(1), LeakingDiagnostic(2), Checkpoint(3, "walk-1", 1, 1, TRUE)>>, "Completed"),
       LeakSecretInCursor    |-> Script(<<Readme(1), Checkpoint(2, "token", 1, 1, TRUE)>>, "Completed") ]

\* What the scenario plays for a request; `cancelled`: core sent a cancel frame.
CollectScript(scenario, request, cancelled) ==
  LET scope == IF request.snapshot_scope = {} THEN "local-root" ELSE CHOOSE s \in request.snapshot_scope : TRUE
      played == ReplayScripts @@ TombstoneScripts @@ ResumeScripts(request.cursor)
                  @@ SnapshotScripts(scope) @@ MalformedScripts(request.limits)
                  @@ ArtifactScripts(request.limits) @@ PropertyScripts
                  @@ InterruptedScripts(request.mode, scope, cancelled)
  IN IF scenario \in DOMAIN played THEN played[scenario] ELSE Script(<<>>, "Usage")
=============================================================================
