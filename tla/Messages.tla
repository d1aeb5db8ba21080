------------------------------ MODULE Messages ------------------------------
(***************************************************************************)
(* The frames of protocol v1: what each message holds, what `validate`     *)
(* refuses of it, how a line of a process' standard output becomes a frame,*)
(* and how core resolves an artifact a frame names (message.rs, framing.rs,*)
(* artifact.rs).  A message is a record with the members of its Rust       *)
(* struct that a check or a caller reads; prose is left out, the run ID is *)
(* whether it is this run's.                                               *)
(***************************************************************************)
EXTENDS Wire

Bounded(list, max) == Refuse(Len(list) > max, Invalid)

\* Scope tokens are their lengths.
BoundedScopes(scopes) ==
  FirstOf(<<Bounded(scopes, 64), Refuse(\E i \in DOMAIN scopes : scopes[i] \notin 1..255, Invalid)>>)

-----------------------------------------------------------------------------
(* Describe: the request and the manifest *)

DescribeRequest ==
  [type : {"describe"}, supported_protocol_versions : Seq(Nat), max_protocol_revision : Nat,
   limits : Opt(Limits), deadline : Deadlines]

ValidateDescribeRequest(r) ==
  FirstOf(<<ValidateVersions(r.supported_protocol_versions),
            Refuse(r.max_protocol_revision > MaxVersion, Invalid),
            IfAny(r.limits, ValidateLimits),
            ValidateDeadline(r.deadline)>>)

DeclaredProperty ==
  [name : Names, shape : [type : {"text", "number", "boolean", "date", "datetime"}, list : BOOLEAN],
   list_semantics : Opt({"set", "ordered"})]

\* A list says whether its order means anything, a scalar does not.
ValidateDeclaredProperty(p) == Refuse(p.shape.list # (p.list_semantics # {}), Invalid)

CapabilitySlice == [object_kind : STRING, note_type : STRING, emits_artifacts : BOOLEAN,
                    emits_identity_anchors : BOOLEAN]

SourceVersionOrdering ==
  {"unsupported", "numeric_ascending", "lexicographic_ascending", "rfc3339_instant_ascending"}

SourceKeyDeclaration ==
  [scope_rule : STRING, scope_rule_version : Nat, source_version_ordering : SourceVersionOrdering,
   scope_depends_on_field_label : {FALSE}, identity_includes_object_kind : {TRUE},
   stable_across_instances : {TRUE}]

IdentityScopeClass ==
  {"source_global", "authority_scoped", "namespace_scoped", "normalized_channel", "weak_descriptive"}

IdentityAnchorDeclaration ==
  [namespace : STRING, scope_class : IdentityScopeClass,
   normalization_rule : Opt(STRING), normalization_version : Opt(Nat),
   substitutes_for_source_key : {FALSE}]

\* A normalized identity is worth nothing without the rule that made it.
ValidateAnchorDeclaration(a) ==
  Refuse(/\ a.scope_class = "normalized_channel"
         /\ a.normalization_rule = {} \/ a.normalization_version = {}, Invalid)

AuthKind == {"none", "api_token", "basic", "oauth_device_code", "oauth_authorization_code",
             "oauth_client_credentials"}

RefreshOwner == {"core", "field", "not_applicable"}

AuthDeclaration ==
  [kind : AuthKind, credential_profile_required : BOOLEAN, protected_channel_required : BOOLEAN,
   scopes : Seq(Nat), refresh_owner : RefreshOwner, writes_to_source : {FALSE}]

ValidateAuth(a) ==
  FirstOf(<<
    BoundedScopes(a.scopes),
    Refuse(/\ a.kind = "none"
           /\ \/ a.credential_profile_required \/ a.protected_channel_required
              \/ a.refresh_owner # "not_applicable", Invalid)>>)

DeletionDeclaration ==
  [tombstones : {"authoritative", "unsupported"},
   snapshot : {"authoritative", "partial_only", "unsupported"}]

CollectionMode == {"incremental", "snapshot"}

CollectionDeclaration ==
  [incremental : BOOLEAN, cursor_format_version : Nat, supported_modes : Seq(CollectionMode),
   window_supported : BOOLEAN, refetch : {"supported", "bounded", "unsupported"},
   deletion : DeletionDeclaration]

\* Deletion by absence needs the mode that can show an absence.
ValidateCollection(c) ==
  LET modes == c.supported_modes IN
  Refuse(\/ Len(modes) \notin 1..2 \/ (Len(modes) = 2 /\ modes[1] = modes[2])
         \/ c.cursor_format_version = 0
         \/ (c.deletion.snapshot = "authoritative" /\ \A i \in DOMAIN modes : modes[i] # "snapshot"),
         Invalid)

\* A limitation is its diagnostic code.
Manifest ==
  [type : {"manifest"}, protocol_revision : Nat, supported_protocol_versions : Seq(Nat),
   driver : STRING, field_stem : STRING, property_prefix : Opt(STRING),
   declared_properties : Seq(DeclaredProperty), capabilities : Seq(CapabilitySlice),
   source_key : SourceKeyDeclaration, identity_anchors : Seq(IdentityAnchorDeclaration),
   auth : AuthDeclaration, collection : CollectionDeclaration, limitations : Seq(DiagnosticCode)]

SlicesOf(manifest, kind) ==
  SelectSeq(manifest.capabilities, LAMBDA slice : slice.object_kind = kind)

DeclaresObjectKind(manifest, kind) == SlicesOf(manifest, kind) # <<>>

\* The note type of the first slice of the kind, the only one that counts.
DeclaredNoteTypeFor(manifest, kind) ==
  IF DeclaresObjectKind(manifest, kind) THEN {Head(SlicesOf(manifest, kind)).note_type} ELSE {}

ValidateManifest(m) ==
  FirstOf(<<ValidateVersions(m.supported_protocol_versions),
            Refuse(m.protocol_revision > MaxVersion, Invalid),
            Bounded(m.declared_properties, 512),
            EachOf(m.declared_properties, ValidateDeclaredProperty),
            Refuse(m.capabilities = <<>>, Invalid), Bounded(m.capabilities, 64),
            Bounded(m.identity_anchors, 64), EachOf(m.identity_anchors, ValidateAnchorDeclaration),
            Bounded(m.limitations, 64),
            Refuse(m.source_key.scope_rule_version = 0, Invalid),
            ValidateAuth(m.auth), ValidateCollection(m.collection)>>)

-----------------------------------------------------------------------------
(* Collect: what core sends *)

\* The path of a channel is its length.
ChannelDescriptor == [kind : {"unix_socket_path", "windows_named_pipe"}, path : Opt(Nat)]

ValidateChannel(c) == Refuse(c.path = {} \/ \E bytes \in c.path : bytes \notin 1..4096, Invalid)

CredentialGrant ==
  [profile_ref : STRING, grant_id : Guard.GrantId, channel : ChannelDescriptor, scopes : Seq(Nat)]

ValidateGrant(g) == FirstOf(<<BoundedScopes(g.scopes), ValidateChannel(g.channel)>>)

RecollectTarget == [scope : STRING, identity : STRING]

\* A cursor is what it says and its length.
CollectRequest ==
  [type : {"collect"}, protocol_revision : Nat, mode : CollectionMode,
   cursor : Opt([text : STRING, bytes : Guard.Cursor]), cursor_format_version : Opt(Nat),
   window : Opt({"window"}), snapshot_scope : Opt(STRING), credential : Opt(CredentialGrant),
   artifact_staging_dir : Nat, limits : Limits, deadline : Deadlines,
   artifact_media_types : SUBSET (STRING \X STRING), recollect_targets : Opt(Seq(RecollectTarget))]

\* Named targets stand alone: no cursor, no window, no snapshot.
ValidateCollectRequest(r) ==
  FirstOf(<<
    Refuse(r.protocol_revision > MaxVersion, Invalid),
    Refuse(r.cursor # {} /\ r.cursor_format_version = {}, Invalid),
    Refuse((r.mode = "snapshot") # (r.snapshot_scope # {}), Invalid),
    Refuse(r.artifact_staging_dir \notin 1..4096, Invalid),
    Refuse(Cardinality(r.artifact_media_types) \notin 1..128, Invalid),
    IfAny(r.credential, ValidateGrant),
    IfAny(r.cursor, LAMBDA cursor : Refuse(cursor.bytes > r.limits.max_cursor_bytes, Invalid)),
    IfAny(r.recollect_targets, LAMBDA targets :
      Refuse(\/ Len(targets) \notin 1..128 \/ r.cursor # {} \/ r.window # {}
             \/ r.mode = "snapshot", Invalid)),
    ValidateLimits(r.limits), ValidateDeadline(r.deadline)>>)

Cancel ==
  [type : {"cancel"}, grace_seconds : Nat,
   reason : {"user_requested", "deadline", "shutdown", "limit_exceeded", "core_error"}]

ValidateCancel(c) == Refuse(c.grace_seconds \notin 1..120, Invalid)

-----------------------------------------------------------------------------
(* Collect: what a Field answers *)

SourceRef == [scope : STRING, identity : STRING, version : Opt(STRING), url : Opt(Nat)]

ValidateSource(s) == Refuse(\E bytes \in s.url : bytes > 4096, Invalid)

ArtifactRef ==
  [kind : {"staged", "digest_only", "not_retained"}, handle : Opt(Handles), sha256 : Opt(STRING),
   byte_length : Opt(Nat), media_type : Opt(STRING \X STRING), source_filename : Opt(Nat),
   attachment_ref : Opt(Guard.AttachmentRef)]

ParsedHandle(a) == FirstOf(<<Refuse(a.handle = {}, Invalid), IfAny(a.handle, ParseHandle)>>)

\* Exactly one way to know the bytes: a file, a digest, or the source itself.
ValidateArtifact(a) ==
  FirstOf(<<
    Refuse(\E bytes \in a.source_filename : bytes \notin 1..255, Invalid),
    CASE a.kind = "staged" ->
           FirstOf(<<ParsedHandle(a),
                     Refuse(\/ a.byte_length = {} \/ \E bytes \in a.byte_length : bytes > 536870912
                            \/ a.attachment_ref # {}, Invalid)>>)
      [] a.kind = "digest_only" ->
           Refuse(a.sha256 = {} \/ a.handle # {} \/ a.byte_length # {} \/ a.attachment_ref # {}, Invalid)
      [] a.kind = "not_retained" ->
           Refuse(a.handle # {} \/ a.sha256 # {} \/ a.attachment_ref = {}, Invalid)>>)

AnchorRole == {"subject", "sender", "recipient", "organizer", "attendee", "participant",
               "mentioned", "assignee", "reporter", "owner", "other"}

\* An anchor's value is its length.
IdentityAnchor ==
  [namespace : STRING, value : Nat, scope_class : IdentityScopeClass, scope : Opt(STRING),
   normalization_rule : Opt(STRING), normalization_version : Opt(Nat), role : Opt(AnchorRole)]

ValidateAnchor(a) ==
  Refuse(\/ a.value \notin 1..1024
         \/ (a.scope_class \in {"authority_scoped", "namespace_scoped"} /\ a.scope = {})
         \/ (/\ a.scope_class = "normalized_channel"
             /\ a.normalization_rule = {} \/ a.normalization_version = {}), Invalid)

Integrity == [damaged : BOOLEAN, truncated : BOOLEAN]

\* A body is the text it stands for and its length.
RecordEvent ==
  [type : {"record"}, own_run : BOOLEAN, seq : Nat, change : {"upsert", "delete"}, source : SourceRef,
   object_kind : Opt(STRING), note_type : Opt(STRING), occurred_at : Opt({"instant"}),
   properties : Properties, body : Opt([text : STRING, bytes : Nat]), artifacts : Seq(ArtifactRef),
   identity_anchors : Seq(IdentityAnchor), integrity : Opt(Integrity),
   authority : Opt({"tombstone"}), observed_at : Opt({"instant"})]

\* A deletion is never to be taken for an empty record, nor the other way round.
ValidateRecord(r) ==
  FirstOf(<<
    Refuse(r.seq \notin 1..1000000, Invalid),
    ValidateSource(r.source),
    IF r.change = "upsert"
      THEN Refuse(\/ r.authority # {} \/ r.observed_at # {}
                  \/ {} \in {r.object_kind, r.note_type, r.occurred_at, r.body}, Invalid)
      ELSE Refuse(\/ {} \in {r.object_kind, r.authority, r.observed_at}
                  \/ r.note_type # {} \/ r.occurred_at # {} \/ r.properties # <<>> \/ r.body # {}
                  \/ r.artifacts # <<>> \/ r.identity_anchors # <<>> \/ r.integrity # {}, Invalid),
    Refuse(\E body \in r.body : body.bytes > 1048576, Invalid),
    Bounded(r.artifacts, 64), EachOf(r.artifacts, ValidateArtifact),
    Bounded(r.identity_anchors, 256), EachOf(r.identity_anchors, ValidateAnchor)>>)

SnapshotClaim == [scope : STRING, state : {"complete", "partial"}, objects_enumerated : Opt(Nat)]

CheckpointEvent ==
  [type : {"checkpoint"}, own_run : BOOLEAN, seq : Nat, cursor : [text : STRING, bytes : Guard.Cursor],
   cursor_format_version : Nat, covers_record_seq_through : Nat, records_covered : Nat,
   snapshot : Opt(SnapshotClaim), is_final : BOOLEAN]

ValidateCheckpoint(c) ==
  Refuse(\/ c.seq \notin 1..1000000
         \/ c.covers_record_seq_through > 1000000 \/ c.records_covered > 1000000
         \/ c.cursor_format_version = 0
         \/ \E claim \in c.snapshot : \E n \in claim.objects_enumerated : n > 1000000000, Invalid)

Severity == {"info", "warning", "error"}

\* The names of what was redacted are taken to have a legal length.
DiagnosticEvent ==
  [type : {"diagnostic"}, own_run : BOOLEAN, seq : Nat, severity : Severity, code : DiagnosticCode,
   message : Guard.MessageText, source : Opt(SourceRef), retry_after_seconds : Opt(Nat),
   redacted : Opt(Seq(STRING))]

ValidateDiagnostic(d) ==
  FirstOf(<<
    Refuse(d.seq \notin 1..1000000, Invalid),
    Refuse(\E seconds \in d.retry_after_seconds : seconds > 86400, Invalid),
    IfAny(d.source, ValidateSource),
    IfAny(d.redacted, LAMBDA names :
      Refuse(\/ Len(names) \notin 1..64
             \/ \E i, j \in DOMAIN names : i # j /\ names[i] = names[j], Invalid))>>)

-----------------------------------------------------------------------------
(* The credential channel *)

CredentialRequest ==
  [type : {"credential_request"}, grant_id : Guard.GrantId,
   purpose : {"access_token", "api_token", "basic_credentials", "renew"}, scopes : Seq(Nat)]

ValidateCredentialRequest(r) == BoundedScopes(r.scopes)

\* A secret and a user name are their lengths.
CredentialMaterial ==
  [kind : {"bearer_token", "api_token", "basic"}, value : Nat, username : Opt(Nat), scopes : Seq(Nat)]

ValidateMaterial(m) ==
  FirstOf(<<Refuse(m.value \notin 1..65536, Invalid),
            Refuse(m.kind = "basic" /\ m.username = {}, Invalid),
            Refuse(\E bytes \in m.username : bytes \notin 1..512, Invalid),
            BoundedScopes(m.scopes)>>)

CredentialOutcome == {"granted", "denied", "expired", "unknown_grant", "unavailable"}

CredentialResponse ==
  [type : {"credential_response"}, grant_id : Guard.GrantId, outcome : CredentialOutcome,
   material : Opt(CredentialMaterial), message : Opt(Guard.MediumText)]

\* Material and an explanation exclude each other.
ValidateCredentialResponse(r) ==
  IF r.outcome = "granted"
    THEN FirstOf(<<Refuse(r.material = {} \/ r.message # {}, Invalid),
                   IfAny(r.material, ValidateMaterial)>>)
    ELSE Refuse(r.material # {} \/ r.message = {}, Invalid)

-----------------------------------------------------------------------------
(* Frames on the wire *)

\* A line of standard output.  `object`: the JSON value is an object; `v` and
\* `tag`: its members of that name, when they have the type of one.
FrameLine(frame) ==
  [bytes |-> 512, terminated |-> TRUE, utf8 |-> TRUE, json |-> TRUE, object |-> TRUE,
   v |-> {1}, tag |-> {frame.type}, frame |-> frame]

FrameType(line) ==
  FirstOf(<<Refuse(~line.object, "protocol.not_json"),
            Refuse(line.v = {}, Invalid), Refuse(line.v # {1}, "protocol.version_unsupported"),
            Refuse(line.tag = {}, "protocol.unknown_event")>>)

\* Deserializing settles the shape, `validate` the rest.
Decode(frame, Message, Validate(_)) ==
  FirstOf(<<Refuse(frame \notin Message, Invalid), Validate(frame)>>)

DecodeFieldEvent(line) ==
  FirstOf(<<FrameType(line),
    CASE line.tag = {"manifest"}   -> Decode(line.frame, Manifest, ValidateManifest)
      [] line.tag = {"record"}     ->
           FirstOf(<<Refuse(~DecodesProperties(line.frame.properties), Invalid),
                     Decode(line.frame, RecordEvent, ValidateRecord)>>)
      [] line.tag = {"checkpoint"} -> Decode(line.frame, CheckpointEvent, ValidateCheckpoint)
      [] line.tag = {"diagnostic"} -> Decode(line.frame, DiagnosticEvent, ValidateDiagnostic)
      [] OTHER                     -> "protocol.unknown_event">>)

DecodeCoreFrame(line) ==
  FirstOf(<<FrameType(line),
    CASE line.tag = {"describe"} -> Decode(line.frame, DescribeRequest, ValidateDescribeRequest)
      [] line.tag = {"collect"}  -> Decode(line.frame, CollectRequest, ValidateCollectRequest)
      [] line.tag = {"cancel"}   -> Decode(line.frame, Cancel, ValidateCancel)
      [] OTHER                   -> "protocol.unknown_event">>)

DecodeCredentialFrame(line) ==
  FirstOf(<<FrameType(line),
    CASE line.tag = {"credential_request"} ->
           Decode(line.frame, CredentialRequest, ValidateCredentialRequest)
      [] line.tag = {"credential_response"} ->
           Decode(line.frame, CredentialResponse, ValidateCredentialResponse)
      [] OTHER -> "protocol.unknown_event">>)

\* read_line_bounded: the ceiling holds before the end of the line is seen.
ReadLine(line, max_frame_bytes) ==
  FirstOf(<<Refuse(line.bytes > max_frame_bytes, "protocol.oversized_frame"),
            Refuse(~line.terminated, "protocol.truncated_frame")>>)

\* FrameReader::next_frame, `total`: KiB read before.  A reader that refused once refuses
\* for ever, and its caller reads no further.
NextFrame(line, limits, total) ==
  FirstOf(<<ReadLine(line, limits.max_frame_bytes),
            Refuse(total > limits.max_run_stdout_bytes, "protocol.limit_exceeded"),
            Refuse(~line.utf8, "protocol.invalid_utf8"),
            Refuse(~line.json, "protocol.not_json")>>)

-----------------------------------------------------------------------------
(* Resolving an artifact *)

\* resolve_staged.  Core reads by its own count and its own digest; nothing
\* changes the directory meanwhile.
ResolveStaged(staging, a, limits, policy) ==
  FirstOf(<<
    ParsedHandle(a),
    Refuse(a.byte_length = {}, Invalid),
    IfAny(a.byte_length, LAMBDA n : Refuse(n > limits.max_artifact_bytes, "artifact.oversized")),
    IfAny(a.media_type, LAMBDA type : Refuse(~Included(policy, type), "artifact.type_excluded")),
    IfAny(a.handle, LAMBDA handle :
      IF handle.name \notin DOMAIN staging THEN "artifact.missing_staged_file"
      ELSE LET file == staging[handle.name] IN
        FirstOf(<<Refuse(~file.regular, "artifact.not_regular_file"),
                  Refuse({file.bytes} # a.byte_length, "artifact.length_mismatch"),
                  Refuse(a.sha256 \notin {{}, {file.digest}}, "artifact.digest_mismatch")>>))>>)

\* resolve_artifact, over what is staged and the digests core has stored.
ResolveArtifact(staging, known, a, limits, policy) ==
  CASE a.kind = "staged"       -> ResolveStaged(staging, a, limits, policy)
    [] a.kind = "digest_only"  -> Refuse(a.sha256 \cap known = {}, "artifact.unknown_digest")
    [] a.kind = "not_retained" -> Refuse(a.attachment_ref = {}, Invalid)
=============================================================================
