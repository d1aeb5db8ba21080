-------------------------------- MODULE Wire --------------------------------
(***************************************************************************)
(* The vocabulary of protocol v1 (crates/fieldnotes-field-protocol): codes,*)
(* frozen limits, version negotiation, guarded strings, property values    *)
(* and the index of the properties a manifest declares.                    *)
(*                                                                         *)
(* A check is an operator that gives "ok" or the rejection code it refuses *)
(* with.  Text of which only the length matters is its length in bytes     *)
(* (the totals of a run are in KiB); Option<T> is a  *)
(* set with at most one member, an absent list the empty one; a property is*)
(* its registered stem (empty for a name without one) and the rest.        *)
(***************************************************************************)
EXTENDS Integers, Sequences, FiniteSets

Refuse(refused, code) == IF refused THEN code ELSE "ok"

\* The checks of a function in its order: the first that refuses decides.
FirstOf(checks) == Head(SelectSeq(checks, LAMBDA code : code # "ok") \o <<"ok">>)

\* One check over the members of a list, in their order.
EachOf(list, Check(_)) == FirstOf([i \in DOMAIN list |-> Check(list[i])])

Invalid == "protocol.schema_invalid"

Opt(S) == {o \in SUBSET S : Cardinality(o) <= 1}

\* The code of a check of an optional member: nothing is refused when absent.
IfAny(option, Check(_)) == IF option = {} THEN "ok" ELSE Check(CHOOSE x \in option : TRUE)

-----------------------------------------------------------------------------
(* Codes *)

RejectionCode ==
  { "protocol.invalid_utf8", "protocol.not_json", "protocol.oversized_frame",
    "protocol.truncated_frame", "protocol.schema_invalid", "protocol.unknown_event",
    "protocol.unexpected_order", "protocol.duplicate_seq", "protocol.seq_regression",
    "protocol.seq_gap", "protocol.limit_exceeded", "protocol.timeout",
    "protocol.idle_timeout", "protocol.stderr_flood", "protocol.version_unsupported",
    "protocol.coverage_mismatch", "record.unknown_property", "record.undeclared_property",
    "record.foreign_prefix", "record.property_type_mismatch", "record.invalid_note_type",
    "record.note_type_not_declared", "record.invalid_date", "record.invalid_datetime",
    "record.missing_source_key", "record.duplicate_divergent_in_run",
    "artifact.invalid_handle", "artifact.not_regular_file", "artifact.digest_mismatch",
    "artifact.length_mismatch", "artifact.missing_staged_file", "artifact.unknown_digest",
    "artifact.oversized", "artifact.type_excluded", "deletion.unauthorized",
    "snapshot.completeness_contradicted", "snapshot.scope_widened",
    "credential.unknown_grant", "credential.grant_expired", "credential.channel_closed",
    "manifest.property_type_changed", "manifest.cursor_format_changed",
    "manifest.undeclared_capability" }

DiagnosticCode ==
  { "auth.reauth_required", "auth.expired", "auth.scope_insufficient", "permission.denied",
    "permission.admin_consent_required", "rate_limit.throttled", "source.unavailable",
    "source.history_unavailable", "content.truncated", "content.damaged",
    "content.unsupported_format", "content.skipped", "capability.unsupported_object",
    "cursor.reset_required", "cursor.format_changed", "snapshot.partial",
    "refetch.required", "refetch.unsupported", "run.cancelled", "run.deadline_exceeded",
    "config.invalid", "internal.error" }

\* The raw code a process exits with; the ranges above 10 are reserved.
ExitCode ==
  [ Completed |-> 0, Unclassified |-> 1, Usage |-> 2, Negotiation |-> 3,
    Authentication |-> 4, Authorization |-> 5, SourceUnavailable |-> 6,
    CursorUnusable |-> 7, Cancelled |-> 8, ConfigInvalid |-> 9, Internal |-> 10 ]

-----------------------------------------------------------------------------
(* Limits and deadlines *)

Bounds ==
  [ max_frame_bytes           |-> 4096..1048576,
    max_body_bytes            |-> 1024..1048576,
    max_properties_per_record |-> 1..256,
    max_property_value_bytes  |-> 64..65536,
    max_list_members          |-> 1..1024,
    max_artifacts_per_record  |-> 0..64,
    max_artifact_bytes        |-> 0..536870912,
    max_run_artifact_bytes    |-> 0..8388608,   \* KiB
    max_run_stdout_bytes      |-> 4..1048576,   \* KiB
    max_run_records           |-> 0..1000000,
    max_run_diagnostics       |-> 0..10000,
    max_stderr_bytes          |-> 0..262144,
    max_cursor_bytes          |-> 1..4096 ]

Ceilings ==
  [ max_frame_bytes |-> 1048576, max_body_bytes |-> 1048576,
    max_properties_per_record |-> 256, max_property_value_bytes |-> 65536,
    max_list_members |-> 1024, max_artifacts_per_record |-> 64,
    max_artifact_bytes |-> 536870912, max_run_artifact_bytes |-> 8388608,
    max_run_stdout_bytes |-> 1048576, max_run_records |-> 1000000,
    max_run_diagnostics |-> 10000, max_stderr_bytes |-> 262144,
    max_cursor_bytes |-> 4096 ]

Limits == [DOMAIN Bounds -> Nat]

\* The ceilings, but for 25 MiB of one artifact.
Defaults == [Ceilings EXCEPT !.max_artifact_bytes = 26214400]

Deadlines == [idle_seconds : Nat, cancel_grace_seconds : Nat]

ValidateLimits(limits) ==
  Refuse(\E member \in DOMAIN Bounds : limits[member] \notin Bounds[member], Invalid)

ValidateDeadline(deadline) ==
  Refuse(deadline.idle_seconds \notin 1..3600 \/ deadline.cancel_grace_seconds \notin 1..120, Invalid)

\* A media type is its kind and its subtype; the policy core and the kit send.
DefaultMediaTypes ==
  ({"application"} \X { "pdf", "rtf", "vnd.openxmlformats-officedocument.wordprocessingml.document",
      "vnd.openxmlformats-officedocument.spreadsheetml.sheet",
      "vnd.openxmlformats-officedocument.presentationml.presentation",
      "vnd.oasis.opendocument.text", "vnd.oasis.opendocument.spreadsheet",
      "vnd.oasis.opendocument.presentation" })
  \cup ({"text"} \X {"plain", "markdown", "csv"})
  \cup ({"image"} \X {"png", "jpeg", "gif", "webp", "heic"})
  \cup ({"audio"} \X {"mp4", "mpeg", "wav", "ogg"})

\* MediaTypeMatcher::matches: the type itself, or any subtype of a wildcard's kind.
Matches(matcher, media_type) == matcher \in {media_type, <<media_type[1], "*">>}

Included(policy, media_type) == \E matcher \in policy : Matches(matcher, media_type)

-----------------------------------------------------------------------------
(* Version negotiation *)

MaxVersion == 4095

ValidateVersions(list) ==
  Refuse(\/ Len(list) \notin 1..16
         \/ \E i \in DOMAIN list : list[i] \notin 1..MaxVersion
         \/ \E i, j \in DOMAIN list : i # j /\ list[i] = list[j], Invalid)

\* Every disagreement has one code: no shared version, a selection core did not
\* offer, one the Field does not declare, a revision out of range.
Negotiate(offered, core_revision, selected, revision, supports) ==
  Refuse(\/ core_revision > MaxVersion \/ revision > MaxVersion
         \/ selected \notin supports \/ selected \notin offered, "protocol.version_unsupported")

-----------------------------------------------------------------------------
(* Guarded strings *)

\* The bytes a string of the type may have, for the types a Field fills from
\* its source (grammar.rs).
Guard ==
  [ SourceScope |-> 1..512, SourceIdentity |-> 1..1024, SourceVersion |-> 1..256,
    Cursor |-> 1..4096, MediaType |-> 3..255, AttachmentRef |-> 1..1024,
    IdentityNamespace |-> 1..63, ObjectKind |-> 1..63, PropertyNameToken |-> 1..63,
    NoteTypeToken |-> 1..32, GrantId |-> 16..128, SnapshotScope |-> 1..512,
    ShortText |-> 1..512, MediumText |-> 1..1024, MessageText |-> 1..4096 ]

\* The name of a staged file: what it is made of, and whether Windows reserves it.
Handles == [name : STRING, bytes : Nat, first : {"letter_or_digit", "other"},
            characters : {"segment", "other"}, device : BOOLEAN]

ParseHandle(handle) ==
  Refuse(\/ handle.bytes \notin 1..64 \/ handle.first # "letter_or_digit"
         \/ handle.characters # "segment" \/ handle.device, "artifact.invalid_handle")

-----------------------------------------------------------------------------
(* Property values *)

CoreOwned ==
  { "id", "instance_id", "field_id", "type", "occurred_at", "captured_at", "collected_by",
    "content_hash", "source_scope", "source_identity", "source_version", "source_url",
    "source_parent_id", "artifacts", "attachments", "identities", "entities", "related",
    "damaged", "truncated", "lost_characters" }

\* `reads`: the temporal grammars the text parses under.
PropertyValue ==
  [kind : {"text", "number", "boolean"}, list : BOOLEAN, members : Nat, bytes : Nat,
   reads : SUBSET {"date", "datetime"}]

\* PropertyValue::deserialize: an empty list or an overlong text is no value.
DecodesValue(v) ==
  /\ v.list => v.members \in 1..1024
  /\ v.kind = "text" => v.bytes <= 65536

Names == STRING \X STRING

Properties == Seq([name : Names, value : PropertyValue])

\* RecordProperties::deserialize: core-owned names are not in a Field's reach.
DecodesProperties(properties) ==
  /\ Len(properties) <= 256
  /\ \A i \in DOMAIN properties :
       /\ DecodesValue(properties[i].value)
       /\ ~(properties[i].name[1] = "" /\ properties[i].name[2] \in CoreOwned)

-----------------------------------------------------------------------------
(* Declared properties *)

Shape(type, cardinality) == [type |-> type, list |-> cardinality = "list"]

\* The stems the kit registers a property prefix for.
Stems == {"local", "outlook_mail", "outlook_calendar", "outlook_contacts", "jira", "teams"}

\* The shared vocabulary, as far as the Fields of this repository use it.
SharedRegistry ==
  [ title |-> Shape("text", "scalar"), subject |-> Shape("text", "scalar"),
    from |-> Shape("text", "scalar"), to |-> Shape("text", "list"),
    cc |-> Shape("text", "list"), bcc |-> Shape("text", "list"),
    participants |-> Shape("text", "list"), reply_to |-> Shape("text", "scalar"),
    conversation_id |-> Shape("text", "scalar"), thread_id |-> Shape("text", "scalar"),
    organizer |-> Shape("text", "scalar"), started_at |-> Shape("datetime", "scalar"),
    ended_at |-> Shape("datetime", "scalar"), duration_seconds |-> Shape("number", "scalar"),
    confidence |-> Shape("number", "scalar") ]

DerivedRecordOnly == {"confidence"}

\* DeclaredPropertyIndex::new, over the manifest's list: every name under the
\* manifest's own prefix, none twice.
IndexProperties(manifest) ==
  EachOf(manifest.declared_properties, LAMBDA p :
    FirstOf(<<
      Refuse(manifest.property_prefix = {}, "record.undeclared_property"),
      Refuse(p.name[1] \notin manifest.property_prefix, "record.foreign_prefix"),
      Refuse(Len(SelectSeq(manifest.declared_properties, LAMBDA q : q.name = p.name)) > 1,
             "record.property_type_mismatch")>>))

\* PropertyShape::accepts
AcceptsValue(shape, v) ==
  FirstOf(<<
    Refuse(shape.list # v.list, "record.property_type_mismatch"),
    IF shape.type \in {"date", "datetime"}
      THEN FirstOf(<<Refuse(v.kind # "text", "record.property_type_mismatch"),
                     Refuse(shape.type \notin v.reads,
                       IF shape.type = "date" THEN "record.invalid_date"
                                              ELSE "record.invalid_datetime")>>)
      ELSE Refuse(v.kind # shape.type, "record.property_type_mismatch")>>)

DeclaredShape(manifest, name) ==
  {p.shape : p \in {manifest.declared_properties[i] : i \in
     {j \in DOMAIN manifest.declared_properties : manifest.declared_properties[j].name = name}}}

\* Mutant of CheckProperty: a name under the Field's own prefix needs no declaration.
CheckPropertyByPrefix(manifest, name, v) ==
  IF name[1] \in Stems
    THEN Refuse(name[1] # manifest.field_stem, "record.foreign_prefix")
    ELSE Refuse(name[2] \notin DOMAIN SharedRegistry, "record.unknown_property")

\* DeclaredPropertyIndex::check
CheckProperty(manifest, name, v) ==
  IF name[1] \in Stems
    THEN FirstOf(<<
           Refuse(name[1] # manifest.field_stem, "record.foreign_prefix"),
           Refuse(DeclaredShape(manifest, name) = {}, "record.undeclared_property"),
           IfAny(DeclaredShape(manifest, name), LAMBDA shape : AcceptsValue(shape, v))>>)
    ELSE IF name[2] \notin DOMAIN SharedRegistry \/ name[2] \in DerivedRecordOnly
    THEN "record.unknown_property"
    ELSE AcceptsValue(SharedRegistry[name[2]], v)
=============================================================================
