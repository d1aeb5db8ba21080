----------------------------- MODULE Manifests -----------------------------
(***************************************************************************)
(* The manifests the four Fields of the repository declare                 *)
(* (fields/*/src/manifest.rs) and those of the fixture Field               *)
(* (fieldnotes-field-fixture/src/manifests.rs).                            *)
(***************************************************************************)
EXTENDS Messages

Scalar(stem, rest, type) ==
  [name |-> <<stem, rest>>, shape |-> Shape(type, "scalar"), list_semantics |-> {}]

SetOfText(stem, rest) ==
  [name |-> <<stem, rest>>, shape |-> Shape("text", "list"), list_semantics |-> {"set"}]

Slice(kind, type, artifacts, anchors) ==
  [object_kind |-> kind, note_type |-> type, emits_artifacts |-> artifacts,
   emits_identity_anchors |-> anchors]

SourceKey(rule) ==
  [scope_rule |-> rule, scope_rule_version |-> 1, source_version_ordering |-> "unsupported",
   scope_depends_on_field_label |-> FALSE, identity_includes_object_kind |-> TRUE,
   stable_across_instances |-> TRUE]

NormalizedAnchor(namespace, rule) ==
  [namespace |-> namespace, scope_class |-> "normalized_channel", normalization_rule |-> {rule},
   normalization_version |-> {1}, substitutes_for_source_key |-> FALSE]

NoAuth ==
  [kind |-> "none", credential_profile_required |-> FALSE, protected_channel_required |-> FALSE,
   scopes |-> <<>>, refresh_owner |-> "not_applicable", writes_to_source |-> FALSE]

OAuth(scopes) ==
  [kind |-> "oauth_authorization_code", credential_profile_required |-> TRUE,
   protected_channel_required |-> TRUE, scopes |-> scopes, refresh_owner |-> "core",
   writes_to_source |-> FALSE]

Collection(modes, window, refetch, tombstones, snapshot) ==
  [incremental |-> TRUE, cursor_format_version |-> 1, supported_modes |-> modes,
   window_supported |-> window, refetch |-> refetch,
   deletion |-> [tombstones |-> tombstones, snapshot |-> snapshot]]

NewManifest(driver, stem, properties, capabilities, key, anchors, auth, collection, limitations) ==
  [type |-> "manifest", protocol_revision |-> 0, supported_protocol_versions |-> <<1>>,
   driver |-> driver, field_stem |-> stem, property_prefix |-> {stem},
   declared_properties |-> properties, capabilities |-> capabilities, source_key |-> key,
   identity_anchors |-> anchors, auth |-> auth, collection |-> collection,
   limitations |-> limitations]

-----------------------------------------------------------------------------
(* Local files *)

LocalProperties ==
  << Scalar("local", "relative_path", "text"), Scalar("local", "media_type", "text"),
     Scalar("local", "document_date", "date"), Scalar("local", "document_flag", "text"),
     SetOfText("local", "tags") >>

LocalCapabilities ==
  <<Slice("file", "file", TRUE, FALSE), Slice("document", "document", TRUE, FALSE)>>

LocalSourceKey == SourceKey("local_root_id")

LocalAuth == NoAuth

LocalCollection ==
  Collection(<<"incremental", "snapshot">>, FALSE, "unsupported", "unsupported", "authoritative")

LocalManifest ==
  NewManifest("local-reference", "local", LocalProperties, LocalCapabilities, LocalSourceKey, <<>>,
              LocalAuth, LocalCollection, <<"content.unsupported_format">>)

-----------------------------------------------------------------------------
(* Outlook mail *)

MailProperties ==
  << SetOfText("outlook_mail", "categories"), Scalar("outlook_mail", "importance", "text"),
     Scalar("outlook_mail", "internet_message_id", "text"),
     Scalar("outlook_mail", "is_draft", "boolean"), Scalar("outlook_mail", "is_read", "boolean"),
     Scalar("outlook_mail", "parent_folder_id", "text") >>

MailCapabilities == <<Slice("mail-message", "mail", TRUE, TRUE)>>

MailAnchors == <<NormalizedAnchor("email", "mail_address_lowercase")>>

MailSourceKey == SourceKey("microsoft_graph_tenant")

MailAuth == OAuth(<<9>>)

MailCollection ==
  Collection(<<"incremental">>, TRUE, "supported", "authoritative", "unsupported")

MailLimitations == <<"content.unsupported_format", "content.skipped", "cursor.reset_required">>

MailManifest ==
  NewManifest("outlook-mail-graph", "outlook_mail", MailProperties, MailCapabilities, MailSourceKey,
              MailAnchors, MailAuth, MailCollection, MailLimitations)

-----------------------------------------------------------------------------
(* Outlook calendar *)

CalendarProperties ==
  << Scalar("outlook_calendar", "event_kind", "text"),
     Scalar("outlook_calendar", "response_status", "text"),
     Scalar("outlook_calendar", "all_day", "boolean"),
     Scalar("outlook_calendar", "is_cancelled", "boolean") >>

CalendarCapabilities == <<Slice("calendar-event", "event", FALSE, TRUE)>>

CalendarSourceKey == SourceKey("graph_tenant_id")

CalendarAnchors == <<NormalizedAnchor("email", "email_v1")>>

CalendarAuth == OAuth(<<14>>)

CalendarCollection ==
  Collection(<<"incremental">>, TRUE, "unsupported", "authoritative", "unsupported")

CalendarManifest ==
  NewManifest("outlook-calendar", "outlook_calendar", CalendarProperties, CalendarCapabilities,
              CalendarSourceKey, CalendarAnchors, CalendarAuth, CalendarCollection,
              <<"capability.unsupported_object">>)

-----------------------------------------------------------------------------
(* Outlook contacts *)

ContactsProperties ==
  << Scalar("outlook_contacts", "company_name", "text"),
     Scalar("outlook_contacts", "job_title", "text"),
     Scalar("outlook_contacts", "contact_kind", "text") >>

ContactsCapabilities == <<Slice("contact", "contact", TRUE, TRUE)>>

ContactsSourceKey == SourceKey("graph_contacts_tenant")

ContactsAnchors ==
  << NormalizedAnchor("email", "email_lowercase_trim"),
     NormalizedAnchor("phone", "phone_digits_e164_like") >>

ContactsAuth == OAuth(<<13>>)

ContactsCollection ==
  Collection(<<"incremental">>, FALSE, "unsupported", "authoritative", "unsupported")

ContactsLimitations ==
  <<"capability.unsupported_object", "config.invalid", "config.invalid", "auth.reauth_required">>

ContactsManifest ==
  NewManifest("outlook-contacts-reference", "outlook_contacts", ContactsProperties,
              ContactsCapabilities, ContactsSourceKey, ContactsAnchors, ContactsAuth,
              ContactsCollection, ContactsLimitations)

-----------------------------------------------------------------------------
(* The fixture Field *)

FixtureLocalProperties ==
  << Scalar("local", "relative_path", "text"), Scalar("local", "media_type", "text"),
     Scalar("local", "document_date", "date"), Scalar("local", "document_flag", "text"),
     SetOfText("local", "tags") >>

FixtureLocalCollection(format) ==
  [Collection(<<"incremental", "snapshot">>, FALSE, "supported", "unsupported", "authoritative")
     EXCEPT !.cursor_format_version = format]

FixtureLocal ==
  NewManifest("local-reference", "local", FixtureLocalProperties,
              <<Slice("file", "file", TRUE, FALSE), Slice("document", "document", TRUE, FALSE)>>,
              SourceKey("local_root_id"), <<>>, NoAuth, FixtureLocalCollection(1),
              <<"content.unsupported_format">>)

FixtureLocalCursorFormat2 == [FixtureLocal EXCEPT !.collection = FixtureLocalCollection(2)]

FixtureLocalWithTombstones ==
  [FixtureLocal EXCEPT !.collection.deletion.tombstones = "authoritative"]

\* local_document_flag becomes a boolean between two runs.
FixtureLocalRetyped ==
  [FixtureLocal EXCEPT !.declared_properties =
     [@ EXCEPT ![4] = Scalar("local", "document_flag", "boolean")]]

FixtureMail ==
  NewManifest("outlook-mail", "outlook_mail",
    << Scalar("outlook_mail", "importance", "text"),
       Scalar("outlook_mail", "internet_message_id", "text"),
       Scalar("outlook_mail", "folder_path", "text"),
       Scalar("outlook_mail", "has_attachments", "boolean"),
       SetOfText("outlook_mail", "categories") >>,
    <<Slice("mail-message", "mail", TRUE, TRUE)>>, SourceKey("graph_tenant_id"),
    << NormalizedAnchor("email", "email_v1"),
       [NormalizedAnchor("microsoft-graph-user-id", "") EXCEPT !.scope_class = "authority_scoped",
          !.normalization_rule = {}, !.normalization_version = {}] >>,
    OAuth(<<9, 9>>),
    Collection(<<"incremental">>, TRUE, "bounded", "authoritative", "unsupported"),
    <<"source.history_unavailable">>)

FixtureMailWithoutTombstones ==
  [FixtureMail EXCEPT !.collection.deletion.tombstones = "unsupported"]

\* A manifest of protocol version 2: not one a version 1 core reads.
FixtureFutureVersion ==
  [FrameLine([FixtureMail EXCEPT !.supported_protocol_versions = <<2>>, !.declared_properties = <<>>,
                !.identity_anchors = <<>>, !.collection.cursor_format_version = 2]) EXCEPT !.v = {2}]
=============================================================================
