---------------------------- MODULE FieldRecords ----------------------------
(***************************************************************************)
(* How the four Fields turn an object of their source into a record frame: *)
(* fields/*/src/record.rs.  A builder gives the set of the frames it makes: *)
(* the empty set is its RecordError.  Text is its length, an address or a   *)
(* telephone number is a number, 0 one that normalizes to nothing.          *)
(***************************************************************************)
EXTENDS Manifests, TLC

Members(list) == {list[i] : i \in DOMAIN list}

Least(m, n) == IF m <= n THEN m ELSE n

\* truncate_utf8, and what it says of the rest.
Truncated(bytes, max) == [kept |-> Least(bytes, max), lost |-> bytes > max]

Value(kind, list, members, bytes, reads) ==
  [kind |-> kind, list |-> list, members |-> members, bytes |-> bytes, reads |-> reads]

Text(bytes)           == Value("text", FALSE, 1, bytes, {})
Texts(members, bytes) == Value("text", TRUE, members, bytes, {})
Instant               == Value("text", FALSE, 1, 25, {"datetime"})
Number                == Value("number", FALSE, 1, 0, {})
Flag                  == Value("boolean", FALSE, 1, 0, {})

Property(stem, rest, value) == <<[name |-> <<stem, rest>>, value |-> value]>>

When(present, properties) == IF present THEN properties ELSE <<>>

SourceOf(id, version, url) ==
  [scope |-> "scope", identity |-> id, version |-> version, url |-> url]

\* Every builder fills the same frame; only what differs is named.
Asserts(seq, source, slice, properties, body, truncated, artifacts, anchors) ==
  [type |-> "record", own_run |-> TRUE, seq |-> seq, change |-> "upsert", source |-> source,
   object_kind |-> {slice.object_kind}, note_type |-> {slice.note_type}, occurred_at |-> {"instant"},
   properties |-> properties, body |-> {[text |-> source.identity, bytes |-> body]},
   artifacts |-> artifacts, identity_anchors |-> anchors,
   integrity |-> {[damaged |-> FALSE, truncated |-> truncated]}, authority |-> {}, observed_at |-> {}]

Removes(seq, id, kind) ==
  [type |-> "record", own_run |-> TRUE, seq |-> seq, change |-> "delete",
   source |-> SourceOf(id, {}, {}), object_kind |-> {kind}, note_type |-> {}, occurred_at |-> {},
   properties |-> <<>>, body |-> {}, artifacts |-> <<>>, identity_anchors |-> <<>>,
   integrity |-> {}, authority |-> {"tombstone"}, observed_at |-> {"instant"}]

Anchors(declared, count, roles) ==
  [i \in 1 .. count |->
     [namespace |-> declared.namespace, value |-> 20, scope_class |-> declared.scope_class,
      scope |-> {}, normalization_rule |-> declared.normalization_rule,
      normalization_version |-> declared.normalization_version, role |-> roles]]

\* stage_and_hash under handle_for_seq, and the reference to what it staged.
HandleFor(seq) == [name |-> "a" \o ToString(seq), bytes |-> 9, first |-> "letter_or_digit",
                   characters |-> "segment", device |-> FALSE]

StagedRef(seq, bytes, media_type, filename) ==
  [kind |-> "staged", handle |-> {HandleFor(seq)}, sha256 |-> {"content"}, byte_length |-> {bytes},
   media_type |-> media_type, source_filename |-> filename, attachment_ref |-> {}]

\* The source still has the bytes; the reference says where.
NotRetainedRef(bytes, media_type, filename) ==
  [kind |-> "not_retained", handle |-> {}, sha256 |-> {}, byte_length |-> {bytes},
   media_type |-> media_type, source_filename |-> filename, attachment_ref |-> {64}]

\* At least the bytes of a frame's encoding: what varies of it, and an envelope.
FrameBytes(frame) ==
  IF frame.type # "record" THEN 512
  ELSE LET bytes[i \in 0 .. Len(frame.properties)] ==
             IF i = 0 THEN 512
             ELSE bytes[i - 1] + frame.properties[i].value.bytes * frame.properties[i].value.members
       IN (IF frame.body = {} THEN 0 ELSE (CHOOSE body \in frame.body : TRUE).bytes)
            + bytes[Len(frame.properties)] + 100 * Len(frame.identity_anchors)

-----------------------------------------------------------------------------
(* Local files: [id, path, name, bytes, reads_as, document, regular] *)

\* sniff_media_type looks at content only: what is neither known nor text has none.
Sniff(file) == file.reads_as

Classify(file) == LocalCapabilities[IF file.document THEN 2 ELSE 1]

FileNameOf(file) == IF file.name \in 1..255 THEN {file.name} ELSE {}

\* build_artifact: too large is not even read, excluded is read and not staged.
LocalArtifact(file, seq, limits, policy) ==
  LET excluded == \E type \in Sniff(file) : ~Included(policy, type) IN
  IF file.bytes > limits.max_artifact_bytes
    THEN [reference |-> NotRetainedRef(file.bytes, {}, FileNameOf(file)), version |-> {},
          media_type |-> {}, text |-> FALSE]
    ELSE [reference |-> IF excluded THEN NotRetainedRef(file.bytes, Sniff(file), FileNameOf(file))
                                    ELSE StagedRef(seq, file.bytes, Sniff(file), FileNameOf(file)),
          version |-> {"content"}, media_type |-> Sniff(file),
          text |-> Sniff(file) = {<<"text", "plain">>}]

\* A fallback body names the file and why its content is not here.
LocalRecord(file, seq, limits, policy) ==
  LET artifact == LocalArtifact(file, seq, limits, policy)
      body     == Truncated(IF artifact.text THEN file.bytes ELSE 100 + file.name,
                            limits.max_body_bytes)
  IN {Asserts(seq, SourceOf(file.id, artifact.version, {}), Classify(file),
        Property("", "title", Text(file.name)) \o Property("local", "relative_path", Text(file.path))
          \o When(artifact.media_type # {}, Property("local", "media_type", Text(10))),
        body.kept, body.lost, <<artifact.reference>>, <<>>) : regular \in {TRUE} \cap {file.regular}}

-----------------------------------------------------------------------------
(* Mail: [id, dated, subject, from, sender, to, cc, bcc, reply_to, conversation, body,
   categories, artifacts] *)

\* Mutant of InsertText: text goes into the frame as it came.
InsertTextWhole(stem, rest, bytes, limits) ==
  When(bytes > 0, Property(stem, rest, Text(bytes)))

\* Inserter: text is truncated to the run's bound, what is empty is left out.
InsertText(stem, rest, bytes, limits) ==
  When(bytes > 0, Property(stem, rest, Text(Least(bytes, limits.max_property_value_bytes))))

InsertList(stem, rest, members, bytes, limits) ==
  When(members > 0,
       Property(stem, rest, Texts(Least(members, limits.max_list_members),
                                  Least(bytes, limits.max_property_value_bytes))))

Addresses(recipients) == Members(recipients) \ {0}

SenderAddress(m) == IF m.from \ {0} # {} THEN m.from ELSE m.sender \ {0}

\* Everybody the message names, once; every one of them is an anchor.
Participants(m) ==
  SenderAddress(m) \cup Addresses(m.to) \cup Addresses(m.cc) \cup Addresses(m.bcc)

MailAnchorsOf(m) == Anchors(MailAnchors[1], Cardinality(Participants(m)), {})

\* The heading is the subject, or says that there is none.
MailBody(m, limits) ==
  Truncated(m.subject + m.body + 16, Least(limits.max_body_bytes, limits.max_frame_bytes \div 2))

MailParties(m, limits) ==
  InsertList("", "to", Cardinality(Addresses(m.to)), 20, limits)
    \o InsertList("", "cc", Cardinality(Addresses(m.cc)), 20, limits)
    \o InsertList("", "bcc", Cardinality(Addresses(m.bcc)), 20, limits)
    \o InsertList("", "participants", Cardinality(Participants(m)), 20, limits)

\* A message without an identifier or without an instant has no record.
MailRecord(m, seq, limits) ==
  {Asserts(seq, SourceOf(m.id, {"change_key"}, {100}), MailCapabilities[1],
     InsertText("", "subject", m.subject, limits) \o InsertText("", "title", m.subject, limits)
       \o When(SenderAddress(m) # {}, Property("", "from", Text(20)))
       \o MailParties(m, limits)
       \o When(Addresses(m.reply_to) # {}, Property("", "reply_to", Text(20)))
       \o InsertText("", "conversation_id", m.conversation, limits)
       \o When(m.conversation > 0, InsertText("", "thread_id", m.conversation + 21, limits))
       \o InsertText("outlook_mail", "importance", 6, limits)
       \o Property("outlook_mail", "is_read", Flag)
       \o InsertList("outlook_mail", "categories", Cardinality(Members(m.categories)), 20, limits),
     MailBody(m, limits).kept, MailBody(m, limits).lost, m.artifacts, MailAnchorsOf(m))
     : dated \in {TRUE} \cap {m.dated}}

MailTombstone(m, seq) == {Removes(seq, m.id, MailCapabilities[1].object_kind)}

-----------------------------------------------------------------------------
(* Calendar: [id, zone, subject, organizer, attendees, response] *)

\* Anything but UTC is refused.
ParseUtc(event) == event.zone = "utc"

\* A participant is listed once; every attendee is an anchor, repeated or not.
CalendarParticipants(event) == (event.organizer \cup Members(event.attendees)) \ {0}

CalendarAnchorsOf(event) ==
  LET present == SelectSeq(event.attendees, LAMBDA address : address # 0) IN
  Anchors(CalendarAnchors[1], Cardinality(event.organizer \ {0}), {"organizer"})
    \o Anchors(CalendarAnchors[1], Len(present), {"attendee"})

\* body_text: the heading, when, and who, one line each.
CalendarBody(event) == event.subject + 120 + 24 * Cardinality(CalendarParticipants(event))

\* Nothing is truncated, and no list is cut to the run's bound.
CalendarRecord(event, seq) ==
  LET people == CalendarParticipants(event) IN
  {Asserts(seq, SourceOf(event.id, {"change_key"}, {100}), CalendarCapabilities[1],
     Property("", "title", Text(event.subject))
       \o When(event.organizer \ {0} # {}, Property("", "organizer", Text(20)))
       \o When(people # {}, Property("", "participants", Texts(Cardinality(people), 20)))
       \o Property("", "started_at", Instant) \o Property("", "ended_at", Instant)
       \o Property("", "duration_seconds", Number)
       \o Property("outlook_calendar", "event_kind", Text(15))
       \o When(event.response, Property("outlook_calendar", "response_status", Text(10)))
       \o Property("outlook_calendar", "all_day", Flag)
       \o Property("outlook_calendar", "is_cancelled", Flag),
     CalendarBody(event), FALSE, <<>>, CalendarAnchorsOf(event))
     : utc \in {TRUE} \cap {ParseUtc(event)}}

CalendarDelete(event, seq) == {Removes(seq, event.id, CalendarCapabilities[1].object_kind)}

-----------------------------------------------------------------------------
(* Contacts: [id, dated, display_name, given_name, company, job, emails, phones, photo] *)

\* title_of: the display name, the personal name, the company, or a placeholder.
TitleOf(c) ==
  CASE c.display_name > 0 -> c.display_name
    [] c.display_name = 0 /\ c.given_name > 0 -> c.given_name
    [] c.display_name = 0 /\ c.given_name = 0 -> IF c.company > 0 THEN c.company ELSE 15

ContactAnchorsOf(c) ==
  LET usable(list) == Len(SelectSeq(list, LAMBDA address : address # 0)) IN
  Anchors(ContactsAnchors[1], usable(c.emails), {}) \o Anchors(ContactsAnchors[2], usable(c.phones), {})

BodyOf(c) == TitleOf(c) + c.company + c.job + 30 * (1 + Len(c.emails) + Len(c.phones))

\* No photo, or one that could not be had, is no artifact.
PhotoArtifact(c, seq, limits, policy) ==
  LET excluded(photo) == ~Included(policy, photo.media_type) \/ photo.bytes > limits.max_artifact_bytes
  IN IF c.photo = {} THEN <<>>
     ELSE LET photo == CHOOSE p \in c.photo : TRUE IN
       <<IF excluded(photo) THEN NotRetainedRef(photo.bytes, {photo.media_type}, {})
                            ELSE StagedRef(seq, photo.bytes, {photo.media_type}, {})>>

ContactRecord(c, seq, limits, policy) ==
  LET body == Truncated(BodyOf(c), limits.max_body_bytes) IN
  {Asserts(seq, SourceOf(c.id, {"change_key"}, {}), ContactsCapabilities[1],
     Property("", "title", Text(TitleOf(c)))
       \o When(c.company > 0, Property("outlook_contacts", "company_name", Text(c.company)))
       \o When(c.job > 0, Property("outlook_contacts", "job_title", Text(c.job)))
       \o Property("outlook_contacts", "contact_kind", Text(6)),
     body.kept, body.lost, PhotoArtifact(c, seq, limits, policy), ContactAnchorsOf(c))
     : dated \in {TRUE} \cap {c.dated}}

ContactDelete(c, seq) == {Removes(seq, c.id, ContactsCapabilities[1].object_kind)}
=============================================================================
