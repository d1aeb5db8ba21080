------------------------------- MODULE MCKit --------------------------------
(* The conformance suite: every scenario of the fixture under several plans, *)
(* and objects at the edge of what each Field bounds.                        *)
EXTENDS Kit

AtCeilings == Incremental(Ceilings)

Tight == Incremental([Ceilings EXCEPT !.max_frame_bytes = 8192, !.max_artifact_bytes = 1024,
                                      !.max_body_bytes = 1024])

Suite ==
  { AtCeilings, Tight, Snapshot(Ceilings, "local-root"),
    [AtCeilings EXCEPT !.known_digests = {"artifact"}],
    [AtCeilings EXCEPT !.durability = {1}], [AtCeilings EXCEPT !.durability = {2}],
    [AtCeilings EXCEPT !.cancel_after = {1}] }

Scenarios ==
  { "DescribeLocal", "DescribeMail", "DescribeVersionMismatch", "DescribeFutureVersion" }
  \cup DOMAIN ReplayScripts \cup DOMAIN TombstoneScripts \cup DOMAIN ResumeScripts({})
  \cup DOMAIN SnapshotScripts("local-root") \cup DOMAIN MalformedScripts(Ceilings)
  \cup DOMAIN ArtifactScripts(Ceilings) \cup DOMAIN PropertyScripts
  \cup DOMAIN InterruptedScripts("incremental", "local-root", FALSE)

FixtureTests ==
  {[subject |-> [field |-> "fixture", scenario |-> s, objects |-> <<>>], plan |-> p] :
     s \in Scenarios, p \in Suite}

Text0 == {<<"text", "plain">>}
LocalFile(id, bytes, reads_as, regular) ==
  [id |-> id, path |-> 20, name |-> 10, bytes |-> bytes, reads_as |-> reads_as,
   document |-> FALSE, regular |-> regular, removed |-> FALSE]

LocalObjects ==
  { <<LocalFile("first", 40, Text0, TRUE), LocalFile("second", b, m, r)>> :
      b \in {500, 2000, 9000, 26214401, 536870913}, m \in {{}, Text0, {<<"video", "mp4">>}}, r \in BOOLEAN }

People(n) == [i \in 1 .. n |-> i]

Message(id, people, subject_bytes, removed) ==
  [id |-> id, dated |-> TRUE, subject |-> subject_bytes, from |-> {1}, sender |-> {}, to |-> People(people),
   cc |-> <<>>, bcc |-> <<2, 0>>, reply_to |-> <<>>, conversation |-> 30, body |-> 3000000,
   categories |-> <<1, 2>>, artifacts |-> <<>>, bytes |-> 0, removed |-> removed]

MailObjects == 
  {<<Message("first", n, s, FALSE), Message("second", 2, 0, r)>> :
     n \in {0, 256, 257}, s \in {0, 700, 70000}, r \in BOOLEAN}

Meeting(id, people, title) ==
  [id |-> id, zone |-> "utc", subject |-> title, organizer |-> {999}, attendees |-> people,
   response |-> TRUE, bytes |-> 0, removed |-> FALSE]

CalendarObjects ==
  {<<Meeting("first", p, t), [Meeting("second", People(3), 12) EXCEPT !.removed = r]>> :
     p \in {People(255), People(256), [i \in 1 .. 256 |-> 1], People(1024)},
     t \in {12, 65536, 65537}, r \in BOOLEAN}

Person(id, company, emails, photo) ==
  [id |-> id, dated |-> TRUE, display_name |-> 0, given_name |-> 0, company |-> company, job |-> 9,
   emails |-> emails, phones |-> <<1, 0>>, photo |-> {[bytes |-> 900, media_type |-> m] : m \in photo},
   bytes |-> 900, removed |-> FALSE]

ContactObjects ==
  {<<Person("first", c, e, {}), Person("second", 20, <<0>>, p)>> :
     c \in {0, 65536, 65537}, e \in {<<>>, People(255), People(256)},
     p \in {{}, {<<"image", "png">>}, {<<"image", "bmp">>}}}

LocalTests ==
  {[subject |-> [field |-> "local", scenario |-> "", objects |-> o], plan |-> p] :
     o \in LocalObjects, p \in {AtCeilings, Incremental(Defaults), Tight, Snapshot(Ceilings, "local-root")}}

OwnTests ==
  LocalTests
  \cup {[subject |-> [field |-> "mail", scenario |-> "", objects |-> o], plan |-> AtCeilings] : o \in MailObjects}
  \cup {[subject |-> [field |-> "calendar", scenario |-> "", objects |-> o], plan |-> AtCeilings] : o \in CalendarObjects}
  \cup {[subject |-> [field |-> "contacts", scenario |-> "", objects |-> o], plan |-> AtCeilings] : o \in ContactObjects}

\* Frames of the credential channel, every outcome with and without material and
\* an explanation: exactly the granted ones with sound material, and the others
\* with an explanation and nothing else, decode.
Materials ==
  [kind : {"bearer_token", "basic"}, value : {0, 1, 65536, 65537}, username : {{}, {0}, {512}, {513}}, scopes : {<<>>}]

SoundMaterial(m) ==
  /\ m.value \in 1 .. 65536 /\ m.username \subseteq 1 .. 512
  /\ m.kind = "basic" => m.username # {}

CredentialLine(outcome, material, message) ==
  FrameLine([type |-> "credential_response", grant_id |-> 40, outcome |-> outcome,
             material |-> material, message |-> message])

ASSUME CredentialFramesAssumption ==
  \A outcome \in CredentialOutcome, material \in {{}} \cup {{m} : m \in Materials}, message \in {{}, {9}} :
    DecodeCredentialFrame(CredentialLine(outcome, material, message)) = "ok"
      <=> IF outcome = "granted" THEN message = {} /\ \E m \in material : material = {m} /\ SoundMaterial(m)
          ELSE material = {} /\ message # {}

AllTests == FixtureTests \cup OwnTests
=============================================================================
