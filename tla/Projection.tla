----------------------------- MODULE Projection -----------------------------
(***************************************************************************)
(* How evidence becomes a Note: what core admits of a record event's       *)
(* properties (crates/fieldnotes-field-protocol declared.rs and value.rs), *)
(* how it projects the event onto a canonical record                       *)
(* (crates/fieldnotes-app sync/project.rs), and how the note command       *)
(* composes its own (note.rs).  An event's property carries the spellings  *)
(* of its members under a JSON shape.                                      *)
(***************************************************************************)
EXTENDS RecordFormat

\* The names no record may carry; skipped_attachments, which core sets too, is not one.
CoreOwned == {"damaged", "lost_characters"}

Declared ==
  [local_path |-> [kind |-> "text", list |-> FALSE],
   local_tags |-> [kind |-> "text", list |-> TRUE],
   local_size |-> [kind |-> "number", list |-> FALSE]]

\* PropertyShape::accepts
Accepts(shape, v) ==
  /\ shape.list = v.list
  /\ CASE shape.kind = "text" -> v.shape = "text"
       [] shape.kind = "number" -> v.shape = "number"
       [] shape.kind = "bool" -> v.shape = "boolean"
       [] shape.kind = "date" -> v.shape = "text" /\ \A i \in DOMAIN v.items : DateParses(v.items[i])
       [] shape.kind = "datetime" -> v.shape = "text" /\ \A i \in DOMAIN v.items : DatetimeParses(v.items[i])

\* The frame's own grammar: no core-owned name, no empty list.
DecodesProperties(props) ==
  \A k \in DOMAIN props : k \notin CoreOwned /\ props[k].items # <<>>

\* DeclaredPropertyIndex::check
ChecksProperty(field, k, v) ==
  IF k \in Prefixed
    THEN PrefixOf[k] = OwnPrefix(field) /\ k \in DOMAIN Declared /\ Accepts(Declared[k], v)
    ELSE k \in DOMAIN Registry /\ k \notin DerivedRecordOnly /\ Accepts(Registry[k], v)

Admits(e) ==
  /\ DecodesProperties(e.props)
  /\ \A k \in DOMAIN e.props : ChecksProperty(e.field, k, e.props[k])

---------------------------------------------------------------------------
\* shape_of: a declared property first, then the shared registry.
ShapeOf(k) == {Declared[x] : x \in {k} \cap DOMAIN Declared}
              \cup {Registry[x] : x \in ({k} \cap DOMAIN Registry) \ DOMAIN Declared}

\* convert, with the scalar a list may offer to a scalar property.
Convert(shape, v) ==
  LET parses(s) == CASE shape.kind = "date" -> DateParses(s)
                     [] shape.kind = "datetime" -> DatetimeParses(s)
                     [] OTHER -> TRUE
      scalar(s) == {[kind |-> shape.kind, text |-> t] : t \in {x \in {s} : parses(x)}}
      fits == CASE v.shape = "number" -> shape.kind = "number"
                [] v.shape = "boolean" -> shape.kind = "bool"
                [] v.shape = "text" -> shape.kind \in {"text", "date", "datetime"}
  IN IF ~fits THEN {}
     ELSE {[list |-> shape.list, items |-> IF shape.list THEN items ELSE SubSeq(items, 1, 1)] :
             items \in Each(v.items, scalar)}

Text(s) == [list |-> FALSE, items |-> <<[kind |-> "text", text |-> s]>>]
OptionalProperty(k, v, set) == [x \in {y \in {k} : set} |-> v]

TrimEnd(b) ==
  LET tail == {i \in DOMAIN b : Blank(SubSeq(b, i, Len(b)))}
  IN SubSeq(b, 1, Len(b) - Cardinality(tail))
TrimStart(b) ==
  LET front == {i \in DOMAIN b : Blank(SubSeq(b, 1, i))}
  IN SubSeq(b, Cardinality(front) + 1, Len(b))

Join(a, b) ==
  CASE a = <<>> -> b
    [] b = <<>> -> a
    [] OTHER -> a \o <<"lf", "lf">> \o b
Section(text, present) == IF present THEN text ELSE <<>>

\* artifact_section: a heading and a line for each artifact, retained or skipped.
ArtifactSection(e) == Section(<<"w", "lf">>, e.retained # {} \/ e.skipped)

\* compose_body of project.rs: the start of the body is kept as it came.
ComposeProjected(e) ==
  Join(TrimEnd(e.body), ArtifactSection(e)) \o <<"lf">>

\* compose_body of note.rs: title, trimmed text, reference to the import.
ComposeNote(in) ==
  Join(Section(<<"w">>, in.title),
       Join(TrimStart(TrimEnd(in.body)), Section(<<"w">>, in.retained # {}))) \o <<"lf">>

NewRecord(id, instance, in, body) ==
  [fault |-> "none", id |-> id, instance |-> instance, field |-> in.field, type |-> in.type,
   occurred |-> in.occurred, hash |-> ContentHash(body), source |-> {},
   artifacts |-> in.retained, attachments |-> {}, props |-> <<>>, body |-> body]

CanHoldExactly(lost) == lost # "huge"

\* build_note: properties override what core set before them.
ProjectedProps(e) ==
  [k \in DOMAIN e.props |-> CHOOSE v \in UNION {Convert(s, e.props[k]) : s \in ShapeOf(k)} : TRUE]
Integrity(e) ==
  [x \in {y \in {"lost_characters"} : e.lost # "none"} |->
     [list |-> FALSE, items |-> <<[kind |-> "number", text |-> e.lost]>>]]
Skipped(e) == OptionalProperty("skipped_attachments", [Text("phrase") EXCEPT !.list = TRUE], e.skipped)
Over(f, g) == [k \in DOMAIN f \cup DOMAIN g |-> IF k \in DOMAIN f THEN f[k] ELSE g[k]]

ProjectEvent(id, instance, e) ==
  LET body == NormalizeBody(ComposeProjected(e))
      converts == \A k \in DOMAIN e.props : \E s \in ShapeOf(k) : Convert(s, e.props[k]) # {}
      record == [NewRecord(id, instance, e, body) EXCEPT
                   !.source = {"scope", "identity"},
                   !.attachments = e.retained,
                   !.props = Over(ProjectedProps(e), Over(Integrity(e), Skipped(e)))]
  IN IF e.type \notin NoteTypes \/ e.occurred = "absent" \/ Blank(body)
        \/ ~CanHoldExactly(e.lost) \/ ~converts
     THEN {} ELSE Build(record)

\* create_note, from the instance on.
ComposedNote(id, instance, in) ==
  LET body == NormalizeBody(ComposeNote(in))
      record == [NewRecord(id, instance, in, body) EXCEPT
                   !.props = OptionalProperty("title", Text("word"), in.title)]
  IN IF Blank(body) THEN {} ELSE Build(record)
=============================================================================
