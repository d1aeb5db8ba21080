---------------------------- MODULE RecordFormat ----------------------------
(***************************************************************************)
(* The byte form of a Note (crates/fieldnotes-format and -domain): how a   *)
(* typed record is emitted, how a file is parsed back and typed again, and *)
(* what the validator asks of it.  A text is known by the class its        *)
(* spelling belongs to, a body by the characters normalization tells       *)
(* apart, and a value that may be missing is a set of at most one element: *)
(* the empty set is an error.                                              *)
(***************************************************************************)
EXTENDS Naturals, Sequences, FiniteSets

(* Spellings: "moment" is a datetime with its offset, "trip" begins like   *)
(* one (2024-05-01Trip), "phrase" needs quotes for its punctuation, and    *)
(* "huge" is a whole number beyond 2^53.                                   *)
Spellings == {"word", "phrase", "empty", "true", "null", "whole", "padded", "huge",
              "point", "day", "moment", "trip"}
Kinds == {"text", "number", "bool", "date", "datetime"}

---------------------------------------------------------------------------
(* Bodies *)

Characters == {"bom", "cr", "lf", "sp", "w"}

StripBom(b) == IF b # <<>> /\ Head(b) = "bom" THEN Tail(b) ELSE b

\* CRLF and a lone CR become LF.
ToLf(b) ==
  LET kept == {i \in DOMAIN b : ~(b[i] = "lf" /\ i > 1 /\ b[i - 1] = "cr")}
      nth(k) == CHOOSE i \in kept : Cardinality({j \in kept : j <= i}) = k
  IN [k \in 1..Cardinality(kept) |-> IF b[nth(k)] = "cr" THEN "lf" ELSE b[nth(k)]]

NormalizeBody(b) ==
  LET t == ToLf(StripBom(b))
      end == {i \in DOMAIN t : \A j \in i..Len(t) : t[j] = "lf"}
  IN SubSeq(t, 1, Len(t) - Cardinality(end)) \o <<"lf">>

Blank(b) == \A i \in DOMAIN b : b[i] \in {"lf", "cr", "sp"}

\* The hash is as good as the text it was computed from.
ContentHash(b) == <<b>>

---------------------------------------------------------------------------
(* Scalars: what YAML reads, and how the canonical emitter spells *)

CoreSchemaInt(s) == s \in {"whole", "padded", "huge"}
CoreSchemaFloat(s) == s \in {"whole", "padded", "huge", "point"}
CoreSchemaString(s) ==
  ~(s \in {"null", "true"} \/ CoreSchemaInt(s) \/ CoreSchemaFloat(s))

PlainStyleAllowed(s) == s \notin {"phrase", "empty", "moment"} /\ CoreSchemaString(s)

DateParses(s) == s = "day"
DatetimeParses(s) == s = "moment"
LooksLikeDatetime(s) == s \in {"moment", "trip"}
\* JSON's grammar has no padding, and whole numbers keep to the exact range.
NumberParses(s) == s \in {"whole", "point"}

\* A token that is neither quoted nor plain YAML is refused before typing.
ScalarTokenReads(raw) == raw.plain => raw.text \notin {"null", "phrase", "empty"}

EmitScalar(s) ==
  [plain |-> s.kind # "text" \/ PlainStyleAllowed(s.text), text |-> s.text]

\* A registered property says what its token must be.
CoerceScalar(raw, kind) ==
  LET reads == CASE kind = "text" -> raw.plain => CoreSchemaString(raw.text)
                 [] kind = "number" -> raw.plain /\ NumberParses(raw.text)
                 [] kind = "bool" -> raw.plain /\ raw.text = "true"
                 [] kind = "date" -> raw.plain /\ DateParses(raw.text)
                 [] kind = "datetime" -> raw.plain /\ DatetimeParses(raw.text)
  IN {[kind |-> k, text |-> raw.text] : k \in {x \in {kind} : reads}}

\* The type of a prefixed property is guessed from its spelling.
InferScalar(raw) ==
  LET kinds ==
        CASE ~raw.plain -> {"text"}
          [] raw.plain /\ LooksLikeDatetime(raw.text) ->
               {k \in {"datetime"} : DatetimeParses(raw.text)}
          [] raw.plain /\ DateParses(raw.text) -> {"date"}
          [] raw.plain /\ raw.text = "true" -> {"bool"}
          [] raw.plain /\ raw.text \in {"word"} -> {"text"}
          [] OTHER -> {k \in {"number"} : NumberParses(raw.text)}
  IN {[kind |-> k, text |-> raw.text] : k \in kinds}

---------------------------------------------------------------------------
(* Properties: the shared registry and the prefixes of the stems *)

Registry ==
  [title |-> [kind |-> "text", list |-> FALSE, set |-> FALSE],
   started_at |-> [kind |-> "datetime", list |-> FALSE, set |-> FALSE],
   to |-> [kind |-> "text", list |-> TRUE, set |-> FALSE],
   skipped_attachments |-> [kind |-> "text", list |-> TRUE, set |-> TRUE],
   damaged |-> [kind |-> "bool", list |-> FALSE, set |-> FALSE],
   lost_characters |-> [kind |-> "number", list |-> FALSE, set |-> FALSE]]
DerivedRecordOnly == {"confidence"}

PrefixOf == [local_path |-> "local", local_tags |-> "local", local_size |-> "local",
             teams_chat |-> "teams"]
Prefixed == DOMAIN PrefixOf
OwnPrefix(field) == IF field = "local_docs" THEN "local" ELSE "none"

\* The order and the repetitions the emitter takes out of a registered set are not kept here.
EmitValue(key, v) ==
  [list |-> v.list, items |-> [i \in DOMAIN v.items |-> EmitScalar(v.items[i])]]

Each(raws, F(_)) ==
  IF \A i \in DOMAIN raws : F(raws[i]) # {}
    THEN {[i \in DOMAIN raws |-> CHOOSE s \in F(raws[i]) : TRUE]} ELSE {}

\* type_entries: the value of one property, or nothing when it has none.
TypeEntry(key, raw) ==
  LET registered == key \in DOMAIN Registry
      one(r) == IF registered THEN CoerceScalar(r, Registry[key].kind) ELSE InferScalar(r)
      homogeneous(items) == \A i, j \in DOMAIN items : items[i].kind = items[j].kind
  IN IF \/ ~registered /\ key \notin Prefixed
        \/ registered /\ Registry[key].list # raw.list
        \/ raw.items = <<>>
        \/ \E i \in DOMAIN raw.items : ~ScalarTokenReads(raw.items[i])
     THEN {}
     ELSE {[list |-> raw.list, items |-> items] :
             items \in {s \in Each(raw.items, one) : homogeneous(s)}}

---------------------------------------------------------------------------
(* Files and records.  The two have the same fields; props holds raw tokens *)
(* in the one and typed values in the other.                               *)

FaultsOfEnvelope == {"utf8", "opening", "closing", "separator"}
FaultsOfYaml == {"blank line", "comment", "indentation", "nesting", "flow",
                 "anchor", "tag", "duplicate key", "block scalar", "single quotes"}
Faults == FaultsOfEnvelope \cup FaultsOfYaml

EmitRecord(r) ==
  [r EXCEPT !.props = [k \in {x \in DOMAIN r.props : r.props[x].items # <<>>} |->
                         EmitValue(k, r.props[k])]]

\* split_file: one blank line ends the frontmatter, so no body begins with one.
SplitsIntoParts(f) == f.fault = "none" /\ (f.body # <<>> => Head(f.body) # "lf")

ParseRecord(f) ==
  IF ~SplitsIntoParts(f) \/ f.id = 0 \/ \E k \in DOMAIN f.props : TypeEntry(k, f.props[k]) = {}
    THEN {}
    ELSE {[f EXCEPT !.props = [k \in DOMAIN f.props |-> CHOOSE v \in TypeEntry(k, f.props[k]) : TRUE],
                    !.body = NormalizeBody(f.body)]}

FieldIdParses(field) == field \in {"self", "local_docs"}
NoteTypes == {"text", "file", "voice", "document"}
InstanceIdParses(i) == i > 0

\* validate_note
ValidNote(r) ==
  /\ InstanceIdParses(r.instance)
  /\ FieldIdParses(r.field)
  /\ \A k \in DOMAIN r.props \cap Prefixed : PrefixOf[k] = OwnPrefix(r.field)
  /\ r.type \in NoteTypes
  /\ r.occurred # "absent"
  /\ "scope" \in r.source <=> "identity" \in r.source
  /\ r.attachments \subseteq r.artifacts

ValuesAgree(key, asked, parsed) ==
  /\ asked.list = parsed.list
  /\ IF key \in DOMAIN Registry /\ Registry[key].set
       THEN {asked.items[i] : i \in DOMAIN asked.items} = {parsed.items[i] : i \in DOMAIN parsed.items}
       ELSE asked.items = parsed.items

BuildUnchecked(r) ==
  {f \in {EmitRecord([r EXCEPT !.body = NormalizeBody(r.body)])} : f.body # <<"lf">>}

\* build: the file of a record, when what is read back is what was asked for.
Build(r) ==
  LET asked == [r EXCEPT !.body = NormalizeBody(r.body)]
      file == EmitRecord(asked)
      round == \E p \in ParseRecord(file) :
                 /\ ValidNote(p)
                 /\ p.body = asked.body
                 /\ DOMAIN p.props = DOMAIN asked.props
                 /\ \A k \in DOMAIN p.props : ValuesAgree(k, asked.props[k], p.props[k])
  IN {f \in {file} : asked.body # <<"lf">> /\ round}

\* The UTC year of a moment at the edge of the calendar has no file name.
FilenameUtc(at) == {t \in {at} : at # "first day"}
NoteFilename(r) ==
  {[at |-> t, field |-> r.field, type |-> r.type, id |-> r.id] : t \in FilenameUtc(r.occurred)}
=============================================================================
