--------------------------- MODULE NotebookProofs ---------------------------
(***************************************************************************)
(* Theorems about Notebook, for any number of processes, inputs, commands, *)
(* edits and crashes: what a command wrote and nobody touched stands, and  *)
(* inspect neither hides nor invents damage, whatever runs beside it.      *)
(***************************************************************************)
EXTENDS Notebook, TLAPS, FiniteSetTheorems, WellFoundedInduction

-----------------------------------------------------------------------------
(* Bodies: what was normalized once stays as it is *)

\* A nonempty set of numbers has a least one.
LEMMA HasLeast ==
  ASSUME NEW S \in SUBSET Nat, S # {}
  PROVE  \E x \in S : \A y \in S : x <= y
<1>1. \E x \in S : \A y \in S : ~ (<<y, x>> \in OpToRel(<, Nat))
  BY WFMin, NatLessThanWellFounded
<1>2. PICK x \in S : \A y \in S : ~ (y < x)
  BY <1>1 DEF OpToRel
<1> QED BY <1>2

\* An interval, counted.
LEMMA Counted ==
  ASSUME NEW a \in Nat, NEW b \in Nat, a <= b + 1
  PROVE  IsFiniteSet(a .. b) /\ Cardinality(a .. b) = b - a + 1
<1>1. a \in Int /\ b \in Int
  OBVIOUS
<1>2. IsFiniteSet(a .. b) /\ Cardinality(a .. b) = IF a > b THEN 0 ELSE b - a + 1
  BY ONLY <1>1, FS_Interval
<1> QED BY <1>2

\* Some of the first n numbers, counted.
LEMMA SomeOfInterval ==
  ASSUME NEW n \in Nat, NEW S \in SUBSET (1 .. n)
  PROVE  IsFiniteSet(S) /\ Cardinality(S) \in 0 .. n
<1>1. IsFiniteSet(1 .. n) /\ Cardinality(1 .. n) = n
  BY Counted
<1>2. IsFiniteSet(S) /\ Cardinality(S) <= n
  BY <1>1, FS_Subset
<1> QED BY <1>2, FS_CardinalityType

\* The tail of a sequence that has nothing but line feeds is an interval.
LEMMA EndIsInterval ==
  ASSUME NEW t, NEW m \in Nat,
         NEW end, end = {i \in 1 .. m : \A j \in i .. m : t[j] = "lf"}
  PROVE  /\ Cardinality(end) \in 0 .. m
         /\ m - Cardinality(end) \in 1 .. m => t[m - Cardinality(end)] # "lf"
<1>1. end \in SUBSET (1 .. m) /\ Cardinality(end) \in 0 .. m
  <2>1. end \in SUBSET (1 .. m)
    OBVIOUS
  <2> QED BY <2>1, SomeOfInterval
<1>2. CASE end = {}
  <2>1. Cardinality(end) = 0
    BY <1>2, FS_EmptySet
  <2>2. ASSUME m \in 1 .. m, t[m] = "lf" PROVE FALSE
    <3>1. m .. m = {m}
      OBVIOUS
    <3>2. m \in end
      BY <2>2, <3>1
    <3> QED BY <3>2, <1>2
  <2> QED BY <1>1, <2>1, <2>2
<1>3. CASE end # {}
  <2>1. PICK i \in end : \A j \in end : i <= j
    <3>1. end \in SUBSET Nat
      BY <1>1
    <3> QED BY <1>3, <3>1, HasLeast
  <2>2. end = i .. m
    BY <2>1
  <2>3. Cardinality(end) = m - i + 1
    <3>1. i \in Nat /\ i <= m + 1
      BY <1>1, <2>1
    <3> QED BY <2>2, <3>1, Counted
  <2>4. ASSUME i - 1 \in 1 .. m, t[i - 1] = "lf" PROVE FALSE
    <3>1. i - 1 \in end
      BY <2>1, <2>4
    <3> QED BY <2>1, <3>1
  <2> QED BY <1>1, <2>1, <2>3, <2>4
<1> QED BY <1>2, <1>3

\* ToLf leaves no carriage return.
LEMMA ToLfHasNoCr ==
  ASSUME NEW n \in Nat, NEW b, DOMAIN b = 1 .. n
  PROVE  \E m \in Nat : DOMAIN ToLf(b) = 1 .. m /\ \A k \in 1 .. m : ToLf(b)[k] # "cr"
<1> DEFINE kept == {i \in DOMAIN b : ~(b[i] = "lf" /\ i > 1 /\ b[i - 1] = "cr")}
<1>1. Cardinality(kept) \in Nat
  BY SomeOfInterval
<1> QED BY <1>1 DEF ToLf

\* Where there is none, ToLf changes nothing.
LEMMA ToLfKeeps ==
  ASSUME NEW n \in Nat, NEW b, b = [k \in 1 .. n |-> b[k]], \A k \in 1 .. n : b[k] # "cr"
  PROVE  ToLf(b) = b
<1> DEFINE kept == {i \in DOMAIN b : ~(b[i] = "lf" /\ i > 1 /\ b[i - 1] = "cr")}
           nth(k) == CHOOSE i \in kept : Cardinality({j \in kept : j <= i}) = k
<1>1. kept = 1 .. n
  OBVIOUS
<1>2. Cardinality(kept) = n
  <2>1. 1 \in Nat /\ 1 <= n + 1 /\ n - 1 + 1 = n
    OBVIOUS
  <2> QED BY <1>1, <2>1, Counted
<1>3. ASSUME NEW i \in 1 .. n PROVE Cardinality({j \in kept : j <= i}) = i
  <2>1. {j \in kept : j <= i} = 1 .. i
    BY <1>1
  <2>2. 1 \in Nat /\ i \in Nat /\ 1 <= i + 1 /\ i - 1 + 1 = i
    OBVIOUS
  <2> QED BY <2>1, <2>2, Counted
<1>4. ASSUME NEW k \in 1 .. n PROVE nth(k) = k
  BY <1>1, <1>3
<1>5. ToLf(b) = [k \in 1 .. Cardinality(kept) |-> IF b[nth(k)] = "cr" THEN "lf" ELSE b[nth(k)]]
  BY DEF ToLf
<1> HIDE DEF kept, nth
<1> QED BY <1>2, <1>4, <1>5

\* A normal text has no carriage return and ends in one line feed.
Normal(y) ==
  \E n \in Nat \ {0} :
    /\ y = [k \in 1 .. n |-> y[k]]
    /\ \A k \in 1 .. n : y[k] # "cr"
    /\ y[n] = "lf"
    /\ n > 1 => y[n - 1] # "lf"

LEMMA EndsOnce ==
  ASSUME NEW m \in Nat, NEW t, t = [k \in 1 .. m |-> t[k]], \A k \in 1 .. m : t[k] # "cr",
         NEW end, end = {i \in DOMAIN t : \A j \in i..Len(t) : t[j] = "lf"}
  PROVE  Normal(SubSeq(t, 1, Len(t) - Cardinality(end)) \o <<"lf">>)
<1>1. t \in Seq({t[k] : k \in 1 .. m}) /\ Len(t) = m
  OBVIOUS
<1>2. end = {i \in 1 .. m : \A j \in i .. m : t[j] = "lf"}
  BY <1>1
<1>3. /\ Cardinality(end) \in 0 .. m
      /\ m - Cardinality(end) \in 1 .. m => t[m - Cardinality(end)] # "lf"
  BY <1>2, EndIsInterval
<1>4. PICK n \in 0 .. m : n = m - Cardinality(end) /\ (n >= 1 => t[n] # "lf")
  <2>1. \A c \in 0 .. m : m - c \in 0 .. m /\ (m - c >= 1 => m - c \in 1 .. m)
    OBVIOUS
  <2> QED BY <1>3, <2>1
<1>5. PICK u : u = SubSeq(t, 1, n)
  OBVIOUS
<1>6. u \in Seq({t[k] : k \in 1 .. m}) /\ Len(u) = n /\ \A k \in 1 .. n : u[k] = t[k]
  BY <1>1, <1>5
<1>7. PICK y : y = u \o <<"lf">>
  OBVIOUS
<1>8. /\ y = [k \in 1 .. (n + 1) |-> y[k]]
      /\ \A k \in 1 .. n : y[k] = t[k]
      /\ y[n + 1] = "lf"
  <2>1. y \in Seq({t[k] : k \in 1 .. m} \cup {"lf"}) /\ Len(y) = n + 1
    BY <1>6, <1>7
  <2>2. y = [k \in 1 .. Len(y) |-> y[k]]
    BY <2>1
  <2>3. \A k \in 1 .. n : y[k] = u[k]
    BY <1>6, <1>7
  <2>4. y[n + 1] = "lf"
    BY <1>6, <1>7
  <2> QED BY <1>6, <2>1, <2>2, <2>3, <2>4
<1>9. n + 1 \in Nat \ {0}
  OBVIOUS
<1>10. Normal(y)
  <2>1. \A k \in 1 .. (n + 1) : k \in 1 .. n \/ k = n + 1
    OBVIOUS
  <2>2. \A k \in 1 .. (n + 1) : y[k] # "cr"
    <3>1. \A k \in 1 .. n : k \in 1 .. m
      OBVIOUS
    <3> QED BY <1>8, <2>1, <3>1
  <2>3. n + 1 > 1 => y[n + 1 - 1] # "lf"
    <3>1. n + 1 - 1 = n /\ (n + 1 > 1 => n >= 1 /\ n \in 1 .. n)
      OBVIOUS
    <3> QED BY <1>4, <1>8, <3>1
  <2> QED BY <1>8, <1>9, <2>2, <2>3 DEF Normal
<1> QED BY <1>1, <1>4, <1>5, <1>7, <1>10

LEMMA NormalizeIsNormal ==
  ASSUME NEW S, NEW x \in Seq(S)
  PROVE  Normal(NormalizeBody(x))
<1>1. StripBom(x) \in Seq(S)
  BY DEF StripBom
<1>2. PICK l \in Nat : DOMAIN StripBom(x) = 1 .. l
  BY <1>1
<1>3. PICK t : t = ToLf(StripBom(x))
  OBVIOUS
<1>4. PICK m \in Nat : DOMAIN t = 1 .. m /\ \A k \in 1 .. m : t[k] # "cr"
  BY <1>2, <1>3, ToLfHasNoCr
<1>5. t = [k \in DOMAIN t |-> t[k]]
  BY <1>3 DEF ToLf
<1>6. PICK end : end = {i \in DOMAIN t : \A j \in i..Len(t) : t[j] = "lf"}
  OBVIOUS
<1>7. NormalizeBody(x) = SubSeq(t, 1, Len(t) - Cardinality(end)) \o <<"lf">>
  BY <1>3, <1>6 DEF NormalizeBody
<1> QED BY <1>4, <1>5, <1>6, <1>7, EndsOnce

LEMMA NormalStays ==
  ASSUME NEW y, Normal(y), Head(y) # "bom"
  PROVE  NormalizeBody(y) = y
<1>1. PICK n \in Nat \ {0} :
         /\ y = [k \in 1 .. n |-> y[k]]
         /\ \A k \in 1 .. n : y[k] # "cr"
         /\ y[n] = "lf"
         /\ n > 1 => y[n - 1] # "lf"
  BY DEF Normal
<1>2. y \in Seq({y[k] : k \in 1 .. n}) /\ Len(y) = n
  BY <1>1
<1>3. ToLf(StripBom(y)) = y
  <2>1. StripBom(y) = y
    BY DEF StripBom
  <2> QED BY <1>1, <2>1, ToLfKeeps
<1> DEFINE end == {i \in DOMAIN y : \A j \in i..Len(y) : y[j] = "lf"}
<1>4. end = {n}
  <2>1. ASSUME NEW i \in end PROVE i = n
    <3>1. i \in 1 .. n /\ \A j \in i .. n : y[j] = "lf"
      BY <1>1, <1>2
    <3>2. i # n => n > 1 /\ n - 1 \in i .. n
      BY <3>1
    <3> QED BY <1>1, <3>1, <3>2
  <2>2. n \in DOMAIN y /\ n .. n = {n}
    BY <1>1
  <2> QED BY <1>1, <1>2, <2>1, <2>2
<1>5. Cardinality(end) = 1
  BY <1>4, FS_Singleton
<1>6. NormalizeBody(y) = SubSeq(y, 1, n - 1) \o <<"lf">>
  BY <1>2, <1>3, <1>5 DEF NormalizeBody
<1> HIDE DEF end
<1>7. SubSeq(y, 1, n - 1) \o <<"lf">> = [k \in 1 .. n |-> y[k]]
  BY <1>1, <1>2
<1> QED BY <1>1, <1>6, <1>7

-----------------------------------------------------------------------------
(* The invariant: what is on disk *)

Profiles == [state : {"ok", "malformed"}, notebook : Places \cup {Nowhere}, timezone : BOOLEAN]
Counts == [notes : Nat, instances : Nat, commands : Nat, upsets : Nat]

PlacesStand ==
  /\ DOMAIN tree = Places
  /\ \A pl \in Places :
       /\ DOMAIN tree[pl] = DOMAIN EmptyPlace
       /\ tree[pl].instance \in 0 .. Malformed
       /\ tree[pl].corrupt \subseteq tree[pl].artifacts
  /\ profile \in Profiles /\ drawn \in Counts

\* A file has a name, which bears the ID of its record, one of those drawn.
IsFile(n, last) ==
  /\ DOMAIN n = {"name", "file", "touched"} /\ DOMAIN n.name = {"at", "field", "type", "id"}
  /\ {"id", "occurred", "artifacts", "hash"} \subseteq DOMAIN n.file
  /\ n.file.id = n.name.id /\ n.file.id \in 1 .. last

\* Files have names of their own.
Named(notes, last) ==
  /\ IsFiniteSet(notes)
  /\ \A m, n \in notes : m.name = n.name => m = n
  /\ \A n \in notes : IsFile(n, last)

NamesStand == \A pl \in Places : Named(tree[pl].notes, drawn.notes)

\* A Note as it was written reads back as the record it was written for.
ReadsBack(n) ==
  \E r \in ParseRecord(n.file) :
    /\ ParseRecord(n.file) = {r} /\ ValidNote(r)
    /\ NoteFilename(r) = {n.name}
    /\ r.artifacts = n.file.artifacts
    /\ ~HashedTooEarly(n.file) => r.hash = ContentHash(r.body)

WrittenNotesReadBack ==
  \A pl \in Places : \A n \in tree[pl].notes :
    ~n.touched => ReadsBack(n) /\ n.file.artifacts \subseteq tree[pl].artifacts \cup tree[pl].broken

\* Between the import and the Note: the artifacts are there, or the user took them.
ImportsStand ==
  \A p \in Procs : proc[p].step = "write" =>
    proc[p].in.retained \subseteq tree[proc[p].place].artifacts \cup tree[proc[p].place].broken

-----------------------------------------------------------------------------
(* What is written reads back *)

LEMMA TrimmedIsText ==
  ASSUME NEW b \in Seq(Characters)
  PROVE  TrimEnd(b) \in Seq(Characters) /\ TrimStart(b) \in Seq(Characters)
<1>1. Len(b) \in Nat /\ DOMAIN b = 1 .. Len(b)
  OBVIOUS
<1>2. \A S \in SUBSET DOMAIN b : Cardinality(S) \in 0 .. Len(b)
  BY <1>1, SomeOfInterval
<1>3. \A c \in 0 .. Len(b) :
        SubSeq(b, 1, Len(b) - c) \in Seq(Characters) /\ SubSeq(b, c + 1, Len(b)) \in Seq(Characters)
  BY <1>1
<1>4. TrimEnd(b) \in Seq(Characters)
  <2>1. Cardinality({k \in DOMAIN b : Blank(SubSeq(b, k, Len(b)))}) \in 0 .. Len(b)
    BY <1>2
  <2> QED BY <1>3, <2>1 DEF TrimEnd
<1>5. TrimStart(b) \in Seq(Characters)
  <2>1. Cardinality({k \in DOMAIN b : Blank(SubSeq(b, 1, k))}) \in 0 .. Len(b)
    BY <1>2
  <2> QED BY <1>3, <2>1 DEF TrimStart
<1> QED BY <1>4, <1>5

LEMMA JoinedIsText ==
  ASSUME NEW a \in Seq(Characters), NEW b \in Seq(Characters)
  PROVE  Join(a, b) \in Seq(Characters)
<1>1. <<"lf", "lf">> \in Seq(Characters)
  BY DEF Characters
<1>2. a \o <<"lf", "lf">> \in Seq(Characters)
  BY <1>1
<1> QED BY <1>2 DEF Join

LEMMA SectionIsText ==
  ASSUME NEW a \in Seq(Characters), NEW c
  PROVE  Section(a, c) \in Seq(Characters)
BY DEF Section

LEMMA ComposedIsText ==
  ASSUME NEW in, in.body \in Seq(Characters)
  PROVE  ComposeNote(in) \in Seq(Characters) /\ ComposeProjected(in) \in Seq(Characters)
<1>1. <<"w">> \in Seq(Characters) /\ <<"lf">> \in Seq(Characters) /\ <<"w", "lf">> \in Seq(Characters)
  BY DEF Characters
<1>2. ComposeNote(in) \in Seq(Characters)
  <2>1. TrimStart(TrimEnd(in.body)) \in Seq(Characters)
    BY TrimmedIsText
  <2>2. Join(TrimStart(TrimEnd(in.body)), Section(<<"w">>, in.retained # {})) \in Seq(Characters)
    BY <1>1, <2>1, SectionIsText, JoinedIsText
  <2>3. Join(Section(<<"w">>, in.title),
             Join(TrimStart(TrimEnd(in.body)), Section(<<"w">>, in.retained # {}))) \in Seq(Characters)
    BY <1>1, <2>2, SectionIsText, JoinedIsText
  <2> QED BY <1>1, <2>3 DEF ComposeNote
<1>3. ComposeProjected(in) \in Seq(Characters)
  <2>1. ArtifactSection(in) \in Seq(Characters)
    BY <1>1, SectionIsText DEF ArtifactSection
  <2>2. Join(TrimEnd(in.body), ArtifactSection(in)) \in Seq(Characters)
    BY <2>1, TrimmedIsText, JoinedIsText
  <2> QED BY <1>1, <2>2 DEF ComposeProjected
<1> QED BY <1>2, <1>3

\* The record a command asks a file for.
Asked(r, in) ==
  /\ DOMAIN r = {"fault", "id", "instance", "field", "type", "occurred", "hash", "source",
                 "artifacts", "attachments", "props", "body"}
  /\ r.artifacts = in.retained
  /\ Normal(r.body) /\ r.hash = ContentHash(r.body)

\* Its file has its fields, and reads back as it: the hash is the one of the body that is
\* read, because the body was normal already.
LEMMA BuiltReadsBack ==
  ASSUME NEW r, NEW in, Asked(r, in), NEW f \in Build(r), NEW name \in NoteFilename(f),
         NEW n, n = [name |-> name, file |-> f, touched |-> FALSE]
  PROVE  /\ DOMAIN f = DOMAIN r /\ f.id = r.id /\ f.artifacts = in.retained
         /\ ReadsBack(n)
<1> DEFINE body == NormalizeBody(r.body)
           asked == [r EXCEPT !.body = body]
<1>1. f = EmitRecord(asked) /\ \E p \in ParseRecord(f) : ValidNote(p) /\ p.body = body
  BY DEF Build, Asked
<1>2. DOMAIN f = DOMAIN r /\ \A k \in DOMAIN r \ {"props", "body"} : f[k] = r[k]
  <2>1. PICK x : f = [asked EXCEPT !.props = x]
    BY <1>1 DEF EmitRecord
  <2> QED BY <2>1 DEF Asked
<1>3. /\ f.id = r.id /\ f.artifacts = r.artifacts /\ f.hash = r.hash
      /\ {"id", "artifacts", "hash", "occurred", "field", "type", "props", "body"} \subseteq DOMAIN f
  BY <1>2 DEF Asked
<1>4. PICK p \in ParseRecord(f) : ValidNote(p) /\ p.body = body
  BY <1>1
<1>5. PICK x, y : ParseRecord(f) = {p} /\ p = [f EXCEPT !.props = x, !.body = y]
  BY <1>4 DEF ParseRecord
<1>6. /\ p.id = f.id /\ p.artifacts = f.artifacts /\ p.hash = f.hash
      /\ p.occurred = f.occurred /\ p.field = f.field /\ p.type = f.type
  BY <1>3, <1>5
<1>7. NoteFilename(p) = {name}
  BY <1>6 DEF NoteFilename, FilenameUtc
<1>8. ~HashedTooEarly(f) => p.hash = ContentHash(p.body)
  <2>1. SUFFICES ASSUME ~HashedTooEarly(f) PROVE p.hash = ContentHash(p.body)
    OBVIOUS
  <2>2. Head(r.body) # "bom"
    BY <1>3, <2>1 DEF HashedTooEarly, Asked, ContentHash
  <2>3. body = r.body
    BY <2>2, NormalStays DEF Asked
  <2> QED BY <1>3, <1>4, <1>6, <2>3 DEF Asked
<1>9. n.file = f /\ n.name = name
  OBVIOUS
<1> QED BY <1>2, <1>3, <1>4, <1>5, <1>6, <1>7, <1>8, <1>9 DEF ReadsBack, Asked

\* Both commands ask for such a record, of the next ID.
LEMMA FilesAreBuilt ==
  ASSUME NEW p, proc[p].in.body \in Seq(Characters), NEW f \in FilesFor(p)
  PROVE  \E r : f \in Build(r) /\ Asked(r, proc[p].in) /\ r.id = drawn.notes + 1
<1> DEFINE in == proc[p].in
<1>1. CASE proc[p].cmd = "note"
  <2> DEFINE body == NormalizeBody(ComposeNote(in))
  <2>1. PICK x : f \in Build([NewRecord(drawn.notes + 1, proc[p].instance, in, body) EXCEPT !.props = x])
    BY <1>1 DEF FilesFor, ComposedNote
  <2>2. Normal(body)
    BY ComposedIsText, NormalizeIsNormal
  <2> HIDE DEF body
  <2> QED BY <2>1, <2>2 DEF NewRecord, Asked
<1>2. CASE proc[p].cmd # "note"
  <2> DEFINE body == NormalizeBody(ComposeProjected(in))
  <2>1. PICK x, y, z :
          f \in Build([NewRecord(drawn.notes + 1, proc[p].instance, in, body) EXCEPT
                         !.source = x, !.attachments = y, !.props = z])
    BY <1>2 DEF FilesFor, ProjectEvent
  <2>2. Normal(body)
    BY ComposedIsText, NormalizeIsNormal
  <2> HIDE DEF body
  <2>3. PICK r : r = [NewRecord(drawn.notes + 1, proc[p].instance, in, body) EXCEPT
                       !.source = x, !.attachments = y, !.props = z]
    OBVIOUS
  <2>4. /\ r.artifacts = in.retained /\ r.body = body /\ r.hash = ContentHash(body)
        /\ r.id = drawn.notes + 1
    BY <2>3 DEF NewRecord
  <2>5. DOMAIN r = {"fault", "id", "instance", "field", "type", "occurred", "hash", "source",
                    "artifacts", "attachments", "props", "body"}
    BY <2>3 DEF NewRecord
  <2> QED BY <2>1, <2>2, <2>3, <2>4, <2>5 DEF Asked
<1> QED BY <1>1, <1>2

-----------------------------------------------------------------------------
(* The invariant: where a command is *)

Steps == {"idle", "done", "resolve", "open", "already", "create", "default", "import", "write",
          "list", "names", "read", "strays"}

Scans == {"list", "names", "read", "strays"}

\* A command goes through the steps of its kind, in a place that was found.
OnItsWay(x) ==
  /\ DOMAIN x = DOMAIN Idle
  /\ x.step \in Steps
  /\ x.step \notin {"idle", "done", "resolve"} => x.place \in Places
  /\ x.explicit \in Places \cup {Nowhere}
  /\ x.step # "idle" => x.cwd \in Places
  /\ x.cmd = "set notebook" => x.explicit \in Places
  /\ x.seen \in Profiles
  /\ x.step \in {"already", "create", "default"} => x.cmd = "init"
  /\ x.step \in {"import", "write"} => x.cmd \in {"note", "collect"}
  /\ x.step \in Scans => x.cmd \in {"inspect", "status"}
  /\ x.step = "open" => x.cmd \in {"note", "collect", "inspect", "status"}
  /\ x.cmd \in {"note", "collect"} => x.in \in Inputs
  /\ (x.step = "done") <=> (x.exit # "none")
  /\ x.step \in {"resolve", "open"} => x.instance = 0
  /\ x.step \in {"resolve", "open", "list", "names"} => x.problems = {}

CommandsAreOnTheirWay == DOMAIN proc = Procs /\ \A p \in Procs : OnItsWay(proc[p])

-----------------------------------------------------------------------------
(* The invariant: a scan *)

Place(p) == tree[proc[p].place]
Unread(p) == {proc[p].todo[i] : i \in DOMAIN proc[p].todo}

\* The scan has found something wrong.
Bad(p) == \E x \in proc[p].problems : x[1] # "id"
Seen(p, i) == <<"id", i>> \in proc[p].problems

\* The history: what stands was wrong all along, and is all there was if nothing moved.
HistoryIsTrue ==
  \A p \in Procs : Scanning(p) =>
    /\ watch[p].standing \subseteq Damage(Place(p))
    /\ ~watch[p].moved => watch[p].standing = Damage(Place(p))

\* Once the artifacts are listed, what stands shows against that list.
ListIsTrue ==
  \A p \in Procs : proc[p].step \in {"names", "read", "strays"} =>
    /\ \A n : <<"note", n>> \in watch[p].standing => NoteProblems(n, proc[p].stored) # {}
    /\ \A a : <<"artifact", a>> \in watch[p].standing => a \in proc[p].stored
    /\ ~watch[p].moved => proc[p].stored = Place(p).artifacts

\* A damaged file is still to be read, or was found damaged.
DamageIsMet ==
  \A p \in Procs : proc[p].step \in {"read", "strays"} =>
    \A n : <<"note", n>> \in watch[p].standing => n.name \in Unread(p) \/ Bad(p)

\* Of two sound files with one ID the scan still meets the second.
CopiesAreMet ==
  \A p \in Procs : proc[p].step \in {"read", "strays"} =>
    \A i : <<"copies", i>> \in watch[p].standing =>
      \/ Bad(p)
      \/ \E x, y \in Unread(p) : x # y /\ x.id = i /\ y.id = i
      \/ Seen(p, i) /\ \E x \in Unread(p) : x.id = i

CorruptionIsMet ==
  \A p \in Procs : proc[p].step = "strays" /\ proc[p].cmd = "inspect" =>
    \A a : <<"artifact", a>> \in watch[p].standing => Bad(p)

\* A scan of a notebook that stays as it is has cause for whatever it found.
FindingsAreTrue ==
  \A p \in Procs : proc[p].step \in {"names", "read", "strays"} =>
    /\ proc[p].step = "read" =>
         /\ proc[p].todo \in Seq(Unread(p)) /\ IsInjective(proc[p].todo)
    /\ proc[p].step = "strays" => proc[p].todo = <<>>
    /\ ~watch[p].moved /\ Bad(p) => watch[p].standing # {}
    /\ ~watch[p].moved => \A i : Seen(p, i) =>
         \E n \in Place(p).notes : n.file.id = i /\ Validates(n.file) /\ n.name \notin Unread(p)

IInv ==
  /\ PlacesStand /\ NamesStand /\ WrittenNotesReadBack /\ ImportsStand
  /\ CommandsAreOnTheirWay
  /\ HistoryIsTrue /\ ListIsTrue /\ DamageIsMet /\ CopiesAreMet /\ CorruptionIsMet /\ FindingsAreTrue
  /\ InspectTellsTheTruth

-----------------------------------------------------------------------------
(* Commands go their way *)

LEMMA DiscoverFinds ==
  ASSUME NEW p \in Places
  PROVE  Discover(p) \in Places \cup {Nowhere}
<1> DEFINE found == {i \in DOMAIN Ancestors[p] : HasInstance(Ancestors[p][i])}
<1>1. DOMAIN Ancestors[p] \subseteq {1, 2} /\ \A i \in DOMAIN Ancestors[p] : Ancestors[p][i] \in Places
  BY DEF Places, Ancestors
<1>2. found \in SUBSET Nat
  BY <1>1
<1>3. found # {} => Min(found) \in found
  <2> HIDE DEF found
  <2>1. SUFFICES ASSUME found # {} PROVE Min(found) \in found
    OBVIOUS
  <2>2. PICK x \in found : \A y \in found : x <= y
    BY <1>2, <2>1, HasLeast
  <2> QED BY <2>2 DEF Min
<1> QED BY <1>1, <1>3 DEF Discover

LEMMA ResolveFinds ==
  ASSUME NEW e \in Places \cup {Nowhere}, NEW cwd \in Places, NEW seen \in Profiles
  PROVE  ResolveNotebook(e, cwd, seen) \in Places \cup {Nowhere}
BY DiscoverFinds DEF ResolveNotebook, Profiles

LEMMA ExitsAreNamed ==
  \A kind \in {"io", "not_a_notebook", "unexpected_tree", "invalid_record", "invalid_file", "unhealthy",
               "empty_note", "not_audio", "unknown_target", "invalid_profile", "ok"} :
    ExitOf(kind) # "none"
BY DEF ExitOf

LEMMA EndedIsOnItsWay ==
  ASSUME NEW x, OnItsWay(x), x.step # "idle", NEW exit, exit # "none"
  PROVE  OnItsWay([x EXCEPT !.step = "done", !.exit = exit])
<1>1. PICK y : y = [x EXCEPT !.step = "done", !.exit = exit]
  OBVIOUS
<1>2. /\ DOMAIN y = DOMAIN Idle
      /\ y.step = "done" /\ y.exit = exit
      /\ y.place = x.place /\ y.explicit = x.explicit /\ y.cwd = x.cwd /\ y.seen = x.seen
      /\ y.cmd = x.cmd /\ y.in = x.in
  BY <1>1 DEF OnItsWay, Idle
<1> QED BY <1>1, <1>2 DEF OnItsWay, Steps, Scans

\* What Ends does.
LEMMA Ended ==
  ASSUME CommandsAreOnTheirWay, NEW p \in Procs, proc[p].step # "idle",
         NEW kind, ExitOf(kind) # "none", Ends(p, kind)
  PROVE  /\ DOMAIN proc' = Procs /\ OnItsWay(proc'[p])
         /\ \A q \in Procs \ {p} : proc'[q] = proc[q]
<1>1. DOMAIN proc = Procs /\ OnItsWay(proc[p])
  BY DEF CommandsAreOnTheirWay
<1>2. proc' = [proc EXCEPT ![p] = [proc[p] EXCEPT !.step = "done", !.exit = ExitOf(kind)]]
  BY DEF Ends
<1>3. OnItsWay([proc[p] EXCEPT !.step = "done", !.exit = ExitOf(kind)])
  BY <1>1, EndedIsOnItsWay
<1> QED BY <1>1, <1>2, <1>3

\* A command that gives its record a new value, one on its way.
LEMMA Moved ==
  ASSUME CommandsAreOnTheirWay, NEW p \in Procs, NEW y, OnItsWay(y), proc' = [proc EXCEPT ![p] = y]
  PROVE  /\ DOMAIN proc' = Procs /\ OnItsWay(proc'[p])
         /\ \A q \in Procs \ {p} : proc'[q] = proc[q]
BY DEF CommandsAreOnTheirWay

\* What Goes does, where it is used.
LEMMA Went ==
  ASSUME CommandsAreOnTheirWay, NEW p \in Procs, NEW step, Goes(p, step),
         \/ proc[p].step \in {"already", "create"} /\ step = "default"
         \/ proc[p].step = "import" /\ step = "write"
  PROVE  /\ DOMAIN proc' = Procs /\ OnItsWay(proc'[p])
         /\ \A q \in Procs \ {p} : proc'[q] = proc[q]
<1>1. OnItsWay(proc[p])
  BY DEF CommandsAreOnTheirWay
<1>2. PICK y : y = [proc[p] EXCEPT !.step = step] /\ proc' = [proc EXCEPT ![p] = y]
  BY DEF Goes
<1>3. OnItsWay(y)
  BY <1>1, <1>2 DEF OnItsWay, Idle, Steps, Scans
<1> QED BY <1>2, <1>3, Moved

LEMMA StepsGoTheirWay ==
  ASSUME PlacesStand, CommandsAreOnTheirWay, NEW p \in Procs, Step(p) \/ Crash(p)
  PROVE  /\ DOMAIN proc' = Procs /\ OnItsWay(proc'[p])
         /\ \A q \in Procs \ {p} : proc'[q] = proc[q]
<1> DEFINE x == proc[p]
<1>1. OnItsWay(x)
  BY DEF CommandsAreOnTheirWay
<1>2. CASE Starts(p)
  <2> DEFINE Fits(cmd, explicit, cwd, in) ==
               /\ explicit \in Places \cup {Nowhere} /\ cwd \in Places
               /\ cmd = "set notebook" => explicit \in Places
               /\ cmd \in {"note", "collect"} => in \in Inputs
  <2>1. PICK cmd, explicit, cwd, in : Start(p, cmd, explicit, cwd, in) /\ Fits(cmd, explicit, cwd, in)
    <3>1. ASSUME NEW in \in Inputs PROVE Fits(in.cmd, Nowhere, IF in.cmd = "note" THEN "away" ELSE "inner", in)
      BY <3>1, InputsAssumption DEF Places
    <3>2. /\ \A at \in {"outer", "inner"} : Fits("init", at, "away", "none")
          /\ \A cmd \in {"inspect", "status"} : Fits(cmd, "outer", "away", "none")
          /\ Fits("set notebook", "inner", "away", "none")
          /\ Fits("set timezone", Nowhere, "away", "none")
      BY DEF Places
    <3> HIDE DEF Fits
    <3> QED BY <1>2, <3>1, <3>2 DEF Starts
  <2>2. PICK y : /\ y = [Idle EXCEPT
                       !.cmd = cmd, !.explicit = explicit, !.cwd = cwd, !.in = in,
                       !.step = IF ProfileReads(profile) THEN "resolve" ELSE "done",
                       !.exit = IF ProfileReads(profile) THEN "none" ELSE ExitOf("invalid_profile"),
                       !.seen = profile]
                 /\ proc' = [proc EXCEPT ![p] = y]
    BY <2>1 DEF Start
  <2>3. /\ DOMAIN y = DOMAIN Idle /\ y.cmd = cmd /\ y.explicit = explicit /\ y.cwd = cwd /\ y.in = in
        /\ y.step \in {"resolve", "done"} /\ (y.step = "done" <=> y.exit # "none")
        /\ y.seen = profile /\ y.instance = 0 /\ y.problems = {}
    BY <2>2, ExitsAreNamed DEF Idle
  <2>4. OnItsWay(y)
    BY <2>1, <2>3 DEF OnItsWay, PlacesStand, Steps, Scans
  <2> QED BY <2>2, <2>4, Moved
<1>3. CASE OpenNotebook(p)
  <2> DEFINE place == ResolveNotebook(x.explicit, x.cwd, x.seen)
  <2>1. CASE place = Nowhere
    <3>1. Ends(p, "not_a_notebook") /\ x.step # "idle"
      BY <1>3, <2>1 DEF OpenNotebook
    <3> QED BY <3>1, Ended, ExitsAreNamed
  <2>2. CASE place # Nowhere
    <3>1. place \in Places /\ x.step = "resolve" /\ x.cmd \in {"note", "collect", "inspect", "status"}
      BY <1>1, <1>3, <2>2, ResolveFinds DEF OpenNotebook, OnItsWay
    <3> HIDE DEF place
    <3>2. PICK y : y = [x EXCEPT !.step = "open", !.place = place] /\ proc' = [proc EXCEPT ![p] = y]
      BY <1>3, <2>2 DEF OpenNotebook, place
    <3>3. OnItsWay(y)
      BY <1>1, <3>1, <3>2 DEF OnItsWay, Idle, Steps, Scans
    <3> QED BY <3>2, <3>3, Moved
  <2> QED BY <2>1, <2>2
<1>4. CASE ReadInstance(p)
  <2>1. CASE \E kind \in {"io", "invalid_file"} : Ends(p, kind)
    BY <1>4, <2>1, Ended, ExitsAreNamed DEF ReadInstance
  <2>2. CASE proc' = [proc EXCEPT ![p] = [@ EXCEPT
                        !.instance = tree[proc[p].place].instance,
                        !.step = IF proc[p].cmd \in {"note", "collect"} THEN "import" ELSE "list"]]
    <3>1. PICK y : y = [x EXCEPT !.instance = tree[proc[p].place].instance,
                                 !.step = IF proc[p].cmd \in {"note", "collect"} THEN "import" ELSE "list"]
                   /\ proc' = [proc EXCEPT ![p] = y]
      BY <2>2
    <3>2. x.step = "open"
      BY <1>4 DEF ReadInstance
    <3>3. OnItsWay(y)
      BY <1>1, <3>1, <3>2 DEF OnItsWay, Idle, Steps, Scans
    <3> QED BY <3>1, <3>3, Moved
  <2> QED BY <1>4, <2>1, <2>2 DEF ReadInstance
<1>5. CASE CreateLayout(p)
  <2> DEFINE place == IF x.explicit = Nowhere THEN x.cwd ELSE x.explicit
  <2>1. CASE RefusesTree(place)
    <3>1. Ends(p, "unexpected_tree") /\ x.step # "idle"
      BY <1>5, <2>1 DEF CreateLayout
    <3> QED BY <3>1, Ended, ExitsAreNamed
  <2>2. CASE ~RefusesTree(place)
    <3>1. place \in Places /\ x.step = "resolve" /\ x.cmd = "init"
      BY <1>1, <1>5 DEF CreateLayout, OnItsWay
    <3>2. PICK y : y = [x EXCEPT !.place = place, !.step = IF HasInstance(place) THEN "already" ELSE "create"]
                   /\ proc' = [proc EXCEPT ![p] = y]
      BY <1>5, <2>2 DEF CreateLayout
    <3> HIDE DEF place
    <3>3. OnItsWay(y)
      BY <1>1, <3>1, <3>2 DEF OnItsWay, Idle, Steps, Scans
    <3> QED BY <3>2, <3>3, Moved
  <2> QED BY <2>1, <2>2
<1>6. CASE AlreadyInitialized(p)
  <2>1. CASE \E kind \in {"io", "invalid_file"} : Ends(p, kind)
    BY <1>6, <2>1, Ended, ExitsAreNamed DEF AlreadyInitialized
  <2>2. CASE Goes(p, "default")
    <3>1. x.step = "already"
      BY <1>6 DEF AlreadyInitialized
    <3> QED BY <2>2, <3>1, Went
  <2> QED BY <1>6, <2>1, <2>2 DEF AlreadyInitialized
<1>7. CASE WriteInstance(p)
  BY <1>7, Went DEF WriteInstance
<1>8. CASE RecordDefault(p)
  BY <1>8, Ended, ExitsAreNamed DEF RecordDefault
<1>9. CASE SetNotebook(p) \/ SetTimezone(p)
  BY <1>9, Ended, ExitsAreNamed DEF SetNotebook, SetTimezone
<1>10. CASE StoreImport(p)
  <2>1. CASE Ends(p, "not_audio")
    BY <1>10, <2>1, Ended, ExitsAreNamed DEF StoreImport
  <2>2. CASE Goes(p, "write")
    <3>1. x.step = "import"
      BY <1>10 DEF StoreImport
    <3> QED BY <2>2, <3>1, Went
  <2> QED BY <1>10, <2>1, <2>2 DEF StoreImport
<1>11. CASE WriteNote(p)
  BY <1>11, Ended, ExitsAreNamed DEF WriteNote
<1>12. CASE ListArtifacts(p)
  <2>1. PICK y : /\ y = [x EXCEPT !.step = "names", !.stored = tree[x.place].artifacts]
                 /\ proc' = [proc EXCEPT ![p] = y] /\ x.step = "list"
    BY <1>12 DEF ListArtifacts
  <2>2. OnItsWay(y)
    BY <1>1, <2>1 DEF OnItsWay, Idle, Steps, Scans
  <2> QED BY <2>1, <2>2, Moved
<1>13. CASE ListNotes(p)
  <2>1. PICK y, z : /\ y = [x EXCEPT !.step = "read", !.todo = z]
                    /\ proc' = [proc EXCEPT ![p] = y] /\ x.step = "names"
    BY <1>13 DEF ListNotes
  <2>2. OnItsWay(y)
    BY <1>1, <2>1 DEF OnItsWay, Idle, Steps, Scans
  <2> QED BY <2>1, <2>2, Moved
<1>14. CASE ReadNote(p)
  <2>1. CASE Ends(p, "io")
    BY <1>14, <2>1, Ended, ExitsAreNamed DEF ReadNote
  <2>2. CASE ~Ends(p, "io")
    <3>1. PICK z, w : proc' = [proc EXCEPT ![p] = [@ EXCEPT !.todo = w, !.problems = z]]
      BY <1>14, <2>2, Zenon DEF ReadNote
    <3>2. x.step = "read"
      BY <1>14 DEF ReadNote
    <3>3. PICK y : y = [x EXCEPT !.todo = w, !.problems = z] /\ proc' = [proc EXCEPT ![p] = y]
      BY <3>1
    <3>4. OnItsWay(y)
      BY <1>1, <3>2, <3>3 DEF OnItsWay, Idle, Steps, Scans
    <3> QED BY <3>3, <3>4, Moved
  <2> QED BY <2>1, <2>2
<1>15. CASE VerifyArtifacts(p)
  <2>1. CASE Ends(p, "io")
    BY <1>15, <2>1, Ended, ExitsAreNamed DEF VerifyArtifacts
  <2>2. CASE ~Ends(p, "io")
    <3>1. PICK y, z : /\ y = [x EXCEPT !.step = "strays", !.problems = z]
                      /\ proc' = [proc EXCEPT ![p] = y] /\ x.step = "read"
      BY <1>15, <2>2 DEF VerifyArtifacts
    <3>2. OnItsWay(y)
      BY <1>1, <3>1 DEF OnItsWay, Idle, Steps, Scans
    <3> QED BY <3>1, <3>2, Moved
  <2> QED BY <2>1, <2>2
<1>16. CASE Report(p)
  BY <1>16, Ended, ExitsAreNamed DEF Report
<1>17. CASE Crash(p)
  <2>1. OnItsWay(Idle)
    BY DEF OnItsWay, Idle, Steps, Scans, Profiles, NoProfile
  <2> QED BY <1>17, <2>1, Moved DEF Crash
<1> QED BY <1>2, <1>3, <1>4, <1>5, <1>6, <1>7, <1>8, <1>9, <1>10, <1>11, <1>12, <1>13, <1>14,
           <1>15, <1>16, <1>17 DEF Step

-----------------------------------------------------------------------------
(* What is on disk, step by step *)

\* An edited text is still one with an ID.
LEMMA EditsKeepIds ==
  ASSUME NEW g, "id" \in DOMAIN g, NEW f \in Edits(g)
  PROVE  DOMAIN f = DOMAIN g /\ f.id = g.id
<1>1. ASSUME NEW k \in {"fault", "body", "type", "attachments", "source", "props"}, NEW v,
             f = [g EXCEPT ![k] = v]
      PROVE  DOMAIN f = DOMAIN g /\ f.id = g.id
  BY <1>1
<1>2. CASE f \in {[g EXCEPT !.fault = x] : x \in {"duplicate key", "closing"}}
  BY <1>2
<1>3. CASE f \in {[g EXCEPT !.body = @ \o <<"w">>], [g EXCEPT !.type = "unknown"],
                 [g EXCEPT !.attachments = @ \cup {"x"}], [g EXCEPT !.source = @ \ {"scope"}]}
  BY <1>3
<1>4. CASE f \in {[g EXCEPT !.props[k].items[1].plain = TRUE] : k \in DOMAIN g.props}
  BY <1>4
<1> QED BY <1>2, <1>3, <1>4 DEF Edits

\* An edit keeps the ID, and the name its ID.
LEMMA EditIsFile ==
  ASSUME NEW last, NEW n, IsFile(n, last),
         NEW m, \/ \E f \in Edits(n.file) : m = [n EXCEPT !.file = f, !.touched = TRUE]
                \/ m = [n EXCEPT !.name.at = "renamed", !.touched = TRUE]
                \/ m = [n EXCEPT !.name.at = "later", !.file.occurred = "later", !.touched = TRUE]
  PROVE  IsFile(m, last) /\ m.touched
<1>1. CASE \E f \in Edits(n.file) : m = [n EXCEPT !.file = f, !.touched = TRUE]
  <2>1. PICK f \in Edits(n.file) : m = [n EXCEPT !.file = f, !.touched = TRUE]
    BY <1>1
  <2>2. DOMAIN f = DOMAIN n.file /\ f.id = n.file.id
    BY <2>1, EditsKeepIds DEF IsFile
  <2> QED BY <2>1, <2>2 DEF IsFile
<1>2. CASE m = [n EXCEPT !.name.at = "renamed", !.touched = TRUE]
  BY <1>2 DEF IsFile
<1>3. CASE m = [n EXCEPT !.name.at = "later", !.file.occurred = "later", !.touched = TRUE]
  BY <1>3 DEF IsFile
<1> QED BY <1>1, <1>2, <1>3

LEMMA SavedIsNamed ==
  ASSUME NEW notes, NEW last, Named(notes, last), NEW n, NEW m, IsFile(m, last)
  PROVE  Named(notes \ {n}, last) /\ Named(Saved(notes, m), last) /\ Named(Saved(notes \ {n}, m), last)
<1>1. ASSUME NEW S \in SUBSET notes PROVE Named(S, last)
  BY FS_Subset DEF Named
<1>2. ASSUME NEW S, Named(S, last) PROVE Named(Saved(S, m), last)
  <2>1. IsFiniteSet({x \in S : x.name # m.name})
    BY <1>2, FS_Subset DEF Named
  <2>2. IsFiniteSet(Saved(S, m))
    BY <2>1, FS_AddElement DEF Saved
  <2> QED BY <1>2, <2>2 DEF Named, Saved
<1>3. Named(notes \ {n}, last)
  BY <1>1
<1> QED BY <1>2, <1>3

\* What an edit makes of the Notes of a place.
LEMMA EditsStand ==
  ASSUME NEW pl \in Places, NEW last, Named(tree[pl].notes, last), PlacesStand, UserEdits(pl)
  PROVE  \E notes : /\ tree' = [tree EXCEPT ![pl].notes = notes]
                    /\ Named(notes, last)
                    /\ \A n \in notes : n \in tree[pl].notes \/ n.touched
<1> DEFINE old == tree[pl].notes
           Edited(n, m) ==
             \/ \E f \in Edits(n.file) : m = [n EXCEPT !.file = f, !.touched = TRUE]
             \/ m = [n EXCEPT !.name.at = "renamed", !.touched = TRUE]
             \/ m = [n EXCEPT !.name.at = "later", !.file.occurred = "later", !.touched = TRUE]
<1>1. PICK n \in old :
        \/ \E m : /\ Edited(n, m)
                  /\ \/ tree' = [tree EXCEPT ![pl].notes = Saved(@, m)]
                     \/ tree' = [tree EXCEPT ![pl].notes = Saved(@ \ {n}, m)]
        \/ tree' = [tree EXCEPT ![pl].notes = @ \ {n}]
  BY Zenon DEF UserEdits
<1>2. IsFile(n, last)
  BY <1>1 DEF Named
<1>3. CASE tree' = [tree EXCEPT ![pl].notes = @ \ {n}]
  <2>1. Named(old \ {n}, last)
    BY <1>2, SavedIsNamed
  <2> QED BY <1>3, <2>1
<1>4. ASSUME NEW m, Edited(n, m), \/ tree' = [tree EXCEPT ![pl].notes = Saved(@, m)]
                                 \/ tree' = [tree EXCEPT ![pl].notes = Saved(@ \ {n}, m)]
      PROVE  \E notes : /\ tree' = [tree EXCEPT ![pl].notes = notes]
                        /\ Named(notes, last)
                        /\ \A x \in notes : x \in tree[pl].notes \/ x.touched
  <2>1. IsFile(m, last) /\ m.touched
    BY <1>2, <1>4, EditIsFile
  <2>2. Named(Saved(old, m), last) /\ Named(Saved(old \ {n}, m), last)
    BY <2>1, SavedIsNamed
  <2>3. \A x \in Saved(old, m) \cup Saved(old \ {n}, m) : x \in old \/ x.touched
    BY <2>1 DEF Saved
  <2>4. \/ tree' = [tree EXCEPT ![pl].notes = Saved(old, m)]
        \/ tree' = [tree EXCEPT ![pl].notes = Saved(old \ {n}, m)]
    BY <1>4
  <2> HIDE DEF old
  <2> QED BY <2>2, <2>3, <2>4 DEF old
<1> QED BY <1>1, <1>3, <1>4

LEMMA UtcIsOne ==
  ASSUME NEW d, NEW t \in FilenameUtc(d)
  PROVE  t = d
BY Zenon DEF FilenameUtc

\* What WriteNote adds: a file of the next ID, which reads back.
LEMMA WrittenStands ==
  ASSUME PlacesStand, NamesStand, CommandsAreOnTheirWay, ImportsStand, NEW p \in Procs, WriteNote(p),
         NEW pl, pl = proc[p].place
  PROVE  /\ pl \in Places
         /\ drawn' = [drawn EXCEPT !.notes = @ + 1]
         /\ \E notes : /\ tree' = [tree EXCEPT ![pl].notes = notes]
                       /\ Named(notes, drawn.notes + 1)
                       /\ \A n \in notes : \/ n \in tree[pl].notes
                                           \/ /\ ReadsBack(n)
                                              /\ n.file.artifacts \subseteq tree[pl].artifacts \cup tree[pl].broken
<1> DEFINE x == proc[p]
           named == {[name |-> n, file |-> f, touched |-> FALSE] :
                       n \in UNION {NoteFilename(f) : f \in FilesFor(p)}, f \in FilesFor(p)}
           old == tree[pl].notes
<1>1. x.in \in Inputs /\ pl \in Places /\ x.in.body \in Seq(Characters)
  BY InputsAssumption DEF CommandsAreOnTheirWay, OnItsWay, WriteNote
<1>2. tree' = [tree EXCEPT ![pl].notes = @ \cup named] /\ drawn' = [drawn EXCEPT !.notes = @ + 1]
  BY DEF WriteNote
<1>3. x.in.retained \subseteq tree[pl].artifacts \cup tree[pl].broken
  BY DEF WriteNote, ImportsStand
<1>4. ASSUME NEW f \in FilesFor(p), NEW g \in FilesFor(p) PROVE f = g
  <2>1. PICK r : FilesFor(p) \in {{}, Build(r)}
    BY Zenon DEF FilesFor, ComposedNote, ProjectEvent
  <2>2. \A y, z \in Build(r) : y = z
    BY DEF Build
  <2> QED BY <2>1, <2>2
<1>5. ASSUME NEW n \in named
      PROVE  /\ ReadsBack(n) /\ IsFile(n, drawn.notes + 1) /\ n.name.id = drawn.notes + 1
             /\ n.file.artifacts \subseteq tree[pl].artifacts \cup tree[pl].broken
  <2>1. PICK f, name : f \in FilesFor(p) /\ name \in NoteFilename(f)
                       /\ n = [name |-> name, file |-> f, touched |-> FALSE]
    BY <1>4
  <2>2. PICK r : f \in Build(r) /\ Asked(r, x.in) /\ r.id = drawn.notes + 1
    BY <1>1, <2>1, FilesAreBuilt
  <2>3. /\ DOMAIN f = DOMAIN r /\ f.id = r.id /\ f.artifacts = x.in.retained
        /\ ReadsBack(n)
    BY <2>1, <2>2, BuiltReadsBack
  <2>4. DOMAIN name = {"at", "field", "type", "id"} /\ name.id = f.id
    BY <2>1 DEF NoteFilename
  <2>5. {"id", "occurred", "artifacts", "hash"} \subseteq DOMAIN f
    BY <2>2, <2>3 DEF Asked
  <2>6. drawn.notes + 1 \in 1 .. drawn.notes + 1
    BY DEF PlacesStand, Counts
  <2> QED BY <1>3, <2>1, <2>2, <2>3, <2>4, <2>5, <2>6 DEF IsFile
<1>6. ASSUME NEW m \in named, NEW n \in named PROVE m = n
  <2>1. PICK f, name : f \in FilesFor(p) /\ name \in NoteFilename(f)
                       /\ m = [name |-> name, file |-> f, touched |-> FALSE]
    BY <1>4
  <2>2. PICK g, other : g \in FilesFor(p) /\ other \in NoteFilename(g)
                        /\ n = [name |-> other, file |-> g, touched |-> FALSE]
    BY <1>4
  <2>3. f = g
    BY <1>4, <2>1, <2>2
  <2>4. name = other
    BY <2>1, <2>2, <2>3, UtcIsOne DEF NoteFilename
  <2> QED BY <2>1, <2>2, <2>3, <2>4
<1>7. IsFiniteSet(old \cup named)
  <2>1. ASSUME NEW S, \A m, n \in S : m = n, NEW T, IsFiniteSet(T) PROVE IsFiniteSet(T \cup S)
    <3>1. CASE S = {}
      BY <2>1, <3>1
    <3>2. CASE S # {}
      <4>1. PICK n : S = {n}
        BY <2>1, <3>2
      <4> QED BY <2>1, <4>1, FS_AddElement
    <3> QED BY <3>1, <3>2
  <2>2. IsFiniteSet(old) /\ \A m, n \in named : m = n
    BY <1>1, <1>6 DEF NamesStand, Named
  <2> HIDE DEF named, old
  <2> QED BY <2>1, <2>2
<1>8. Named(old \cup named, drawn.notes + 1)
  <2>1. \A n \in old : IsFile(n, drawn.notes) /\ n.name.id # drawn.notes + 1
    BY <1>1 DEF NamesStand, Named, IsFile, PlacesStand, Counts
  <2>2. \A n \in old : IsFile(n, drawn.notes + 1)
    BY <2>1 DEF IsFile, PlacesStand, Counts
  <2>3. \A m, n \in old : m.name = n.name => m = n
    BY <1>1 DEF NamesStand, Named
  <2> HIDE DEF named, old
  <2> QED BY <1>5, <1>6, <1>7, <2>1, <2>2, <2>3 DEF Named
<1>9. tree' = [tree EXCEPT ![pl].notes = old \cup named]
  BY <1>2
<1>10. \A n \in old \cup named :
         \/ n \in tree[pl].notes
         \/ ReadsBack(n) /\ n.file.artifacts \subseteq tree[pl].artifacts \cup tree[pl].broken
  <2> HIDE DEF named
  <2> QED BY <1>5
<1> HIDE DEF named, old
<1> QED BY <1>1, <1>2, <1>8, <1>9, <1>10

\* What a step does to a place: what is stored there stays or is known to be broken, and
\* its Notes stay, but for a Note written and an edit.
LEMMA PlacesChange ==
  ASSUME PlacesStand, NamesStand, CommandsAreOnTheirWay, ImportsStand, Next, NEW pl \in Places
  PROVE  /\ tree[pl].artifacts \cup tree[pl].broken \subseteq tree'[pl].artifacts \cup tree'[pl].broken
         /\ \/ tree'[pl].notes = tree[pl].notes
            \/ \E p \in Procs : WriteNote(p) /\ proc[p].place = pl
            \/ UserEdits(pl)
<1>1. /\ DOMAIN tree = Places
      /\ \A x \in Places : DOMAIN tree[x] = DOMAIN EmptyPlace
  BY DEF PlacesStand
<1>2. CASE tree' = tree
  BY <1>2
<1>3. CASE \E p \in Procs : WriteInstance(p) \/ StoreImport(p)
  <2>1. PICK p \in Procs : WriteInstance(p) \/ StoreImport(p)
    BY <1>3
  <2> QED BY <1>1, <2>1 DEF WriteInstance, StoreImport, EmptyPlace
<1>4. CASE \E p \in Procs : WriteNote(p)
  <2>1. PICK p \in Procs : WriteNote(p)
    BY <1>4
  <2>2. PICK z : tree' = [tree EXCEPT ![proc[p].place].notes = z]
    BY <2>1, WrittenStands
  <2>3. CASE proc[p].place = pl
    BY <1>1, <2>1, <2>2, <2>3 DEF EmptyPlace
  <2>4. CASE proc[p].place # pl
    BY <1>1, <2>2, <2>4
  <2> QED BY <2>3, <2>4
<1>5. CASE \E x \in Places : UserEdits(x)
  <2>1. PICK x \in Places : UserEdits(x)
    BY <1>5
  <2>2. PICK z : tree' = [tree EXCEPT ![x].notes = z]
    BY <2>1, Zenon DEF UserEdits
  <2>3. CASE x = pl
    BY <1>1, <2>1, <2>2, <2>3 DEF EmptyPlace
  <2>4. CASE x # pl
    BY <1>1, <2>2, <2>4
  <2> QED BY <2>3, <2>4
<1>6. CASE \E x \in Places : UserBreaks(x)
  <2>1. PICK x \in Places : UserBreaks(x)
    BY <1>6
  <2>2. CASE \E a \in tree[x].artifacts :
               tree' = [tree EXCEPT ![x].corrupt = @ \cup {a}, ![x].broken = @ \cup {a}]
    BY <1>1, <2>2 DEF EmptyPlace
  <2>3. CASE \E a \in tree[x].artifacts :
               tree' = [tree EXCEPT ![x].artifacts = @ \ {a}, ![x].corrupt = @ \ {a}, ![x].broken = @ \cup {a}]
    BY <1>1, <2>3 DEF EmptyPlace
  <2>4. CASE \E i \in {0, Malformed} :
               tree' = [tree EXCEPT ![x].instance = i, ![x].broken = @ \cup {"instance"}]
    BY <1>1, <2>4 DEF EmptyPlace
  <2>5. CASE tree' = [tree EXCEPT ![x].foreign = TRUE]
    BY <1>1, <2>5 DEF EmptyPlace
  <2> QED BY <2>1, <2>2, <2>3, <2>4, <2>5, Zenon DEF UserBreaks
<1>7. CASE \E p \in Procs : Crash(p)
  BY <1>1, <1>7 DEF Crash, EmptyPlace
<1>8. ASSUME NEW p \in Procs, Step(p), ~WriteInstance(p), ~StoreImport(p), ~WriteNote(p)
      PROVE  tree' = tree
  BY <1>8 DEF Step, Starts, Start, OpenNotebook, ReadInstance, CreateLayout, AlreadyInitialized, RecordDefault,
              SetNotebook, SetTimezone, ListArtifacts, ListNotes, ReadNote, VerifyArtifacts, Report
<1>9. CASE UserWritesProfile
  BY <1>9, <1>2 DEF UserWritesProfile
<1> QED BY <1>2, <1>3, <1>4, <1>5, <1>6, <1>7, <1>8, <1>9 DEF Next

LEMMA NotesDrawn ==
  ASSUME PlacesStand, CommandsAreOnTheirWay, Next
  PROVE  /\ drawn.notes \in Nat
         /\ drawn' \in Counts
         /\ \/ drawn'.notes = drawn.notes
            \/ drawn'.notes = drawn.notes + 1 /\ \E p \in Procs : WriteNote(p)
         /\ drawn'.instances \in {drawn.instances, drawn.instances + 1}
         /\ profile' \in Profiles
<1>1. drawn \in Counts /\ profile \in Profiles
  BY DEF PlacesStand
<1>2. \A p \in Procs : OnItsWay(proc[p])
  BY DEF CommandsAreOnTheirWay
<1>8. drawn.notes \in Nat
  BY <1>1 DEF Counts
<1>3. ASSUME profile' \in Profiles, drawn' = drawn \/ Upset
      PROVE  drawn' \in Counts /\ drawn'.notes = drawn.notes /\ drawn'.instances = drawn.instances
  BY <1>1, <1>3 DEF Counts, Upset
<1>4. CASE \E p \in Procs : Crash(p)
  BY <1>1, <1>3, <1>4, <1>8 DEF Crash
<1>5. CASE \E x \in Places : UserEdits(x) \/ UserBreaks(x)
  <2>1. Upset /\ UNCHANGED profile
    BY <1>5, Zenon DEF UserEdits, UserBreaks
  <2> QED BY <1>1, <1>3, <1>8, <2>1
<1>6. CASE UserWritesProfile
  <2>1. profile' \in Profiles
    BY <1>1, <1>6 DEF UserWritesProfile, Profiles
  <2> QED BY <1>1, <1>3, <1>6, <1>8, <2>1 DEF UserWritesProfile
<1>7. ASSUME NEW p \in Procs, Step(p) PROVE drawn.notes \in Nat /\ drawn' \in Counts /\ profile' \in Profiles
         /\ (drawn'.notes = drawn.notes \/ (drawn'.notes = drawn.notes + 1 /\ WriteNote(p)))
         /\ drawn'.instances \in {drawn.instances, drawn.instances + 1}
  <2>1. OnItsWay(proc[p]) /\ drawn.notes \in Nat
    BY <1>1, <1>2 DEF Counts
  <2>2. CASE Starts(p)
    <3>1. drawn' = [drawn EXCEPT !.commands = @ + 1] /\ UNCHANGED profile
      BY <2>2 DEF Starts, Start
    <3> QED BY <1>1, <3>1 DEF Counts
  <2>3. CASE WriteInstance(p)
    BY <1>1, <2>3 DEF WriteInstance, Counts
  <2>4. CASE WriteNote(p)
    BY <1>1, <2>4 DEF WriteNote, Counts
  <2>5. CASE RecordDefault(p)
    <3>1. proc[p].place \in Places /\ proc[p].seen \in Profiles
      BY <2>1, <2>5 DEF RecordDefault, OnItsWay
    <3>2. [proc[p].seen EXCEPT !.notebook = proc[p].place] \in Profiles
      BY <3>1 DEF Profiles
    <3> QED BY <1>1, <1>8, <2>5, <3>2 DEF RecordDefault
  <2>6. CASE SetNotebook(p)
    <3>1. proc[p].seen \in Profiles /\ Discover(proc[p].explicit) \in Places \cup {Nowhere}
      BY <2>1, <2>6, DiscoverFinds DEF SetNotebook, OnItsWay
    <3> QED BY <1>1, <2>1, <2>6, <3>1 DEF SetNotebook, Profiles
  <2>7. CASE SetTimezone(p)
    <3>1. proc[p].seen \in Profiles
      BY <2>1 DEF OnItsWay
    <3> QED BY <1>1, <2>1, <2>7, <3>1 DEF SetTimezone, Profiles
  <2>8. CASE UNCHANGED <<profile, drawn>>
    BY <1>1, <2>1, <2>8
  <2>9. CASE \/ OpenNotebook(p) \/ ReadInstance(p) \/ CreateLayout(p) \/ AlreadyInitialized(p)
             \/ StoreImport(p) \/ ListArtifacts(p) \/ ListNotes(p) \/ ReadNote(p) \/ VerifyArtifacts(p)
             \/ Report(p)
    BY <2>8, <2>9 DEF OpenNotebook, ReadInstance, CreateLayout, AlreadyInitialized, StoreImport, ListArtifacts,
                      ListNotes, ReadNote, VerifyArtifacts, Report
  <2> QED BY <1>7, <2>2, <2>3, <2>4, <2>5, <2>6, <2>7, <2>9 DEF Step
<1> QED BY <1>1, <1>4, <1>5, <1>6, <1>7, <1>8 DEF Next

LEMMA PlacesStillStand ==
  ASSUME PlacesStand, NamesStand, CommandsAreOnTheirWay, ImportsStand, Next
  PROVE  PlacesStand'
<1> DEFINE Holds(x) == /\ DOMAIN x = DOMAIN EmptyPlace /\ x.instance \in 0 .. Malformed
                       /\ x.corrupt \subseteq x.artifacts
<1>1. DOMAIN tree = Places /\ \A pl \in Places : Holds(tree[pl])
  BY DEF PlacesStand
<1>2. SUFFICES DOMAIN tree' = Places /\ \A pl \in Places : Holds(tree'[pl])
  BY NotesDrawn DEF PlacesStand
<1>3. ASSUME NEW x \in Places, NEW y, Holds(y), tree' = [tree EXCEPT ![x] = y]
      PROVE  DOMAIN tree' = Places /\ \A pl \in Places : Holds(tree'[pl])
  BY <1>1, <1>3
<1>4. ASSUME NEW x \in Places, NEW z PROVE Holds([tree[x] EXCEPT !.notes = z])
  BY <1>1 DEF EmptyPlace
<1>5. CASE tree' = tree
  BY <1>1, <1>5
<1>6. CASE \E p \in Procs : WriteInstance(p)
  <2>1. PICK p \in Procs : WriteInstance(p)
    BY <1>6
  <2>2. proc[p].place \in Places
    BY <2>1 DEF WriteInstance, CommandsAreOnTheirWay, OnItsWay
  <2>3. drawn.instances + 1 \in 0 .. Malformed
    BY <2>1, BoundsAssumption DEF WriteInstance, PlacesStand, Counts, Malformed
  <2>4. Holds([tree[proc[p].place] EXCEPT !.instance = drawn.instances + 1])
    BY <1>1, <2>2, <2>3 DEF EmptyPlace
  <2>5. tree' = [tree EXCEPT ![proc[p].place] = [tree[proc[p].place] EXCEPT !.instance = drawn.instances + 1]]
    BY <2>1 DEF WriteInstance
  <2> HIDE DEF Holds
  <2> QED BY <1>3, <2>2, <2>4, <2>5
<1>7. CASE \E p \in Procs : StoreImport(p) /\ tree' # tree
  <2>1. PICK p \in Procs : StoreImport(p) /\ tree' # tree
    BY <1>7
  <2>2. proc[p].place \in Places
    BY <2>1 DEF StoreImport, CommandsAreOnTheirWay, OnItsWay
  <2>3. PICK y : /\ y = [tree[proc[p].place] EXCEPT !.artifacts = @ \cup proc[p].in.retained]
                 /\ tree' = [tree EXCEPT ![proc[p].place] = y]
    BY <2>1 DEF StoreImport
  <2>4. Holds(y)
    BY <1>1, <2>2, <2>3 DEF EmptyPlace
  <2> HIDE DEF Holds
  <2> QED BY <1>3, <2>2, <2>3, <2>4
<1>8. CASE \E p \in Procs : WriteNote(p)
  <2>1. PICK p \in Procs : WriteNote(p)
    BY <1>8
  <2>2. PICK z : tree' = [tree EXCEPT ![proc[p].place].notes = z] /\ proc[p].place \in Places
    BY <2>1, WrittenStands
  <2> HIDE DEF Holds
  <2> QED BY <1>3, <1>4, <2>2
<1>9. CASE \E x \in Places : UserEdits(x)
  <2>1. PICK x \in Places : UserEdits(x)
    BY <1>9
  <2>2. PICK z : tree' = [tree EXCEPT ![x].notes = z]
    BY <2>1, Zenon DEF UserEdits
  <2> HIDE DEF Holds
  <2> QED BY <1>3, <1>4, <2>2
<1>10. CASE \E x \in Places : UserBreaks(x)
  <2>1. PICK x \in Places : UserBreaks(x)
    BY <1>10
  <2>2. CASE \E a \in tree[x].artifacts :
               tree' = [tree EXCEPT ![x].corrupt = @ \cup {a}, ![x].broken = @ \cup {a}]
    BY <1>1, <2>2 DEF EmptyPlace
  <2>3. CASE \E a \in tree[x].artifacts :
               tree' = [tree EXCEPT ![x].artifacts = @ \ {a}, ![x].corrupt = @ \ {a}, ![x].broken = @ \cup {a}]
    BY <1>1, <2>3 DEF EmptyPlace
  <2>4. CASE \E i \in {0, Malformed} :
               tree' = [tree EXCEPT ![x].instance = i, ![x].broken = @ \cup {"instance"}]
    BY <1>1, <2>4, BoundsAssumption DEF EmptyPlace, Malformed
  <2>5. CASE tree' = [tree EXCEPT ![x].foreign = TRUE]
    BY <1>1, <2>5 DEF EmptyPlace
  <2> QED BY <2>1, <2>2, <2>3, <2>4, <2>5, Zenon DEF UserBreaks
<1>11. CASE \E p \in Procs : Crash(p)
  BY <1>1, <1>11 DEF Crash, EmptyPlace
<1>12. ASSUME NEW p \in Procs, Step(p), ~WriteInstance(p), ~StoreImport(p), ~WriteNote(p)
       PROVE  tree' = tree
  BY <1>12 DEF Step, Starts, Start, OpenNotebook, ReadInstance, CreateLayout, AlreadyInitialized, RecordDefault,
               SetNotebook, SetTimezone, ListArtifacts, ListNotes, ReadNote, VerifyArtifacts, Report
<1>13. CASE UserWritesProfile
  BY <1>13, <1>5 DEF UserWritesProfile
<1> QED BY <1>5, <1>6, <1>7, <1>8, <1>9, <1>10, <1>11, <1>12, <1>13, Zenon DEF Next

LEMMA NotesStillStand ==
  ASSUME PlacesStand, NamesStand, WrittenNotesReadBack, ImportsStand, CommandsAreOnTheirWay, Next
  PROVE  NamesStand' /\ WrittenNotesReadBack'
<1> DEFINE AllThere(n, x) == n.file.artifacts \subseteq x.artifacts \cup x.broken
           Good(n, x) == ~n.touched => ReadsBack(n) /\ AllThere(n, x)
<1>1. /\ DOMAIN tree = Places
      /\ \A pl \in Places : /\ DOMAIN tree[pl] = DOMAIN EmptyPlace
                            /\ Named(tree[pl].notes, drawn.notes)
                            /\ \A n \in tree[pl].notes : Good(n, tree[pl])
  BY DEF PlacesStand, NamesStand, WrittenNotesReadBack
<1>2. SUFFICES ASSUME NEW pl \in Places
               PROVE  Named(tree'[pl].notes, drawn'.notes) /\ \A n \in tree'[pl].notes : Good(n, tree'[pl])
  BY DEF NamesStand, WrittenNotesReadBack
<1>3. \A n : AllThere(n, tree[pl]) => AllThere(n, tree'[pl])
  BY PlacesChange
<1>4. ASSUME NEW S, Named(S, drawn.notes) PROVE Named(S, drawn'.notes)
  BY <1>4, NotesDrawn DEF Named, IsFile
<1>5. CASE tree'[pl].notes = tree[pl].notes
  BY <1>1, <1>3, <1>4, <1>5
<1>6. CASE UserEdits(pl)
  <2>1. PICK notes : /\ tree' = [tree EXCEPT ![pl].notes = notes]
                     /\ Named(notes, drawn.notes)
                     /\ \A n \in notes : n \in tree[pl].notes \/ n.touched
    BY <1>1, <1>6, EditsStand
  <2>2. tree'[pl].notes = notes
    BY <1>1, <2>1 DEF EmptyPlace
  <2> QED BY <1>1, <1>3, <1>4, <2>1, <2>2
<1>7. ASSUME NEW p \in Procs, WriteNote(p), proc[p].place = pl
      PROVE  Named(tree'[pl].notes, drawn'.notes) /\ \A n \in tree'[pl].notes : Good(n, tree'[pl])
  <2>1. PICK notes : /\ tree' = [tree EXCEPT ![pl].notes = notes]
                     /\ Named(notes, drawn.notes + 1)
                     /\ \A n \in notes : n \in tree[pl].notes \/ (ReadsBack(n) /\ AllThere(n, tree[pl]))
    BY <1>7, WrittenStands
  <2>2. tree'[pl].notes = notes
    BY <1>1, <2>1 DEF EmptyPlace
  <2>3. drawn'.notes = drawn.notes + 1
    BY <1>7, WrittenStands DEF PlacesStand, Counts
  <2> QED BY <1>1, <1>3, <2>1, <2>2, <2>3
<1> QED BY <1>5, <1>6, <1>7, PlacesChange

LEMMA CommandsStayOnTheirWay ==
  ASSUME PlacesStand, CommandsAreOnTheirWay, Next
  PROVE  CommandsAreOnTheirWay'
<1>1. CASE proc' = proc
  BY <1>1 DEF CommandsAreOnTheirWay
<1>2. CASE \E p \in Procs : Step(p) \/ Crash(p)
  <2>1. PICK p \in Procs : Step(p) \/ Crash(p)
    BY <1>2
  <2>2. /\ DOMAIN proc' = Procs /\ OnItsWay(proc'[p])
        /\ \A q \in Procs \ {p} : proc'[q] = proc[q]
    BY <2>1, StepsGoTheirWay
  <2> QED BY <2>2 DEF CommandsAreOnTheirWay
<1> QED BY <1>1, <1>2, Zenon DEF Next, UserEdits, UserBreaks, UserWritesProfile

LEMMA ImportsStillStand ==
  ASSUME PlacesStand, NamesStand, ImportsStand, CommandsAreOnTheirWay, Next
  PROVE  ImportsStand'
<1> DEFINE Stored(x, pl) == x.in.retained \subseteq pl.artifacts \cup pl.broken
<1>1. SUFFICES ASSUME NEW p \in Procs, proc'[p].step = "write"
               PROVE  Stored(proc'[p], tree'[proc'[p].place])
  BY DEF ImportsStand
<1>2. CASE proc'[p] = proc[p]
  <2>1. proc[p].place \in Places /\ Stored(proc[p], tree[proc[p].place])
    BY <1>1, <1>2 DEF ImportsStand, CommandsAreOnTheirWay, OnItsWay
  <2> QED BY <1>2, <2>1, PlacesChange
<1>3. CASE StoreImport(p)
  <2>1. DOMAIN proc[p] = DOMAIN Idle /\ DOMAIN proc = Procs /\ proc[p].place \in Places
    BY <1>3 DEF CommandsAreOnTheirWay, OnItsWay, StoreImport
  <2>2. Goes(p, "write") /\ tree' = [tree EXCEPT ![proc[p].place].artifacts = @ \cup proc[p].in.retained]
    <3>1. ~Ends(p, "not_audio")
      BY <1>1, <2>1 DEF Ends, Idle
    <3> QED BY <1>3, <3>1 DEF StoreImport
  <2>3. proc'[p].in = proc[p].in /\ proc'[p].place = proc[p].place
    BY <2>1, <2>2 DEF Goes, Idle
  <2>4. proc[p].in.retained \subseteq tree'[proc[p].place].artifacts
    BY <2>1, <2>2 DEF PlacesStand, EmptyPlace
  <2> QED BY <2>3, <2>4
<1>4. ASSUME NEW q \in Procs, Step(q) \/ Crash(q), ~StoreImport(q) PROVE proc'[q].step # "write"
  <2>1. DOMAIN proc[q] = DOMAIN Idle /\ DOMAIN proc = Procs
    BY DEF CommandsAreOnTheirWay, OnItsWay
  <2>2. ASSUME NEW kind, Ends(q, kind) PROVE proc'[q].step # "write"
    BY <2>1, <2>2 DEF Ends, Idle
  <2>3. ASSUME Goes(q, "default") PROVE proc'[q].step # "write"
    BY <2>1, <2>3 DEF Goes, Idle
  <2>4. CASE Starts(q) \/ Crash(q)
    <3>1. ASSUME NEW cmd, NEW explicit, NEW cwd, NEW in, Start(q, cmd, explicit, cwd, in)
          PROVE  proc'[q].step # "write"
      BY <2>1, <3>1 DEF Start, Idle
    <3>2. Crash(q) => proc'[q].step # "write"
      BY <2>1 DEF Crash, Idle
    <3> QED BY <2>4, <3>1, <3>2 DEF Starts
  <2>5. CASE OpenNotebook(q)
    BY <2>1, <2>2, <2>5 DEF OpenNotebook, Idle
  <2>6. CASE ReadInstance(q)
    BY <2>1, <2>2, <2>6 DEF ReadInstance, Idle
  <2>7. CASE CreateLayout(q)
    BY <2>1, <2>2, <2>7 DEF CreateLayout, Idle
  <2>8. CASE AlreadyInitialized(q) \/ WriteInstance(q)
    BY <2>2, <2>3, <2>8 DEF AlreadyInitialized, WriteInstance
  <2>9. CASE RecordDefault(q) \/ SetNotebook(q) \/ SetTimezone(q)
    BY <2>2, <2>9 DEF RecordDefault, SetNotebook, SetTimezone
  <2>a. CASE Report(q)
    BY <2>2, <2>a DEF Report
  <2>b. CASE WriteNote(q)
    BY <2>2, <2>b DEF WriteNote
  <2>10. CASE ListArtifacts(q)
    BY <2>1, <2>10 DEF ListArtifacts, Idle
  <2>11. CASE ListNotes(q)
    BY <2>1, <2>11 DEF ListNotes, Idle
  <2>12. CASE ReadNote(q)
    <3>1. CASE ~Ends(q, "io")
      <4>1. PICK z, w : proc' = [proc EXCEPT ![q] = [@ EXCEPT !.todo = w, !.problems = z]]
        BY <2>12, <3>1, Zenon DEF ReadNote
      <4>2. proc[q].step = "read"
        BY <2>12 DEF ReadNote
      <4> QED BY <2>1, <4>1, <4>2 DEF Idle
    <3> QED BY <2>2, <3>1
  <2>13. CASE VerifyArtifacts(q)
    BY <2>1, <2>2, <2>13 DEF VerifyArtifacts, Idle
  <2> QED BY <1>4, <2>4, <2>5, <2>6, <2>7, <2>8, <2>9, <2>a, <2>b,
             <2>10, <2>11, <2>12, <2>13 DEF Step
<1>5. CASE proc' = proc
  BY <1>2, <1>5
<1>6. CASE \E q \in Procs : Step(q) \/ Crash(q)
  <2>1. PICK q \in Procs : Step(q) \/ Crash(q)
    BY <1>6
  <2>2. q # p => proc'[p] = proc[p]
    BY <2>1, StepsGoTheirWay
  <2> QED BY <1>1, <1>2, <1>3, <1>4, <2>1, <2>2
<1> QED BY <1>5, <1>6, Zenon DEF Next, UserEdits, UserBreaks, UserWritesProfile

-----------------------------------------------------------------------------
(* A scan *)

Values(s) == {s[i] : i \in DOMAIN s}

LEMMA TailKeeps ==
  ASSUME NEW s, s \in Seq(Values(s)), s # <<>>
  PROVE  /\ Tail(s) \in Seq(Values(Tail(s)))
         /\ Head(s) \in Values(s)
         /\ Values(Tail(s)) \subseteq Values(s) /\ Values(s) \subseteq Values(Tail(s)) \cup {Head(s)}
         /\ IsInjective(s) => IsInjective(Tail(s)) /\ Head(s) \notin Values(Tail(s))
<1>1. PICK n \in Nat : n = Len(s) /\ DOMAIN s = 1 .. n /\ n >= 1
  BY DEF Values
<1>2. /\ Tail(s) \in Seq(Values(s)) /\ DOMAIN Tail(s) = 1 .. (n - 1)
      /\ \A i \in 1 .. (n - 1) : Tail(s)[i] = s[i + 1]
  BY <1>1
<1>3. Head(s) = s[1] /\ 1 \in 1 .. n
  BY <1>1
<1>4. Values(Tail(s)) \subseteq Values(s)
  BY <1>1, <1>2 DEF Values
<1>5. ASSUME NEW x \in Values(s) PROVE x \in Values(Tail(s)) \cup {Head(s)}
  <2>1. PICK i \in 1 .. n : x = s[i]
    BY <1>1 DEF Values
  <2>2. i # 1 => i - 1 \in 1 .. (n - 1) /\ i - 1 + 1 = i
    OBVIOUS
  <2> QED BY <1>2, <1>3, <2>1, <2>2 DEF Values
<1>6. Tail(s) \in Seq(Values(Tail(s)))
  <2>1. PICK t : t = Tail(s)
    OBVIOUS
  <2>2. t \in Seq(Values(s)) /\ \A i \in DOMAIN t : t[i] \in Values(t)
    BY <1>2, <2>1 DEF Values
  <2>3. PICK m \in Nat : t \in [1 .. m -> Values(t)]
    BY <2>2
  <2>4. \A V : t \in [1 .. m -> V] => t \in Seq(V)
    OBVIOUS
  <2> QED BY <2>1, <2>3, <2>4
<1>7. ASSUME IsInjective(s) PROVE IsInjective(Tail(s)) /\ Head(s) \notin Values(Tail(s))
  <2>1. PICK t : t = Tail(s)
    OBVIOUS
  <2>2. /\ DOMAIN t = 1 .. (n - 1) /\ \A i \in 1 .. (n - 1) : i + 1 \in 1 .. n /\ t[i] = s[i + 1]
        /\ \A i, j \in 1 .. (n - 1) : i + 1 = j + 1 => i = j
    BY <1>1, <1>2, <2>1
  <2>3. \A i, j \in 1 .. n : s[i] = s[j] => i = j
    BY <1>1, <1>7 DEF IsInjective
  <2>4. IsInjective(t)
    <3>1. SUFFICES ASSUME NEW i \in DOMAIN t, NEW j \in DOMAIN t, t[i] = t[j] PROVE i = j
      BY DEF IsInjective
    <3>2. i \in 1 .. (n - 1) /\ j \in 1 .. (n - 1) /\ s[i + 1] = s[j + 1]
      BY <2>2, <3>1
    <3>3. i + 1 = j + 1
      BY <2>2, <2>3, <3>2
    <3> QED BY <2>2, <3>2, <3>3
  <2>5. \A i \in 1 .. (n - 1) : i + 1 # 1
    OBVIOUS
  <2>6. s[1] \notin Values(t)
    <3>1. SUFFICES ASSUME NEW j \in 1 .. (n - 1), s[1] = t[j] PROVE FALSE
      BY <2>2 DEF Values
    <3>2. j + 1 \in 1 .. n /\ s[1] = s[j + 1]
      BY <2>2, <3>1
    <3> QED BY <1>3, <2>3, <2>5, <3>2
  <2> QED BY <1>3, <2>1, <2>4, <2>6
<1> QED BY <1>3, <1>1, <1>4, <1>5, <1>6, <1>7 DEF Values

LEMMA SequenceOfSet ==
  ASSUME NEW S, IsFiniteSet(S)
  PROVE  SetToSeq(S) \in Seq(S) /\ Values(SetToSeq(S)) = S /\ IsInjective(SetToSeq(S))
<1>1. PICK n \in Nat : n = Cardinality(S) /\ ExistsBijection(1 .. n, S)
  BY FS_CardinalityType
<1>2. \E f \in [1 .. n -> S] : IsInjective(f)
  BY <1>1 DEF ExistsBijection, Bijection, Injection
<1>3. PICK f : f = SetToSeq(S)
  OBVIOUS
<1>4. f \in [1 .. n -> S] /\ IsInjective(f)
  BY <1>1, <1>2, <1>3 DEF SetToSeq
<1>5. Cardinality(1 .. n) = n
  <2>1. 1 \in Nat /\ 1 <= n + 1 /\ n - 1 + 1 = n
    OBVIOUS
  <2> QED BY <2>1, Counted
<1>6. f \in Injection(1 .. n, S)
  BY <1>4 DEF Injection
<1>7. f \in Surjection(1 .. n, S)
  BY <1>1, <1>5, <1>6, FS_Injection
<1> QED BY <1>3, <1>4, <1>7 DEF Surjection, Values

LEMMA NamesAreFinite ==
  ASSUME NEW notes, NEW last, Named(notes, last)
  PROVE  IsFiniteSet({n.name : n \in notes})
<1> DEFINE names == {n.name : n \in notes}
           f == [n \in notes |-> n.name]
<1>1. f \in Bijection(notes, names)
  BY DEF Named, Bijection, Injection, Surjection, IsInjective
<1> QED BY <1>1, FS_Bijection DEF Named, ExistsBijection

LEMMA KindsOfProblem ==
  ASSUME NEW n, NEW stored
  PROVE  /\ NoteProblems(n, stored) \subseteq
              {"invalid", "filename_mismatch", "content_hash_mismatch", "missing_artifact"}
         /\ NoteProblems(n, stored) = {} => Validates(n.file)
BY DEF NoteProblems

LEMMA WhatDamageIs ==
  ASSUME NEW pl
  PROVE  /\ \A n : <<"note", n>> \in Damage(pl) <=> n \in pl.notes /\ NoteProblems(n, pl.artifacts) # {}
         /\ \A i : <<"copies", i>> \in Damage(pl) <=>
              \E x, y \in Sound(pl) : x # y /\ x.file.id = i /\ y.file.id = i
         /\ \A a : <<"artifact", a>> \in Damage(pl) <=> a \in pl.corrupt
         /\ \A a : <<"stray", a>> \in Damage(pl) <=> a \in pl.strays
         /\ \A z \in Damage(pl) : \/ \E n : z = <<"note", n>>
                                  \/ \E i : z = <<"copies", i>>
                                  \/ \E a : z = <<"artifact", a>>
                                  \/ \E a : z = <<"stray", a>>
<1>1. \A n : n \in pl.notes \ Sound(pl) <=> n \in pl.notes /\ NoteProblems(n, pl.artifacts) # {}
  BY DEF Sound
<1>2. \A n : <<"note", n>> \in Damage(pl) <=> n \in pl.notes \ Sound(pl)
  BY DEF Damage
<1>3. \A i : <<"copies", i>> \in Damage(pl) <=>
              \E x, y \in Sound(pl) : x # y /\ x.file.id = i /\ y.file.id = i
  BY DEF Damage
<1>4. \A a : <<"artifact", a>> \in Damage(pl) <=> a \in pl.corrupt
  BY DEF Damage
<1>5. \A a : <<"stray", a>> \in Damage(pl) <=> a \in pl.strays
  BY DEF Damage
<1>6. \A z \in Damage(pl) : \/ \E n : z = <<"note", n>>
                            \/ \E i : z = <<"copies", i>>
                            \/ \E a : z = <<"artifact", a>>
                            \/ \E a : z = <<"stray", a>>
  BY DEF Damage
<1> QED BY <1>1, <1>2, <1>3, <1>4, <1>5, <1>6

\* The steps a command takes into and through a scan, by what they make of its record.
Stays(p) == proc'[p] = proc[p]
Enters(p) == ~Scanning(p) /\ proc'[p].step = "list"
Lists(p) ==
  /\ proc[p].step = "list" /\ tree' = tree
  /\ proc'[p] = [proc[p] EXCEPT !.step = "names", !.stored = Place(p).artifacts]
Names(p) ==
  /\ proc[p].step = "names" /\ tree' = tree
  /\ proc'[p] = [proc[p] EXCEPT !.step = "read", !.todo = SetToSeq({n.name : n \in Place(p).notes})]
Reads(p) ==
  /\ proc[p].step = "read" /\ proc[p].todo # <<>> /\ tree' = tree
  /\ \E note \in Place(p).notes :
       /\ note.name = Head(proc[p].todo)
       /\ proc'[p] = [proc[p] EXCEPT !.todo = Tail(proc[p].todo),
                        !.problems = proc[p].problems \cup Claims(note) \cup Findings(p, note)]
Verifies(p) ==
  /\ proc[p].step = "read" /\ proc[p].todo = <<>> /\ tree' = tree
  /\ proc'[p] = [proc[p] EXCEPT !.step = "strays", !.problems = proc[p].problems \cup Corrupted(p)]

LEMMA HowAScanGoes ==
  ASSUME PlacesStand, CommandsAreOnTheirWay, Next, NEW p \in Procs, Scanning(p)'
  PROVE  Stays(p) \/ Enters(p) \/ Lists(p) \/ Names(p) \/ Reads(p) \/ Verifies(p)
<1>1. DOMAIN proc = Procs /\ DOMAIN proc[p] = DOMAIN Idle
  BY DEF CommandsAreOnTheirWay, OnItsWay
<1>2. proc'[p].step \in Scans
  BY DEF Scanning, Scans
<1>3. ASSUME NEW kind, Ends(p, kind) PROVE FALSE
  BY <1>1, <1>2, <1>3 DEF Ends, Idle, Scans
<1>4. ASSUME NEW step, Goes(p, step), step \notin Scans PROVE FALSE
  BY <1>1, <1>2, <1>4 DEF Goes, Idle
<1>5. CASE Starts(p) \/ Crash(p)
  <2>1. ASSUME NEW cmd, NEW explicit, NEW cwd, NEW in, Start(p, cmd, explicit, cwd, in) PROVE FALSE
    BY <1>1, <1>2, <2>1 DEF Start, Idle, Scans
  <2>2. ~Crash(p)
    BY <1>1, <1>2 DEF Crash, Idle, Scans
  <2> QED BY <1>5, <2>1, <2>2 DEF Starts
<1>6. CASE OpenNotebook(p)
  BY <1>1, <1>2, <1>3, <1>6 DEF OpenNotebook, Idle, Scans
<1>7. CASE ReadInstance(p)
  BY <1>1, <1>2, <1>3, <1>7 DEF ReadInstance, Idle, Scans, Enters, Scanning
<1>8. CASE CreateLayout(p)
  BY <1>1, <1>2, <1>3, <1>8 DEF CreateLayout, Idle, Scans
<1>9. CASE AlreadyInitialized(p) \/ WriteInstance(p)
  BY <1>3, <1>4, <1>9 DEF AlreadyInitialized, WriteInstance, Scans
<1>10. CASE RecordDefault(p) \/ SetNotebook(p) \/ SetTimezone(p)
  BY <1>3, <1>10 DEF RecordDefault, SetNotebook, SetTimezone
<1>11. CASE StoreImport(p)
  BY <1>3, <1>4, <1>11 DEF StoreImport, Scans
<1>12. CASE WriteNote(p)
  BY <1>3, <1>12 DEF WriteNote
<1>13. CASE Report(p)
  BY <1>3, <1>13 DEF Report
<1>14. CASE ListArtifacts(p)
  BY <1>1, <1>14 DEF ListArtifacts, Lists, Place
<1>15. CASE ListNotes(p)
  BY <1>1, <1>15 DEF ListNotes, Names, Place
<1>16. CASE ReadNote(p)
  <2> DEFINE found == NamedNote(p, Head(proc[p].todo))
             note == CHOOSE n \in found : TRUE
  <2>1. found # {}
    BY <1>3, <1>16 DEF ReadNote
  <2>2. note \in found
    BY <2>1
  <2>3. note \in Place(p).notes /\ note.name = Head(proc[p].todo)
    <3> HIDE DEF note
    <3> QED BY <2>2 DEF NamedNote, Place
  <2>4. proc' = [proc EXCEPT ![p] = [@ EXCEPT !.todo = Tail(proc[p].todo),
                   !.problems = proc[p].problems \cup Claims(note) \cup Findings(p, note)]]
    BY <1>16, <2>1 DEF ReadNote
  <2>5. proc[p].step = "read" /\ proc[p].todo # <<>> /\ tree' = tree
    BY <1>16 DEF ReadNote
  <2> HIDE DEF note, found
  <2>6. proc'[p] = [proc[p] EXCEPT !.todo = Tail(proc[p].todo),
                     !.problems = proc[p].problems \cup Claims(note) \cup Findings(p, note)]
    BY <1>1, <2>4
  <2> QED BY <2>3, <2>5, <2>6 DEF Reads
<1>17. CASE VerifyArtifacts(p)
  BY <1>1, <1>3, <1>17 DEF VerifyArtifacts, Verifies
<1>18. CASE proc' = proc
  BY <1>18 DEF Stays
<1>19. CASE \E q \in Procs : Step(q) \/ Crash(q)
  <2>1. PICK q \in Procs : Step(q) \/ Crash(q)
    BY <1>19
  <2>2. q # p => Stays(p)
    BY <2>1, StepsGoTheirWay DEF Stays
  <2> QED BY <1>5, <1>6, <1>7, <1>8, <1>9, <1>10, <1>11, <1>12, <1>13, <1>14, <1>15, <1>16, <1>17,
             <2>1, <2>2 DEF Step
<1> QED BY <1>18, <1>19, Zenon DEF Next, UserEdits, UserBreaks, UserWritesProfile

\* What the history keeps of a step.
LEMMA WhatIsWatched ==
  ASSUME CommandsAreOnTheirWay, Next, NEW p \in Procs
  PROVE  /\ Scanning(p)' /\ ~Scanning(p) =>
              watch'[p].standing = Damage(tree'[proc'[p].place]) /\ ~watch'[p].moved
         /\ Scanning(p) => /\ watch'[p].standing = watch[p].standing \cap Damage(tree'[proc[p].place])
                           /\ watch'[p].moved <=> watch[p].moved \/ tree'[proc[p].place] # tree[proc[p].place]
         /\ ~Scanning(p)' /\ ~Scanning(p) => watch'[p] = watch[p]
BY DEF Next, Watching

\* A scan keeps its place, its command and, once it has listed them, the artifacts.
LEMMA ScanKeeps ==
  ASSUME PlacesStand, CommandsAreOnTheirWay, Next, NEW p \in Procs, Scanning(p)'
  PROVE  /\ ~Enters(p) => Scanning(p) /\ proc'[p].place = proc[p].place /\ proc'[p].cmd = proc[p].cmd
         /\ Enters(p) => proc'[p].step = "list" /\ proc'[p].problems = {}
         /\ proc'[p].place \in Places
         /\ Stays(p) \/ Enters(p) \/ Lists(p) \/ Names(p) \/ Reads(p) \/ Verifies(p)
<1>1. DOMAIN proc[p] = DOMAIN Idle /\ OnItsWay(proc'[p])
  BY CommandsStayOnTheirWay DEF CommandsAreOnTheirWay, OnItsWay
<1>2. proc'[p].place \in Places
  BY <1>1 DEF OnItsWay, Scanning
<1>3. proc'[p].step = "list" => proc'[p].problems = {}
  BY <1>1 DEF OnItsWay
<1>4. Stays(p) \/ Enters(p) \/ Lists(p) \/ Names(p) \/ Reads(p) \/ Verifies(p)
  BY HowAScanGoes
<1>5. Stays(p) => Scanning(p) /\ proc'[p].place = proc[p].place /\ proc'[p].cmd = proc[p].cmd
  BY DEF Stays, Scanning
<1>6. Lists(p) \/ Names(p) \/ Reads(p) \/ Verifies(p) =>
        Scanning(p) /\ proc'[p].place = proc[p].place /\ proc'[p].cmd = proc[p].cmd
  BY <1>1 DEF Lists, Names, Reads, Verifies, Scanning, Idle
<1> QED BY <1>2, <1>3, <1>4, <1>5, <1>6 DEF Enters

LEMMA HistoryStaysTrue ==
  ASSUME PlacesStand, CommandsAreOnTheirWay, HistoryIsTrue, Next
  PROVE  HistoryIsTrue'
<1>1. SUFFICES ASSUME NEW p \in Procs, Scanning(p)'
               PROVE  /\ watch'[p].standing \subseteq Damage(tree'[proc'[p].place])
                      /\ ~watch'[p].moved => watch'[p].standing = Damage(tree'[proc'[p].place])
  BY DEF HistoryIsTrue, Place
<1>2. CASE Enters(p)
  BY <1>1, <1>2, WhatIsWatched DEF Enters
<1>3. CASE ~Enters(p)
  <2>1. Scanning(p) /\ proc'[p].place = proc[p].place
    BY <1>1, <1>3, ScanKeeps
  <2>2. ~watch[p].moved => watch[p].standing = Damage(tree[proc[p].place])
    BY <2>1 DEF HistoryIsTrue, Place
  <2>3. /\ watch'[p].standing = watch[p].standing \cap Damage(tree'[proc[p].place])
        /\ watch'[p].moved <=> watch[p].moved \/ tree'[proc[p].place] # tree[proc[p].place]
    BY <2>1, WhatIsWatched
  <2> QED BY <2>1, <2>2, <2>3
<1> QED BY <1>2, <1>3

\* What a scan has seen stand was standing before, and stands now; what never moved did not.
LEMMA StandingShrinks ==
  ASSUME PlacesStand, CommandsAreOnTheirWay, HistoryIsTrue, Next, NEW p \in Procs, Scanning(p)', ~Enters(p)
  PROVE  /\ watch'[p].standing \subseteq watch[p].standing
         /\ watch'[p].standing \subseteq Damage(tree'[proc[p].place])
         /\ watch'[p].standing \subseteq Damage(Place(p))
         /\ ~watch'[p].moved => /\ ~watch[p].moved
                                /\ tree'[proc[p].place] = Place(p)
                                /\ watch'[p].standing = Damage(Place(p))
<1>1. Scanning(p) /\ proc'[p].place = proc[p].place
  BY ScanKeeps
<1>2. /\ watch'[p].standing = watch[p].standing \cap Damage(tree'[proc[p].place])
      /\ watch'[p].moved <=> watch[p].moved \/ tree'[proc[p].place] # tree[proc[p].place]
  BY <1>1, WhatIsWatched
<1>3. /\ watch[p].standing \subseteq Damage(Place(p))
      /\ ~watch[p].moved => watch[p].standing = Damage(Place(p))
  BY <1>1 DEF HistoryIsTrue
<1> QED BY <1>2, <1>3 DEF Place

LEMMA ListStaysTrue ==
  ASSUME PlacesStand, CommandsAreOnTheirWay, HistoryIsTrue, ListIsTrue, Next
  PROVE  ListIsTrue'
<1> DEFINE True(p, w, stored, place) ==
             /\ \A n : <<"note", n>> \in w.standing => NoteProblems(n, stored) # {}
             /\ \A a : <<"artifact", a>> \in w.standing => a \in stored
             /\ ~w.moved => stored = place.artifacts
<1>1. SUFFICES ASSUME NEW p \in Procs, proc'[p].step \in {"names", "read", "strays"}
               PROVE  True(p, watch'[p], proc'[p].stored, tree'[proc'[p].place])
  BY DEF ListIsTrue, Place
<1>2. Scanning(p)' /\ ~Enters(p) /\ DOMAIN proc[p] = DOMAIN Idle
  BY <1>1 DEF Scanning, Enters, CommandsAreOnTheirWay, OnItsWay
<1>3. Scanning(p) /\ proc'[p].place = proc[p].place /\ proc[p].place \in Places
  BY <1>2, ScanKeeps
<1>4. CASE Lists(p)
  <2>1. proc'[p].stored = Place(p).artifacts /\ tree' = tree
    BY <1>2, <1>4 DEF Lists, Idle
  <2>2. Place(p).corrupt \subseteq Place(p).artifacts
    BY <1>3 DEF Place, PlacesStand
  <2>3. watch'[p].standing \subseteq Damage(Place(p))
    BY <1>2, StandingShrinks
  <2>4. \A n : <<"note", n>> \in watch'[p].standing => NoteProblems(n, Place(p).artifacts) # {}
    BY <2>3, WhatDamageIs
  <2>5. \A a : <<"artifact", a>> \in watch'[p].standing => a \in Place(p).artifacts
    BY <2>2, <2>3, WhatDamageIs
  <2> QED BY <1>3, <2>1, <2>4, <2>5 DEF Place
<1>5. CASE ~Lists(p)
  <2>1. Stays(p) \/ Names(p) \/ Reads(p) \/ Verifies(p)
    BY <1>2, <1>5, ScanKeeps
  <2>2. proc'[p].stored = proc[p].stored /\ proc[p].step \in {"names", "read", "strays"}
    BY <1>1, <1>2, <2>1 DEF Stays, Names, Reads, Verifies, Idle
  <2>3. True(p, watch[p], proc[p].stored, Place(p))
    BY <2>2 DEF ListIsTrue
  <2>4. /\ watch'[p].standing \subseteq watch[p].standing
        /\ ~watch'[p].moved => ~watch[p].moved /\ tree'[proc[p].place] = Place(p)
    BY <1>2, StandingShrinks
  <2> QED BY <1>3, <2>2, <2>3, <2>4
<1> QED BY <1>4, <1>5

\* A command that has listed the Notes: it stays, names them, reads one or verifies.
LEMMA HowReadingGoes ==
  ASSUME PlacesStand, CommandsAreOnTheirWay, HistoryIsTrue, Next,
         NEW p \in Procs, proc'[p].step \in {"read", "strays"}
  PROVE  /\ Scanning(p)' /\ ~Enters(p) /\ proc'[p].place = proc[p].place /\ proc[p].place \in Places
         /\ proc'[p].cmd = proc[p].cmd
         /\ Stays(p) \/ Names(p) \/ Reads(p) \/ Verifies(p)
         /\ Stays(p) => proc[p].step \in {"read", "strays"}
         /\ watch'[p].standing \subseteq watch[p].standing
         /\ watch'[p].standing \subseteq Damage(Place(p))
<1>1. Scanning(p)' /\ ~Enters(p) /\ DOMAIN proc[p] = DOMAIN Idle
  BY DEF Scanning, Enters, CommandsAreOnTheirWay, OnItsWay
<1>2. ~Lists(p)
  BY <1>1 DEF Lists, Idle
<1>3. Stays(p) => proc[p].step \in {"read", "strays"}
  BY DEF Stays
<1> QED BY <1>1, <1>2, <1>3, ScanKeeps, StandingShrinks

\* Naming lists every file of the place, once.
LEMMA NamesAll ==
  ASSUME PlacesStand, NamesStand, CommandsAreOnTheirWay, NEW p \in Procs, Names(p), proc[p].place \in Places
  PROVE  /\ Unread(p)' = {n.name : n \in Place(p).notes}
         /\ proc'[p].todo \in Seq(Unread(p)') /\ IsInjective(proc'[p].todo)
         /\ proc'[p].problems = {} /\ proc'[p].step = "read" /\ proc'[p].stored = proc[p].stored
<1> DEFINE names == {n.name : n \in Place(p).notes}
<1>1. /\ DOMAIN proc[p] = DOMAIN Idle /\ (proc[p].step = "names" => proc[p].problems = {})
  BY DEF CommandsAreOnTheirWay, OnItsWay
<1>2. IsFiniteSet(names)
  BY NamesAreFinite DEF NamesStand, Place
<1> HIDE DEF names
<1>3. /\ proc'[p].todo = SetToSeq(names) /\ proc'[p].problems = {} /\ proc'[p].step = "read"
      /\ proc'[p].stored = proc[p].stored
  BY <1>1 DEF Names, Idle, names
<1>4. Unread(p)' = Values(proc'[p].todo)
  BY DEF Unread, Values
<1>5. Unread(p)' = names /\ proc'[p].todo \in Seq(names) /\ IsInjective(proc'[p].todo)
  BY <1>2, <1>3, <1>4, SequenceOfSet
<1> QED BY <1>3, <1>5 DEF names

\* What a read leaves to read, and the file it read.
LEMMA ReadsOne ==
  ASSUME PlacesStand, NamesStand, CommandsAreOnTheirWay, FindingsAreTrue, NEW p \in Procs, Reads(p),
         proc[p].place \in Places
  PROVE  \E note \in Place(p).notes :
           /\ note.name \in Unread(p) /\ note.name \notin Unread(p)'
           /\ \A n \in Place(p).notes : n.name = note.name => n = note
           /\ note.name.id = note.file.id
           /\ Unread(p)' \subseteq Unread(p) /\ Unread(p) \subseteq Unread(p)' \cup {note.name}
           /\ proc'[p].todo \in Seq(Unread(p)') /\ IsInjective(proc'[p].todo)
           /\ proc'[p].problems = proc[p].problems \cup Claims(note) \cup Findings(p, note)
           /\ proc'[p].step = "read" /\ proc'[p].stored = proc[p].stored
<1>1. DOMAIN proc[p] = DOMAIN Idle /\ proc[p].step = "read" /\ proc[p].todo # <<>>
  BY DEF CommandsAreOnTheirWay, OnItsWay, Reads
<1>2. PICK note \in Place(p).notes :
       /\ note.name = Head(proc[p].todo)
       /\ proc'[p] = [proc[p] EXCEPT !.todo = Tail(proc[p].todo),
                        !.problems = proc[p].problems \cup Claims(note) \cup Findings(p, note)]
  BY DEF Reads
<1>3. /\ proc'[p].todo = Tail(proc[p].todo)
      /\ proc'[p].problems = proc[p].problems \cup Claims(note) \cup Findings(p, note)
      /\ proc'[p].step = "read" /\ proc'[p].stored = proc[p].stored
  BY <1>1, <1>2 DEF Idle
<1>4. /\ Unread(p) = Values(proc[p].todo) /\ Unread(p)' = Values(proc'[p].todo)
      /\ proc[p].todo \in Seq(Unread(p)) /\ IsInjective(proc[p].todo)
  BY <1>1 DEF Unread, Values, FindingsAreTrue
<1>5. /\ \A n \in Place(p).notes : n.name = note.name => n = note
      /\ note.name.id = note.file.id
  BY <1>2 DEF NamesStand, Named, IsFile, Place
<1> QED BY <1>1, <1>2, <1>3, <1>4, <1>5, TailKeeps

\* What a read finds.
LEMMA WhatAReadFinds ==
  ASSUME NEW p, NEW note
  PROVE  /\ \A x \in Claims(note) : x = <<"id", note.file.id>> /\ Validates(note.file)
         /\ Validates(note.file) => <<"id", note.file.id>> \in Claims(note)
         /\ \A x \in Findings(p, note) : x[1] # "id"
         /\ Findings(p, note) # {} <=>
              NoteProblems(note, proc[p].stored) # {} \/ Claims(note) \cap proc[p].problems # {}
<1>1. \A k \in NoteProblems(note, proc[p].stored) \cup {"duplicate_note_id"} : k # "id"
  BY KindsOfProblem
<1>2. \A x \in Findings(p, note) : \E k \in NoteProblems(note, proc[p].stored) \cup {"duplicate_note_id"} :
        x = <<k, note.name>>
  BY DEF Findings
<1>3. \A k, n : <<k, n>>[1] = k
  OBVIOUS
<1>4. \A x \in Findings(p, note) : x[1] # "id"
  BY <1>1, <1>2, <1>3
<1>5. Findings(p, note) # {} <=>
        NoteProblems(note, proc[p].stored) # {} \/ Claims(note) \cap proc[p].problems # {}
  BY DEF Findings
<1>6. /\ \A x \in Claims(note) : x = <<"id", note.file.id>> /\ Validates(note.file)
      /\ Validates(note.file) => <<"id", note.file.id>> \in Claims(note)
  BY DEF Claims
<1> QED BY <1>4, <1>5, <1>6

LEMMA DamageStaysMet ==
  ASSUME PlacesStand, NamesStand, CommandsAreOnTheirWay, HistoryIsTrue, ListIsTrue, DamageIsMet, FindingsAreTrue,
         Next
  PROVE  DamageIsMet'
<1>1. SUFFICES ASSUME NEW p \in Procs, proc'[p].step \in {"read", "strays"},
                      NEW n, <<"note", n>> \in watch'[p].standing
               PROVE  n.name \in Unread(p)' \/ Bad(p)'
  BY DEF DamageIsMet
<1>2. /\ Stays(p) \/ Names(p) \/ Reads(p) \/ Verifies(p)
      /\ proc[p].place \in Places
      /\ <<"note", n>> \in watch[p].standing /\ n \in Place(p).notes
  BY <1>1, HowReadingGoes, WhatDamageIs
<1>3. proc[p].step \in {"read", "strays"} => n.name \in Unread(p) \/ Bad(p)
  BY <1>2 DEF DamageIsMet
<1>4. CASE Stays(p)
  BY <1>1, <1>3, <1>4, HowReadingGoes DEF Stays, Unread, Bad
<1>5. CASE Names(p)
  BY <1>2, <1>5, NamesAll
<1>6. CASE Reads(p)
  <2>1. PICK note \in Place(p).notes :
           /\ note.name \in Unread(p) /\ note.name \notin Unread(p)'
           /\ \A x \in Place(p).notes : x.name = note.name => x = note
           /\ Unread(p) \subseteq Unread(p)' \cup {note.name}
           /\ proc'[p].problems = proc[p].problems \cup Claims(note) \cup Findings(p, note)
    BY <1>2, <1>6, ReadsOne
  <2>2. proc[p].step = "read"
    BY <1>6 DEF Reads
  <2>3. Bad(p) => Bad(p)'
    BY <2>1 DEF Bad
  <2>4. ASSUME n.name = note.name PROVE Bad(p)'
    <3>1. NoteProblems(note, proc[p].stored) # {}
      BY <1>2, <2>1, <2>2, <2>4 DEF ListIsTrue
    <3>2. PICK x \in Findings(p, note) : x[1] # "id"
      BY <3>1, WhatAReadFinds
    <3> QED BY <2>1, <3>2 DEF Bad
  <2> QED BY <1>3, <2>1, <2>2, <2>3, <2>4
<1>7. CASE Verifies(p)
  <2>1. DOMAIN proc[p] = DOMAIN Idle
    BY DEF CommandsAreOnTheirWay, OnItsWay
  <2>2. Unread(p)' = Unread(p) /\ proc[p].step = "read" /\ proc[p].problems \subseteq proc'[p].problems
    BY <1>7, <2>1 DEF Verifies, Unread, Idle
  <2> QED BY <1>3, <2>2 DEF Bad
<1> QED BY <1>2, <1>4, <1>5, <1>6, <1>7

LEMMA CopiesStayMet ==
  ASSUME PlacesStand, NamesStand, CommandsAreOnTheirWay, HistoryIsTrue, CopiesAreMet, FindingsAreTrue, Next
  PROVE  CopiesAreMet'
<1> DEFINE Two(i, unread) == \E x, y \in unread : x # y /\ x.id = i /\ y.id = i
           One(i, unread) == \E x \in unread : x.id = i
<1>1. SUFFICES ASSUME NEW p \in Procs, proc'[p].step \in {"read", "strays"},
                      NEW i, <<"copies", i>> \in watch'[p].standing
               PROVE  Bad(p)' \/ Two(i, Unread(p)') \/ (Seen(p, i)' /\ One(i, Unread(p)'))
  BY DEF CopiesAreMet
<1>2. /\ Stays(p) \/ Names(p) \/ Reads(p) \/ Verifies(p)
      /\ proc[p].place \in Places
      /\ <<"copies", i>> \in watch[p].standing
      /\ \E x, y \in Sound(Place(p)) : x # y /\ x.file.id = i /\ y.file.id = i
  BY <1>1, HowReadingGoes, WhatDamageIs
<1>3. proc[p].step \in {"read", "strays"} => Bad(p) \/ Two(i, Unread(p)) \/ (Seen(p, i) /\ One(i, Unread(p)))
  BY <1>2 DEF CopiesAreMet
<1>4. CASE Stays(p)
  BY <1>1, <1>3, <1>4, HowReadingGoes DEF Stays, Unread, Bad, Seen
<1>5. CASE Names(p)
  <2>1. PICK x, y : /\ x \in Sound(Place(p)) /\ y \in Sound(Place(p))
                    /\ x # y /\ x.file.id = i /\ y.file.id = i
    BY <1>2
  <2>2. x \in Place(p).notes /\ y \in Place(p).notes
    BY <2>1 DEF Sound
  <2>3. x.name # y.name /\ x.name.id = i /\ y.name.id = i
    BY <1>2, <2>1, <2>2 DEF NamesStand, Named, IsFile, Place
  <2>4. x.name \in Unread(p)' /\ y.name \in Unread(p)'
    BY <1>2, <1>5, <2>2, NamesAll
  <2> QED BY <2>3, <2>4
<1>6. CASE Reads(p)
  <2>1. PICK note \in Place(p).notes :
           /\ note.name.id = note.file.id
           /\ Unread(p) \subseteq Unread(p)' \cup {note.name}
           /\ proc'[p].problems = proc[p].problems \cup Claims(note) \cup Findings(p, note)
    BY <1>2, <1>6, ReadsOne
  <2>2. proc[p].step = "read"
    BY <1>6 DEF Reads
  <2>3. Bad(p) => Bad(p)'
    BY <2>1 DEF Bad
  <2>4. SUFFICES ASSUME ~Bad(p)' PROVE Two(i, Unread(p)') \/ (Seen(p, i)' /\ One(i, Unread(p)'))
    OBVIOUS
  <2>5. Findings(p, note) = {}
    <3>1. ASSUME NEW x \in Findings(p, note) PROVE FALSE
      BY <2>1, <2>4, WhatAReadFinds DEF Bad
    <3> QED BY <3>1
  <2>6. Validates(note.file) /\ Claims(note) \cap proc[p].problems = {}
    BY <2>5, WhatAReadFinds, KindsOfProblem
  <2>7. Seen(p, i) => Seen(p, i)'
    BY <2>1 DEF Seen
  <2>8. CASE note.name.id = i
    <3>1. <<"id", i>> \in Claims(note)
      BY <2>1, <2>6, <2>8, WhatAReadFinds
    <3>2. ~Seen(p, i) /\ Seen(p, i)'
      BY <2>1, <2>6, <3>1 DEF Seen
    <3>3. Two(i, Unread(p))
      BY <1>3, <2>2, <2>3, <2>4, <3>2
    <3>4. One(i, Unread(p)')
      BY <2>1, <3>3
    <3> QED BY <3>2, <3>4
  <2>9. CASE note.name.id # i
    <3>1. \A x \in Unread(p) : x.id = i => x \in Unread(p)'
      BY <2>1, <2>9
    <3> QED BY <1>3, <2>2, <2>3, <2>4, <2>7, <3>1
  <2> QED BY <2>8, <2>9
<1>7. CASE Verifies(p)
  <2>1. DOMAIN proc[p] = DOMAIN Idle
    BY DEF CommandsAreOnTheirWay, OnItsWay
  <2>2. Unread(p)' = Unread(p) /\ proc[p].step = "read" /\ proc[p].problems \subseteq proc'[p].problems
    BY <1>7, <2>1 DEF Verifies, Unread, Idle
  <2> QED BY <1>3, <2>2 DEF Bad, Seen
<1> QED BY <1>2, <1>4, <1>5, <1>6, <1>7

LEMMA CorruptionStaysMet ==
  ASSUME PlacesStand, CommandsAreOnTheirWay, HistoryIsTrue, ListIsTrue, CorruptionIsMet, Next
  PROVE  CorruptionIsMet'
<1>1. SUFFICES ASSUME NEW p \in Procs, proc'[p].step = "strays", proc'[p].cmd = "inspect",
                      NEW a, <<"artifact", a>> \in watch'[p].standing
               PROVE  Bad(p)'
  BY DEF CorruptionIsMet
<1>2. /\ Stays(p) \/ Names(p) \/ Reads(p) \/ Verifies(p)
      /\ <<"artifact", a>> \in watch[p].standing /\ a \in Place(p).corrupt
      /\ proc[p].cmd = "inspect" /\ DOMAIN proc[p] = DOMAIN Idle
  BY <1>1, HowReadingGoes, WhatDamageIs DEF CommandsAreOnTheirWay, OnItsWay
<1>3. CASE Stays(p)
  BY <1>1, <1>2, <1>3 DEF Stays, Bad, CorruptionIsMet
<1>4. CASE Verifies(p)
  <2>1. proc[p].step = "read" /\ proc'[p].problems = proc[p].problems \cup Corrupted(p)
    BY <1>2, <1>4 DEF Verifies, Idle
  <2>2. a \in proc[p].stored
    BY <1>2, <2>1 DEF ListIsTrue
  <2>3. <<"artifact_corrupt", a>> \in Corrupted(p)
    BY <1>2, <2>2 DEF Corrupted, Place
  <2>4. <<"artifact_corrupt", a>>[1] # "id"
    OBVIOUS
  <2> QED BY <2>1, <2>3, <2>4 DEF Bad
<1>5. ~Names(p) /\ ~Reads(p)
  BY <1>1, <1>2 DEF Names, Reads, Idle
<1> QED BY <1>2, <1>3, <1>4, <1>5

\* What a read finds wrong in a notebook that did not move is damage of that notebook.
LEMMA AReadHasCause ==
  ASSUME PlacesStand, NamesStand, CommandsAreOnTheirWay, ListIsTrue, FindingsAreTrue, NEW p \in Procs,
         proc[p].step = "read", proc[p].place \in Places, ~watch[p].moved,
         NEW note \in Place(p).notes, note.name \in Unread(p), Findings(p, note) # {}
  PROVE  Damage(Place(p)) # {}
<1>1. proc[p].stored = Place(p).artifacts
  BY DEF ListIsTrue
<1>2. NoteProblems(note, Place(p).artifacts) # {} => <<"note", note>> \in Damage(Place(p))
  BY WhatDamageIs
<1>3. SUFFICES ASSUME NoteProblems(note, Place(p).artifacts) = {} PROVE Damage(Place(p)) # {}
  BY <1>2
<1>4. PICK x \in Claims(note) : x \in proc[p].problems
  BY <1>1, <1>3, WhatAReadFinds
<1>5. Seen(p, note.file.id)
  BY <1>4, WhatAReadFinds DEF Seen
<1>6. PICK n \in Place(p).notes : n.file.id = note.file.id /\ n.name \notin Unread(p)
  BY <1>5 DEF FindingsAreTrue
<1>7. n # note
  BY <1>6
<1>8. CASE NoteProblems(n, Place(p).artifacts) # {}
  BY <1>8, WhatDamageIs
<1>9. CASE NoteProblems(n, Place(p).artifacts) = {}
  <2>1. n \in Sound(Place(p)) /\ note \in Sound(Place(p))
    BY <1>3, <1>9 DEF Sound
  <2>2. <<"copies", note.file.id>> \in Damage(Place(p))
    BY <1>6, <1>7, <2>1, WhatDamageIs
  <2> QED BY <2>2
<1> QED BY <1>8, <1>9

LEMMA FindingsStayTrue ==
  ASSUME PlacesStand, NamesStand, CommandsAreOnTheirWay, HistoryIsTrue, ListIsTrue, FindingsAreTrue, Next
  PROVE  FindingsAreTrue'
<1> DEFINE Claimed(i, notes, unread) ==
             \E n \in notes : n.file.id = i /\ Validates(n.file) /\ n.name \notin unread
<1>1. SUFFICES ASSUME NEW p \in Procs, proc'[p].step \in {"names", "read", "strays"}
               PROVE  /\ proc'[p].step = "read" =>
                           /\ proc'[p].todo \in Seq(Unread(p)') /\ IsInjective(proc'[p].todo)
                      /\ proc'[p].step = "strays" => proc'[p].todo = <<>>
                      /\ ~watch'[p].moved /\ Bad(p)' => watch'[p].standing # {}
                      /\ ~watch'[p].moved => \A i : Seen(p, i)' => Claimed(i, Place(p)'.notes, Unread(p)')
  BY DEF FindingsAreTrue
<1>2. /\ Scanning(p)' /\ ~Enters(p) /\ DOMAIN proc[p] = DOMAIN Idle
      /\ (proc[p].step \in {"list", "names"} => proc[p].problems = {})
  BY <1>1 DEF Scanning, Enters, CommandsAreOnTheirWay, OnItsWay
<1>3. /\ Scanning(p) /\ proc'[p].place = proc[p].place /\ proc[p].place \in Places
      /\ Stays(p) \/ Lists(p) \/ Names(p) \/ Reads(p) \/ Verifies(p)
  BY <1>2, ScanKeeps
<1>4. ~watch'[p].moved => /\ ~watch[p].moved /\ Place(p)' = Place(p)
                          /\ watch'[p].standing = Damage(Place(p))
                          /\ watch[p].standing = Damage(Place(p))
  BY <1>2, <1>3, StandingShrinks DEF Place, HistoryIsTrue
<1>5. CASE Stays(p)
  <2>1. /\ Unread(p)' = Unread(p) /\ proc'[p].step = proc[p].step /\ proc'[p].todo = proc[p].todo
        /\ (Bad(p)' <=> Bad(p)) /\ \A i : Seen(p, i)' <=> Seen(p, i)
    BY <1>5 DEF Stays, Unread, Bad, Seen
  <2>2. /\ proc[p].step = "read" => proc[p].todo \in Seq(Unread(p)) /\ IsInjective(proc[p].todo)
        /\ proc[p].step = "strays" => proc[p].todo = <<>>
        /\ ~watch[p].moved /\ Bad(p) => watch[p].standing # {}
        /\ ~watch[p].moved => \A i : Seen(p, i) => Claimed(i, Place(p).notes, Unread(p))
    BY <1>1, <2>1 DEF FindingsAreTrue
  <2> QED BY <1>4, <2>1, <2>2
<1>6. CASE Lists(p)
  <2>1. proc'[p].step = "names" /\ proc'[p].problems = {}
    BY <1>2, <1>6 DEF Lists, Idle
  <2> QED BY <2>1 DEF Bad, Seen
<1>7. CASE Names(p)
  <2>1. /\ proc'[p].todo \in Seq(Unread(p)') /\ IsInjective(proc'[p].todo)
        /\ proc'[p].problems = {} /\ proc'[p].step = "read"
    BY <1>3, <1>7, NamesAll
  <2> QED BY <2>1 DEF Bad, Seen
<1>8. CASE Reads(p)
  <2>1. PICK note \in Place(p).notes :
           /\ note.name \in Unread(p) /\ note.name \notin Unread(p)'
           /\ Unread(p)' \subseteq Unread(p)
           /\ proc'[p].todo \in Seq(Unread(p)') /\ IsInjective(proc'[p].todo)
           /\ proc'[p].problems = proc[p].problems \cup Claims(note) \cup Findings(p, note)
           /\ proc'[p].step = "read"
    BY <1>3, <1>8, ReadsOne
  <2>2. proc[p].step = "read"
    BY <1>8 DEF Reads
  <2>3. /\ ~watch[p].moved /\ Bad(p) => watch[p].standing # {}
        /\ ~watch[p].moved => \A i : Seen(p, i) => Claimed(i, Place(p).notes, Unread(p))
    BY <2>2 DEF FindingsAreTrue
  <2>4. ASSUME ~watch'[p].moved, Bad(p)' PROVE watch'[p].standing # {}
    <3>1. PICK x \in proc[p].problems \cup Claims(note) \cup Findings(p, note) : x[1] # "id"
      BY <2>1, <2>4 DEF Bad
    <3>2. x \notin Claims(note)
      <4>1. \A j : <<"id", j>>[1] = "id"
        OBVIOUS
      <4> QED BY <3>1, <4>1, WhatAReadFinds
    <3>3. x \in proc[p].problems => Bad(p)
      BY <3>1 DEF Bad
    <3>4. Findings(p, note) # {} => Damage(Place(p)) # {}
      BY <1>3, <1>4, <2>1, <2>2, <2>4, AReadHasCause
    <3> QED BY <1>4, <2>3, <2>4, <3>1, <3>2, <3>3, <3>4
  <2>5. ASSUME ~watch'[p].moved, NEW i, Seen(p, i)' PROVE Claimed(i, Place(p)'.notes, Unread(p)')
    <3>1. <<"id", i>> \notin Findings(p, note)
      <4>1. <<"id", i>>[1] = "id"
        OBVIOUS
      <4> QED BY <4>1, WhatAReadFinds
    <3>2. CASE Seen(p, i)
      BY <1>4, <2>1, <2>3, <2>5, <3>2
    <3>3. CASE <<"id", i>> \in Claims(note)
      <4>1. <<"id", i>> = <<"id", note.file.id>> /\ Validates(note.file)
        BY <3>3, WhatAReadFinds
      <4> QED BY <1>4, <2>1, <2>5, <4>1
    <3> QED BY <2>1, <2>5, <3>1, <3>2, <3>3 DEF Seen
  <2> QED BY <2>1, <2>4, <2>5
<1>9. CASE Verifies(p)
  <2>1. /\ proc[p].step = "read" /\ proc[p].todo = <<>> /\ proc'[p].step = "strays"
        /\ proc'[p].todo = proc[p].todo /\ Unread(p)' = Unread(p)
        /\ proc'[p].problems = proc[p].problems \cup Corrupted(p)
    BY <1>2, <1>9 DEF Verifies, Unread, Idle
  <2>2. /\ ~watch[p].moved /\ Bad(p) => watch[p].standing # {}
        /\ ~watch[p].moved => \A i : Seen(p, i) => Claimed(i, Place(p).notes, Unread(p))
    BY <2>1 DEF FindingsAreTrue
  <2>3. Corrupted(p) # {} => Damage(Place(p)) # {}
    <3>1. ASSUME NEW x \in Corrupted(p) PROVE \E a : a \in Place(p).corrupt
      BY <3>1 DEF Corrupted, Place
    <3> QED BY <3>1, WhatDamageIs
  <2>4. Bad(p)' => Bad(p) \/ Corrupted(p) # {}
    BY <2>1 DEF Bad
  <2>5. ASSUME NEW i, Seen(p, i)' PROVE Seen(p, i)
    <3>1. \A x \in Corrupted(p) : x[1] = "artifact_corrupt"
      BY DEF Corrupted
    <3>2. <<"id", i>>[1] = "id"
      OBVIOUS
    <3> QED BY <2>1, <2>5, <3>1, <3>2 DEF Seen
  <2> QED BY <1>4, <2>1, <2>2, <2>3, <2>4, <2>5
<1> QED BY <1>3, <1>5, <1>6, <1>7, <1>8, <1>9

-----------------------------------------------------------------------------
(* How an inspection ends *)

Reports(p) ==
  /\ proc[p].step = "strays" /\ tree' = tree /\ proc'[p].cmd = proc[p].cmd
  /\ proc'[p].exit = (IF ~Healthy(p) THEN "EXIT_CONTRACT" ELSE "EXIT_OK")

LEMMA HowAnInspectionEnds ==
  ASSUME PlacesStand, CommandsAreOnTheirWay, Next, NEW p \in Procs,
         proc'[p].cmd = "inspect", proc'[p].exit \in {"EXIT_OK", "EXIT_CONTRACT"}
  PROVE  Stays(p) \/ Reports(p) \/ (proc'[p].exit = "EXIT_CONTRACT" /\ proc'[p].instance = 0)
<1>1. DOMAIN proc = Procs /\ DOMAIN proc[p] = DOMAIN Idle /\ OnItsWay(proc[p])
  BY DEF CommandsAreOnTheirWay, OnItsWay
<1>2. SUFFICES ASSUME ~Stays(p) PROVE Reports(p) \/ (proc'[p].exit = "EXIT_CONTRACT" /\ proc'[p].instance = 0)
  OBVIOUS
<1>3. PICK q \in Procs : Step(q) \/ Crash(q)
  BY <1>2, Zenon DEF Next, UserEdits, UserBreaks, UserWritesProfile, Stays
<1>4. q = p
  BY <1>2, <1>3, StepsGoTheirWay DEF Stays
<1>5. ASSUME NEW kind, Ends(p, kind)
      PROVE  /\ proc'[p].exit = ExitOf(kind) /\ proc'[p].cmd = proc[p].cmd
             /\ proc'[p].instance = proc[p].instance
  BY <1>1, <1>5 DEF Ends, Idle
<1>6. proc[p].step # "done" => proc[p].exit = "none"
  BY <1>1 DEF OnItsWay
<1>7. CASE Starts(p) \/ Crash(p)
  <2>1. ASSUME NEW cmd, NEW explicit, NEW cwd, NEW in, Start(p, cmd, explicit, cwd, in) PROVE FALSE
    <3>1. proc'[p].exit = (IF ProfileReads(profile) THEN "none" ELSE ExitOf("invalid_profile"))
      BY <1>1, <2>1 DEF Start, Idle
    <3> QED BY <3>1 DEF ExitOf
  <2>2. ~Crash(p)
    BY <1>1 DEF Crash, Idle
  <2> QED BY <1>7, <2>1, <2>2 DEF Starts
<1>8. CASE OpenNotebook(p)
  <2>1. CASE Ends(p, "not_a_notebook")
    BY <1>5, <2>1 DEF ExitOf
  <2>2. CASE ~Ends(p, "not_a_notebook")
    BY <1>1, <1>6, <1>8, <2>2 DEF OpenNotebook, Idle
  <2> QED BY <2>1, <2>2
<1>9. CASE ReadInstance(p)
  <2>1. proc[p].instance = 0 /\ proc[p].exit = "none"
    BY <1>1, <1>6, <1>9 DEF ReadInstance, OnItsWay
  <2>2. CASE Ends(p, "io")
    BY <1>5, <2>2 DEF ExitOf
  <2>3. CASE Ends(p, "invalid_file")
    BY <1>5, <2>1, <2>3 DEF ExitOf
  <2>4. CASE ~Ends(p, "io") /\ ~Ends(p, "invalid_file")
    BY <1>1, <1>9, <2>1, <2>4 DEF ReadInstance, Idle
  <2> QED BY <2>2, <2>3, <2>4
<1>10. CASE CreateLayout(p)
  BY <1>1, <1>5, <1>10 DEF CreateLayout, Idle
<1>11. CASE AlreadyInitialized(p) \/ WriteInstance(p) \/ RecordDefault(p)
  <2>1. proc[p].cmd = "init"
    BY <1>1, <1>11 DEF AlreadyInitialized, WriteInstance, RecordDefault, OnItsWay
  <2>2. ASSUME NEW step, Goes(p, step) PROVE proc'[p].cmd = proc[p].cmd
    BY <1>1, <2>2 DEF Goes, Idle
  <2> QED BY <1>5, <1>11, <2>1, <2>2 DEF AlreadyInitialized, WriteInstance, RecordDefault
<1>12. CASE SetNotebook(p) \/ SetTimezone(p)
  BY <1>5, <1>12 DEF SetNotebook, SetTimezone
<1>13. CASE StoreImport(p) \/ WriteNote(p)
  <2>1. proc[p].step \in {"import", "write"}
    BY <1>13 DEF StoreImport, WriteNote
  <2>3. proc[p].cmd \in {"note", "collect"}
    BY <1>1, <2>1 DEF OnItsWay
  <2>2. ASSUME NEW step, Goes(p, step) PROVE proc'[p].cmd = proc[p].cmd
    BY <1>1, <2>2 DEF Goes, Idle
  <2> QED BY <1>5, <1>13, <2>2, <2>3 DEF StoreImport, WriteNote
<1>14. CASE ListArtifacts(p) \/ ListNotes(p)
  BY <1>1, <1>6, <1>14 DEF ListArtifacts, ListNotes, Idle
<1>15. CASE ReadNote(p)
  <2>1. CASE Ends(p, "io")
    BY <1>5, <2>1 DEF ExitOf
  <2>2. CASE ~Ends(p, "io")
    BY <1>1, <1>6, <1>15, <2>2 DEF ReadNote, Idle
  <2> QED BY <2>1, <2>2
<1>16. CASE VerifyArtifacts(p)
  <2>1. CASE Ends(p, "io")
    BY <1>5, <2>1 DEF ExitOf
  <2>2. CASE ~Ends(p, "io")
    BY <1>1, <1>6, <1>16, <2>2 DEF VerifyArtifacts, Idle
  <2> QED BY <2>1, <2>2
<1>17. CASE Report(p)
  <2>1. Ends(p, IF proc[p].cmd = "inspect" /\ ~Healthy(p) THEN "unhealthy" ELSE "ok")
    BY <1>17 DEF Report
  <2>2. proc'[p].cmd = proc[p].cmd
    BY <1>5, <2>1
  <2>3. /\ proc'[p].exit = ExitOf(IF ~Healthy(p) THEN "unhealthy" ELSE "ok")
        /\ proc[p].step = "strays" /\ tree' = tree
    BY <1>5, <1>17, <2>1, <2>2 DEF Report
  <2> QED BY <2>2, <2>3 DEF Reports, ExitOf
<1> QED BY <1>3, <1>4, <1>7, <1>8, <1>9, <1>10, <1>11, <1>12, <1>13, <1>14, <1>15, <1>16, <1>17 DEF Step

\* At the end of a scan, healthy means that nothing stands.
LEMMA HealthyIsHealthy ==
  ASSUME HistoryIsTrue, DamageIsMet, CopiesAreMet, CorruptionIsMet, FindingsAreTrue,
         NEW p \in Procs, proc[p].step = "strays", proc[p].cmd = "inspect"
  PROVE  /\ Healthy(p) => watch[p].standing = {}
         /\ ~Healthy(p) /\ ~watch[p].moved => watch[p].standing # {}
<1>1. /\ watch[p].standing \subseteq Damage(Place(p))
      /\ ~watch[p].moved => watch[p].standing = Damage(Place(p))
  BY DEF HistoryIsTrue, Scanning
<1>2. Unread(p) = {}
  <2>1. proc[p].todo = <<>> /\ DOMAIN proc[p].todo = {}
    BY DEF FindingsAreTrue
  <2> QED BY <2>1 DEF Unread
<1>3. Healthy(p) <=> ~Bad(p) /\ Place(p).strays = {}
  BY DEF Healthy, Bad, Place
<1>4. ASSUME ~Bad(p), Place(p).strays = {} PROVE watch[p].standing = {}
  <2>1. /\ \A n : <<"note", n>> \notin watch[p].standing
        /\ \A i : <<"copies", i>> \notin watch[p].standing
        /\ \A a : <<"artifact", a>> \notin watch[p].standing
    BY <1>2, <1>4 DEF DamageIsMet, CopiesAreMet, CorruptionIsMet
  <2>2. \A a : <<"stray", a>> \notin Damage(Place(p))
    BY <1>4, WhatDamageIs
  <2>3. ASSUME NEW z \in watch[p].standing PROVE FALSE
    <3>1. z \in Damage(Place(p))
      BY <1>1
    <3>2. \/ \E n : z = <<"note", n>>
          \/ \E i : z = <<"copies", i>>
          \/ \E a : z = <<"artifact", a>>
          \/ \E a : z = <<"stray", a>>
      BY <3>1, WhatDamageIs
    <3> QED BY <2>1, <2>2, <3>1, <3>2
  <2> QED BY <2>3
<1>5. Bad(p) /\ ~watch[p].moved => watch[p].standing # {}
  BY DEF FindingsAreTrue
<1>6. ASSUME ~watch[p].moved, Place(p).strays # {} PROVE watch[p].standing # {}
  <2>1. PICK a : a \in Place(p).strays
    BY <1>6
  <2>2. <<"stray", a>> \in Damage(Place(p))
    BY <2>1, WhatDamageIs
  <2> QED BY <1>1, <1>6, <2>2
<1> QED BY <1>3, <1>4, <1>5, <1>6

LEMMA InspectStaysTrue ==
  ASSUME PlacesStand, CommandsAreOnTheirWay, HistoryIsTrue, DamageIsMet, CopiesAreMet, CorruptionIsMet,
         FindingsAreTrue, InspectTellsTheTruth, Next
  PROVE  InspectTellsTheTruth'
<1>1. SUFFICES ASSUME NEW p \in Procs, proc'[p].cmd = "inspect", proc'[p].exit \in {"EXIT_OK", "EXIT_CONTRACT"}
               PROVE  /\ proc'[p].exit = "EXIT_OK" => watch'[p].standing = {}
                      /\ proc'[p].exit = "EXIT_CONTRACT" /\ proc'[p].instance # 0 /\ ~watch'[p].moved
                           => watch'[p].standing # {}
  BY DEF InspectTellsTheTruth
<1>2. OnItsWay(proc'[p])
  BY CommandsStayOnTheirWay DEF CommandsAreOnTheirWay
<1>3. ~Scanning(p)'
  BY <1>1, <1>2 DEF OnItsWay, Scanning
<1>4. CASE Stays(p)
  <2>1. ~Scanning(p) /\ proc'[p] = proc[p]
    BY <1>3, <1>4 DEF Stays, Scanning
  <2>2. watch'[p] = watch[p]
    BY <1>3, <2>1, WhatIsWatched
  <2> QED BY <1>1, <2>1, <2>2 DEF InspectTellsTheTruth
<1>5. CASE Reports(p)
  <2>1. proc[p].step = "strays" /\ proc[p].cmd = "inspect" /\ Scanning(p) /\ tree' = tree
    BY <1>1, <1>5 DEF Reports, Scanning
  <2>2. /\ watch'[p].standing = watch[p].standing \cap Damage(Place(p))
        /\ watch'[p].moved <=> watch[p].moved
    BY <2>1, WhatIsWatched DEF Place
  <2>3. watch[p].standing \subseteq Damage(Place(p))
    BY <2>1 DEF HistoryIsTrue
  <2>4. watch'[p].standing = watch[p].standing
    BY <2>2, <2>3
  <2>5. /\ Healthy(p) => watch[p].standing = {}
        /\ ~Healthy(p) /\ ~watch[p].moved => watch[p].standing # {}
    BY <2>1, HealthyIsHealthy
  <2>6. proc'[p].exit = (IF ~Healthy(p) THEN "EXIT_CONTRACT" ELSE "EXIT_OK")
    BY <1>5 DEF Reports
  <2> QED BY <2>2, <2>4, <2>5, <2>6
<1>6. CASE proc'[p].exit = "EXIT_CONTRACT" /\ proc'[p].instance = 0
  BY <1>6
<1> QED BY <1>1, <1>4, <1>5, <1>6, HowAnInspectionEnds

-----------------------------------------------------------------------------
(* The invariant holds *)

LEMMA InitKeeps == Init => IInv
<1>1. SUFFICES ASSUME Init PROVE IInv
  OBVIOUS
<1>2. /\ tree = [pl \in Places |-> EmptyPlace] /\ profile = NoProfile
      /\ proc = [p \in Procs |-> Idle]
      /\ drawn = [notes |-> 0, instances |-> 0, commands |-> 0, upsets |-> 0]
  BY <1>1 DEF Init
<1>3. \A pl \in Places : tree[pl] = EmptyPlace
  BY <1>2
<1>4. \A p \in Procs : proc[p] = Idle
  BY <1>2
<1>5. PlacesStand
  BY <1>2, <1>3, BoundsAssumption
     DEF PlacesStand, EmptyPlace, NoProfile, Profiles, Counts, Malformed
<1>6. NamesStand /\ WrittenNotesReadBack
  BY <1>3, FS_EmptySet DEF NamesStand, Named, WrittenNotesReadBack, EmptyPlace
<1>7. ImportsStand /\ CommandsAreOnTheirWay
  <2>1. OnItsWay(Idle)
    BY DEF OnItsWay, Idle, Steps, Scans, NoProfile, Profiles
  <2> QED BY <1>2, <1>4, <2>1 DEF ImportsStand, CommandsAreOnTheirWay, Idle
<1>8. \A p \in Procs : ~Scanning(p) /\ proc[p].step = "idle" /\ proc[p].cmd = "none"
  BY <1>4 DEF Scanning, Idle
<1>9. /\ HistoryIsTrue /\ ListIsTrue /\ DamageIsMet /\ CopiesAreMet /\ CorruptionIsMet /\ FindingsAreTrue
      /\ InspectTellsTheTruth
  BY <1>8 DEF HistoryIsTrue, ListIsTrue, DamageIsMet, CopiesAreMet, CorruptionIsMet, FindingsAreTrue,
              InspectTellsTheTruth
<1> QED BY <1>5, <1>6, <1>7, <1>9 DEF IInv

LEMMA NextKeeps == IInv /\ [Next]_vars => IInv'
<1>1. SUFFICES ASSUME IInv, [Next]_vars PROVE IInv'
  OBVIOUS
<1>2. CASE Next
  <2>1. PlacesStand' /\ NamesStand' /\ WrittenNotesReadBack' /\ ImportsStand' /\ CommandsAreOnTheirWay'
    BY <1>1, <1>2, PlacesStillStand, NotesStillStand, ImportsStillStand, CommandsStayOnTheirWay DEF IInv
  <2>2. HistoryIsTrue' /\ ListIsTrue'
    BY <1>1, <1>2, HistoryStaysTrue, ListStaysTrue DEF IInv
  <2>3. DamageIsMet' /\ CopiesAreMet' /\ CorruptionIsMet' /\ FindingsAreTrue'
    BY <1>1, <1>2, DamageStaysMet, CopiesStayMet, CorruptionStaysMet, FindingsStayTrue DEF IInv
  <2>4. InspectTellsTheTruth'
    BY <1>1, <1>2, InspectStaysTrue DEF IInv
  <2> QED BY <2>1, <2>2, <2>3, <2>4 DEF IInv
<1>3. CASE UNCHANGED vars
  <2>1. /\ PlacesStand' /\ NamesStand' /\ WrittenNotesReadBack' /\ ImportsStand' /\ CommandsAreOnTheirWay'
    BY <1>1, <1>3 DEF IInv, vars, PlacesStand, NamesStand, WrittenNotesReadBack, ImportsStand,
                      CommandsAreOnTheirWay
  <2>2. /\ HistoryIsTrue' /\ ListIsTrue' /\ DamageIsMet' /\ CopiesAreMet' /\ CorruptionIsMet'
        /\ FindingsAreTrue'
    <3>1. HistoryIsTrue'
      BY <1>1, <1>3 DEF IInv, vars, HistoryIsTrue, Scanning, Place
    <3>2. ListIsTrue'
      BY <1>1, <1>3 DEF IInv, vars, ListIsTrue, Place
    <3>3. DamageIsMet'
      BY <1>1, <1>3 DEF IInv, vars, DamageIsMet, Unread, Bad
    <3>4. CopiesAreMet'
      BY <1>1, <1>3 DEF IInv, vars, CopiesAreMet, Unread, Bad, Seen
    <3>5. CorruptionIsMet'
      BY <1>1, <1>3 DEF IInv, vars, CorruptionIsMet, Bad
    <3>6. FindingsAreTrue'
      <4>1. proc' = proc /\ watch' = watch /\ tree' = tree
        BY <1>3 DEF vars
      <4>2. \A p : /\ Place(p)' = Place(p) /\ Unread(p)' = Unread(p)
                   /\ Bad(p)' <=> Bad(p)
                   /\ \A i : Seen(p, i)' <=> Seen(p, i)
        BY <4>1 DEF Place, Unread, Bad, Seen
      <4> QED BY <1>1, <4>1, <4>2 DEF IInv, FindingsAreTrue
    <3> QED BY <3>1, <3>2, <3>3, <3>4, <3>5, <3>6
  <2>3. InspectTellsTheTruth'
    BY <1>1, <1>3 DEF IInv, vars, InspectTellsTheTruth
  <2> QED BY <2>1, <2>2, <2>3 DEF IInv
<1> QED BY <1>1, <1>2, <1>3

LEMMA InvariantHolds == Spec => []IInv
BY InitKeeps, NextKeeps, PTL DEF Spec

\* Places hold what a notebook holds, the profile names a place or none, and a
\* command has an exit code exactly when it ended.
THEOREM TypeCorrect == Spec => []TypeOK
<1>1. IInv => TypeOK
  BY DEF IInv, TypeOK, PlacesStand, Profiles, CommandsAreOnTheirWay, OnItsWay
<1> QED BY <1>1, InvariantHolds, PTL

\* A Note that note or a sync wrote and nobody touched parses back, validates,
\* and has its name, its hash and its artifacts, whatever text came in, whatever
\* ran beside the write and whenever the process died (note.rs, Note::to_file).
THEOREM NotesStandAlways == Spec => []NotesStand
<1>1. ASSUME IInv PROVE NotesStand
  <2>1. SUFFICES ASSUME NEW pl \in Places, NEW n \in tree[pl].notes,
                        ~n.touched, ~HashedTooEarly(n.file), n.file.artifacts \cap tree[pl].broken = {}
                 PROVE  NoteProblems(n, tree[pl].artifacts) = {}
    BY DEF NotesStand, Sound
  <2>2. PICK r \in ParseRecord(n.file) :
          /\ ParseRecord(n.file) = {r} /\ ValidNote(r) /\ NoteFilename(r) = {n.name}
          /\ r.artifacts = n.file.artifacts /\ r.hash = ContentHash(r.body)
    BY <1>1, <2>1 DEF IInv, WrittenNotesReadBack, ReadsBack
  <2>3. r.artifacts \subseteq tree[pl].artifacts
    BY <1>1, <2>1, <2>2 DEF IInv, WrittenNotesReadBack
  <2>4. r.attachments \subseteq r.artifacts
    BY <2>2 DEF ValidNote
  <2>5. (CHOOSE x \in ParseRecord(n.file) : TRUE) = r /\ Validates(n.file)
    BY <2>2 DEF Validates
  <2> QED BY <2>2, <2>3, <2>4, <2>5 DEF NoteProblems
<1> QED BY <1>1, InvariantHolds, PTL

\* inspect does not end well over damage that was there all the while it ran,
\* and does not call a notebook unhealthy that stayed as it was with nothing
\* wrong in it, whatever else runs, is edited or dies meanwhile (inspect.rs).
THEOREM InspectTellsTheTruthAlways == Spec => []InspectTellsTheTruth
<1>1. IInv => InspectTellsTheTruth
  BY DEF IInv
<1> QED BY <1>1, InvariantHolds, PTL

=============================================================================
