--------------------------- MODULE DeltaFieldProofs -------------------------
(***************************************************************************)
(* Theorems about DeltaField: what a stored delta link covers is held, only *)
(* deletions remove, and core rejects a run only for a cause that was seen. *)
(***************************************************************************)
EXTENDS DeltaField, TLAPS, WellFoundedInduction

-----------------------------------------------------------------------------
(* Versions *)

\* A bounded set of numbers has a greatest one.
LEMMA HasGreatest ==
  ASSUME NEW n \in Nat, NEW S \in SUBSET (0 .. n), S # {}
  PROVE  Max(S) \in S /\ \A y \in S : Max(S) >= y
<1> DEFINE Distances == {n - x : x \in S}
<1>a. \A x \in S : x \in Nat /\ n - x \in Nat
  OBVIOUS
<1>1. Distances \subseteq Nat /\ Distances # {}
  BY <1>a
<1>2. PICK d \in Distances : \A e \in Distances : ~ (<<e, d>> \in OpToRel(<, Nat))
  BY <1>1, WFMin, NatLessThanWellFounded
<1>3. \A e \in Distances : ~ (e < d)
  BY <1>1, <1>2 DEF OpToRel
<1>4. PICK x \in S : d = n - x
  BY <1>2
<1>5. ASSUME NEW y \in S PROVE x >= y
  <2>1. ~ (n - y < n - x)
    BY <1>3, <1>4
  <2>2. x \in Int /\ y \in Int
    OBVIOUS
  <2> HIDE DEF Distances
  <2> QED BY ONLY <2>1, <2>2
<1> QED BY <1>5 DEF Max

\* The version of an object at `p` is its last change up to `p`, or 0.
LEMMA VersionIsLast ==
  ASSUME NEW f, NEW o, NEW p \in Nat, NEW v, v = VersionAt(f, o, p)
  PROVE  /\ v \in 0 .. p
         /\ v > 0 => f[v].object = o
         /\ \A i \in 1 .. p : f[i].object = o => i <= v
<1> DEFINE S == {0} \cup {i \in 1 .. p : f[i].object = o}
<1>1. S \in SUBSET (0 .. p) /\ S # {}
  OBVIOUS
<1>2. Max(S) \in S /\ \A y \in S : Max(S) >= y
  BY <1>1, HasGreatest
<1> QED BY <1>1, <1>2 DEF VersionAt

\* It is also the version at any later position up to its next change.
LEMMA VersionLasts ==
  ASSUME NEW f, NEW o, NEW p \in Nat, NEW q \in Nat, p <= q
  PROVE  /\ VersionAt(f, o, p) <= VersionAt(f, o, q)
         /\ VersionAt(f, o, q) <= p => VersionAt(f, o, p) = VersionAt(f, o, q)
<1>1. PICK v : v = VersionAt(f, o, p)
  OBVIOUS
<1>2. PICK w : w = VersionAt(f, o, q)
  OBVIOUS
<1>3. /\ v \in 0 .. p /\ (v > 0 => f[v].object = o)
      /\ \A i \in 1 .. p : f[i].object = o => i <= v
  BY <1>1, VersionIsLast
<1>4. /\ w \in 0 .. q /\ (w > 0 => f[w].object = o)
      /\ \A i \in 1 .. q : f[i].object = o => i <= w
  BY <1>2, VersionIsLast
<1>5. v <= w
  BY <1>3, <1>4
<1>6. w <= p => w <= v
  BY <1>3, <1>4
<1> QED BY <1>1, <1>2, <1>3, <1>4, <1>5, <1>6

-----------------------------------------------------------------------------
(* Emitters *)

\* Core and the Field agree on what comes next.
Good(e) == ~e.write_failed /\ ~e.rejected /\ e.seq = e.last_seq

\* They disagree only after a frame was refused or could not be written, or
\* core has stopped taking frames.
Sane(e) ==
  /\ e \in Emitters /\ e.last_seq <= e.seq
  /\ e.seq = e.last_seq \/ e.refused \/ e.write_failed \/ e.rejected

\* What any frame does to an emitter.
Emitted(e, t) ==
  /\ Sane(t)
  /\ Good(t) => Good(e)
  /\ e.refused => t.refused
  /\ t.rejected => e.rejected \/ e.refused

LEMMA EmittedAgain ==
  ASSUME NEW e, NEW t, NEW u, Emitted(e, t), Emitted(t, u), t.refused => e.refused
  PROVE  Emitted(e, u)
  BY DEF Emitted

LEMMA NumberedFields ==
  ASSUME NEW e \in Emitters, NEW n, n = NextSeq(e)
  PROVE  /\ n \in Emitters /\ n.seq = e.seq + 1 /\ n.records = e.records
         /\ n.diagnostics = e.diagnostics /\ n.write_failed = e.write_failed
         /\ n.last_seq = e.last_seq /\ n.rejected = e.rejected /\ n.refused = e.refused
  BY DEF Emitters, NextSeq

\* A frame that is written is taken where nothing went wrong before.
LEMMA WrittenFields ==
  ASSUME NEW e \in Emitters, ~e.write_failed, NEW t, t = Write(e)
  PROVE  /\ t \in Emitters /\ t.seq = e.seq /\ t.records = e.records
         /\ t.diagnostics = e.diagnostics /\ ~t.write_failed /\ t.refused = e.refused
         /\ IF ~e.rejected /\ e.seq = e.last_seq + 1
              THEN t.last_seq = e.last_seq + 1 /\ ~t.rejected
              ELSE t.last_seq = e.last_seq /\ t.rejected
  BY DEF Emitters, Write, Taken

LEMMA DiagnosticIsEmitted ==
  ASSUME NEW e, Sane(e), NEW limits, limits.diagnostics \in Nat, NEW t,
         t = WriteDiagnostic(NextSeq(e), limits)
  PROVE  Emitted(e, t) /\ (e.diagnostics < limits.diagnostics => t.refused = e.refused)
<1>1. e \in Emitters /\ e.seq \in Nat /\ e.last_seq \in Nat /\ e.last_seq <= e.seq
  BY DEF Sane, Emitters
<1>2. PICK n : n = NextSeq(e)
  OBVIOUS
<1>3. /\ n \in Emitters /\ n.seq = e.seq + 1 /\ n.diagnostics = e.diagnostics
      /\ n.write_failed = e.write_failed /\ n.last_seq = e.last_seq
      /\ n.rejected = e.rejected /\ n.refused = e.refused
  BY <1>1, <1>2, NumberedFields
<1>4. CASE n.diagnostics >= limits.diagnostics
  <2>1. t = [n EXCEPT !.refused = TRUE]
    BY <1>2, <1>4 DEF WriteDiagnostic
  <2>2. /\ t \in Emitters /\ t.seq = n.seq /\ t.last_seq = n.last_seq /\ t.refused
        /\ t.rejected = n.rejected
    BY <1>3, <2>1 DEF Emitters
  <2>3. e.diagnostics \in Nat
    BY <1>1 DEF Emitters
  <2>4. Emitted(e, t)
    BY <1>1, <1>3, <2>2 DEF Emitted, Sane, Good
  <2> QED BY <1>3, <1>4, <2>3, <2>4
<1>5. CASE n.write_failed /\ ~(n.diagnostics >= limits.diagnostics)
  <2>1. t = n
    BY <1>2, <1>5 DEF WriteDiagnostic
  <2> QED BY <1>1, <1>3, <1>5, <2>1 DEF Emitted, Sane, Good
<1>6. CASE ~n.write_failed /\ ~(n.diagnostics >= limits.diagnostics)
  <2>1. PICK w : w = Write(n)
    OBVIOUS
  <2>2. t = [w EXCEPT !.diagnostics = @ + 1]
    BY <1>2, <1>6, <2>1 DEF WriteDiagnostic
  <2>3. /\ w \in Emitters /\ w.seq = n.seq /\ ~w.write_failed /\ w.refused = n.refused
        /\ IF ~n.rejected /\ n.seq = n.last_seq + 1
             THEN w.last_seq = n.last_seq + 1 /\ ~w.rejected
             ELSE w.last_seq = n.last_seq /\ w.rejected
    BY <1>3, <1>6, <2>1, WrittenFields
  <2>4. /\ t \in Emitters /\ t.seq = w.seq /\ t.last_seq = w.last_seq /\ t.refused = w.refused
        /\ t.rejected = w.rejected /\ t.write_failed = w.write_failed
    BY <2>2, <2>3 DEF Emitters
  <2>5. e.seq = e.last_seq \/ e.refused \/ e.write_failed \/ e.rejected
    BY DEF Sane
  <2> QED BY <1>1, <1>3, <1>6, <2>3, <2>4, <2>5 DEF Emitted, Sane, Good
<1> QED BY <1>4, <1>5, <1>6

LEMMA RecordIsEmitted ==
  ASSUME NEW e, Sane(e), NEW limits, limits.records \in Nat, NEW t,
         t = WriteRecord(NextSeq(e), limits)
  PROVE  /\ Emitted(e, t) /\ (e.records < limits.records => t.refused = e.refused)
         /\ Good(t) => RecordTaken(NextSeq(e), limits)
<1>1. e \in Emitters /\ e.seq \in Nat /\ e.last_seq \in Nat /\ e.last_seq <= e.seq
  BY DEF Sane, Emitters
<1>2. PICK n : n = NextSeq(e)
  OBVIOUS
<1>3. /\ n \in Emitters /\ n.seq = e.seq + 1 /\ n.records = e.records
      /\ n.write_failed = e.write_failed /\ n.last_seq = e.last_seq
      /\ n.rejected = e.rejected /\ n.refused = e.refused
  BY <1>1, <1>2, NumberedFields
<1>r. e.records \in Nat
  BY <1>1 DEF Emitters
<1>4. CASE n.records >= limits.records
  <2>1. t = [n EXCEPT !.refused = TRUE]
    BY <1>2, <1>4 DEF WriteRecord
  <2>2. /\ t \in Emitters /\ t.seq = n.seq /\ t.last_seq = n.last_seq /\ t.refused
        /\ t.rejected = n.rejected
    BY <1>3, <2>1 DEF Emitters
  <2>3. ~Good(t) /\ Emitted(e, t)
    BY <1>1, <1>3, <2>2 DEF Emitted, Sane, Good
  <2> QED BY <1>3, <1>4, <1>r, <2>3
<1>5. CASE n.write_failed /\ ~(n.records >= limits.records)
  <2>1. t = n
    BY <1>2, <1>5 DEF WriteRecord
  <2> QED BY <1>1, <1>3, <1>5, <2>1 DEF Emitted, Sane, Good
<1>6. CASE ~n.write_failed /\ ~(n.records >= limits.records)
  <2>1. PICK w : w = Write(n)
    OBVIOUS
  <2>2. t = [w EXCEPT !.records = @ + 1]
    BY <1>2, <1>6, <2>1 DEF WriteRecord
  <2>3. /\ w \in Emitters /\ w.seq = n.seq /\ ~w.write_failed /\ w.refused = n.refused
        /\ IF ~n.rejected /\ n.seq = n.last_seq + 1
             THEN w.last_seq = n.last_seq + 1 /\ ~w.rejected
             ELSE w.last_seq = n.last_seq /\ w.rejected
    BY <1>3, <1>6, <2>1, WrittenFields
  <2>4. /\ t \in Emitters /\ t.seq = w.seq /\ t.last_seq = w.last_seq /\ t.refused = w.refused
        /\ t.rejected = w.rejected /\ t.write_failed = w.write_failed
    BY <2>2, <2>3 DEF Emitters
  <2>5. e.seq = e.last_seq \/ e.refused \/ e.write_failed \/ e.rejected
    BY DEF Sane
  <2>6. Good(t) => RecordTaken(n, limits)
    BY <1>3, <1>6, <1>r, <2>3, <2>4 DEF RecordTaken, Taken, Good
  <2>7. Emitted(e, t)
    BY <1>1, <1>3, <1>6, <2>3, <2>4, <2>5 DEF Emitted, Sane, Good
  <2> QED BY <1>2, <1>3, <2>3, <2>4, <2>6, <2>7
<1> QED BY <1>4, <1>5, <1>6

LEMMA DiagnosticsAreEmitted ==
  ASSUME NEW e, Sane(e), field.limits.diagnostics \in Nat, NEW t, t = Diagnostic(e)
  PROVE  Emitted(e, t) /\ (Is("mail") => t.refused = e.refused)
<1>1. CASE t = WriteDiagnostic(NextSeq(e), field.limits) /\ ~ Is("mail")
  BY <1>1, DiagnosticIsEmitted
<1>2. CASE Is("mail") /\ e.diagnostics >= field.limits.diagnostics
  <2>1. t = e
    BY <1>2 DEF Diagnostic, DiagnosticCountedFirst
  <2> QED BY <2>1 DEF Emitted, Sane
<1>3. CASE Is("mail") /\ ~ (e.diagnostics >= field.limits.diagnostics)
  <2>1. t = WriteDiagnostic(NextSeq(e), field.limits)
    BY <1>3 DEF Diagnostic, DiagnosticCountedFirst
  <2>2. e.diagnostics < field.limits.diagnostics
    BY <1>3 DEF Sane, Emitters
  <2> QED BY <2>1, <2>2, DiagnosticIsEmitted
<1> QED BY <1>1, <1>2, <1>3 DEF Diagnostic, DiagnosticNumberedFirst

-----------------------------------------------------------------------------
(* The inductive invariant *)

\* What is held and where the cursor stands were once in the feed; a leave is
\* of mail.
VersionsAreReal ==
  /\ \A o \in Objects : held[o] \in 0 .. Len(feed) /\ (held[o] > 0 => feed[held[o]].object = o)
  /\ Resumable => cursor \in 0 .. Len(feed)
  /\ \A i \in 1 .. Len(feed) : feed[i].kind = "leave" => Is("mail")

\* The objects a run still has to read, or to take.
Pending == run.stream.owed \cup {item.object : item \in run.stream.buffer}

\* A stream's token is where it started, and it comes with the last page.
StreamIsTrue ==
  /\ run.stream.upto <= Len(feed)
  /\ run.pc # "idle" /\ Resumable => cursor <= run.stream.upto
  /\ run.stream.token \subseteq {run.stream.upto}
  /\ run.stream.open => run.stream.token = {} /\ run.pc # "idle"
  /\ run.stream.token # {} => run.stream.owed = {}
  /\ run.pc = "reading" /\ ~ run.stream.open => run.stream.owed = {}

\* What is read is what the link before it does not cover.
OwedIsNew ==
  \A o \in run.stream.owed : Version(feed, o) > 0 /\ (Resumable => Version(feed, o) > cursor)

\* Each object is read once, in a state it had since the stream began.
BufferIsNew ==
  \A item \in run.stream.buffer :
    /\ item.object \in Objects \ run.stream.owed
    /\ item.version \in 1 .. Len(feed)
    /\ feed[item.version] = [object |-> item.object, kind |-> item.kind]
    /\ item.version >= VersionAt(feed, item.object, run.stream.upto)
    /\ item.version >= held[item.object]
    /\ Resumable => item.version > cursor
    /\ \A other \in run.stream.buffer : other.object = item.object => other = item

\* What happened to an object up to `p` is held, or has been superseded.
SettledAt(o, p) ==
  LET v == VersionAt(feed, o, p) IN
  /\ \/ KindAt(feed, v) # "put" \/ v < Version(feed, o)
     \/ Is("mail") /\ ~ MessageMaps(o)
     \/ held[o] = v /\ (o \notin partial \/ Is("contacts"))
  /\ o \notin unseen /\ KindAt(feed, v) = "delete" => v < Version(feed, o) \/ ~ Held(o)

\* The run will adopt no link.
Troubled ==
  \/ run.had_error \/ ~ run.exhausted \/ ~ Good(run.out)
  \/ run.pc = "ending" /\ run.stream.token = {}

\* A run that may adopt its link has settled all it is done with.
DoneIsSettled ==
  run.pc # "idle" /\ run.plan = "delta" =>
    \A o \in Scope \ (Pending \cup cut) : Troubled \/ SettledAt(o, run.stream.upto)

EndIsClean == run.pc = "ending" => Troubled \/ Pending \subseteq cut

\* So has the run that stored the cursor.
LinkIsSettled == Resumable => \A o \in Scope \ cut : SettledAt(o, cursor)

\* Where core and the Field disagree there is a cause.
Emission ==
  /\ Sane(run.out)
  /\ RejectionsAreEarned
  /\ Is("mail") /\ run.staged > field.limits.artifacts => field.odd = "undeclared"

Reading == StreamIsTrue /\ OwedIsNew /\ BufferIsNew
Settling == DoneIsSettled /\ EndIsClean /\ LinkIsSettled

IInv == TypeOK /\ VersionsAreReal /\ Reading /\ Settling /\ Emission

LEMMA FieldIsTyped ==
  ASSUME TypeOK
  PROVE  /\ field.name \in {"mail", "calendar", "contacts"} /\ field.name \in Fields
         /\ field.limits.records \in Nat \ {0} /\ field.limits.diagnostics \in Nat \ {0}
         /\ field.limits.artifacts \in Nat \ {0}
         /\ field.odd \in Oddities
  BY FieldAssumption DEF TypeOK, FieldTypes, Limits

LEMMA FeedIsTyped ==
  ASSUME TypeOK
  PROVE  /\ feed \in Seq(Changes) /\ Len(feed) \in Nat /\ Len(feed) <= MaxChanges
         /\ Len(feed) \in 0 .. MaxChanges /\ MaxChanges \in Nat
         /\ \A i \in 1 .. Len(feed) : feed[i] \in Changes
         /\ \A o : Version(feed, o) \in 0 .. Len(feed)
<1>1. feed \in Seq(Changes) /\ Len(feed) \in Nat /\ Len(feed) <= MaxChanges /\ MaxChanges \in Nat
  BY FieldAssumption DEF TypeOK
<1>2. \A o : Version(feed, o) \in 0 .. Len(feed)
  BY <1>1, VersionIsLast DEF Version
<1> QED BY <1>1, <1>2

LEMMA CursorIsTyped ==
  ASSUME TypeOK
  PROVE  Resumable => cursor \in Nat
  BY FieldAssumption DEF TypeOK, Resumable

\* Only an object's own item settles it anew.
LEMMA SettledStays ==
  ASSUME NEW o, NEW p, SettledAt(o, p), UNCHANGED <<field, feed, unseen>>, held'[o] = held[o],
         o \in partial' => o \in partial
  PROVE  SettledAt(o, p)'
  BY DEF SettledAt, Held, MessageMaps, Oddity, Is

\* What the feed said of its positions it says after a change.
LEMMA ChangeOfFeed ==
  ASSUME TypeOK, NEW x \in Objects, NEW kind \in Kinds, Change(x, kind)
  PROVE  /\ feed' \in Seq(Changes) /\ Len(feed') = Len(feed) + 1 /\ Len(feed') <= MaxChanges
         /\ feed'[Len(feed')] = [object |-> x, kind |-> kind]
         /\ \A i \in 1 .. Len(feed) : feed'[i] = feed[i]
         /\ \A v \in 0 .. Len(feed) : KindAt(feed', v) = KindAt(feed, v)
         /\ \A o, p : p \in 0 .. Len(feed) => VersionAt(feed', o, p) = VersionAt(feed, o, p)
         /\ \A o : Version(feed', o) >= Version(feed, o)
         /\ \A o : Version(feed, o) \in Nat /\ Version(feed', o) \in Nat
         /\ UNCHANGED <<field, held, partial, cursor, run, unseen, cut, faults>>
<1>0. feed \in Seq(Changes) /\ Len(feed) \in Nat /\ MaxChanges \in Nat /\ Len(feed) < MaxChanges
  BY FeedIsTyped DEF Change
<1>1. PICK c \in Changes : c = [object |-> x, kind |-> kind]
  BY DEF Changes
<1>2. feed' = Append(feed, c) /\ UNCHANGED <<field, held, partial, cursor, run, unseen, cut, faults>>
  BY <1>1 DEF Change
<1>3. /\ feed' \in Seq(Changes) /\ Len(feed') = Len(feed) + 1 /\ feed'[Len(feed')] = c
      /\ \A i \in 1 .. Len(feed) : feed'[i] = feed[i]
  BY <1>0, <1>2
<1>4. \A v \in 0 .. Len(feed) : KindAt(feed', v) = KindAt(feed, v)
  BY <1>0, <1>3 DEF KindAt
<1>5. ASSUME NEW o, NEW p \in 0 .. Len(feed) PROVE VersionAt(feed', o, p) = VersionAt(feed, o, p)
  <2>1. {i \in 1 .. p : feed'[i].object = o} = {i \in 1 .. p : feed[i].object = o}
    BY <1>0, <1>3
  <2> QED BY <2>1 DEF VersionAt
<1>6. ASSUME NEW o
      PROVE  /\ Version(feed', o) >= Version(feed, o) /\ Version(feed, o) \in Nat
             /\ Version(feed', o) \in Nat
  <2>1. PICK p : p = Len(feed)
    OBVIOUS
  <2>2. PICK q : q = Len(feed')
    OBVIOUS
  <2>3. p \in Nat /\ q \in Nat /\ p <= q
    BY <1>0, <1>3, <2>1, <2>2
  <2>4. VersionAt(feed', o, p) <= VersionAt(feed', o, q)
    BY <2>3, VersionLasts
  <2>5. VersionAt(feed', o, p) = VersionAt(feed, o, p)
    BY <1>5, <2>1, <2>3
  <2>6. VersionAt(feed, o, p) \in 0 .. p /\ VersionAt(feed', o, q) \in 0 .. q
    BY <2>3, VersionIsLast
  <2>7. /\ Version(feed, o) = VersionAt(feed, o, p) /\ Version(feed', o) = VersionAt(feed', o, q)
    BY <2>1, <2>2 DEF Version
  <2> QED BY <2>3, <2>4, <2>5, <2>6, <2>7
<1> QED BY <1>0, <1>1, <1>2, <1>3, <1>4, <1>5, <1>6

LEMMA SettledByChange ==
  ASSUME TypeOK, VersionsAreReal, NEW x \in Objects, NEW kind \in Kinds, Change(x, kind),
         NEW o \in Objects, NEW p \in 0 .. Len(feed), SettledAt(o, p)
  PROVE  SettledAt(o, p)'
<1>1. Len(feed) \in Nat /\ held[o] \in 0 .. Len(feed) /\ p \in Nat
  BY FeedIsTyped DEF VersionsAreReal
<1>2. UNCHANGED <<field, held, partial, unseen>>
  BY DEF Change
<1>3. PICK v : v = VersionAt(feed, o, p)
  OBVIOUS
<1>4. v \in 0 .. Len(feed)
  <2>1. v \in 0 .. p
    BY <1>1, <1>3, VersionIsLast
  <2> QED BY <1>1, <2>1
<1>5. /\ VersionAt(feed', o, p) = v /\ KindAt(feed', v) = KindAt(feed, v)
      /\ KindAt(feed', held[o]) = KindAt(feed, held[o])
  BY <1>1, <1>3, <1>4, ChangeOfFeed
<1>6. v < Version(feed, o) => v < Version(feed', o)
  <2>1. Version(feed', o) >= Version(feed, o) /\ Version(feed, o) \in Nat /\ Version(feed', o) \in Nat
    BY ChangeOfFeed
  <2> QED BY <1>1, <1>4, <2>1
<1>7. /\ Held(o)' = Held(o) /\ MessageMaps(o)' = MessageMaps(o)
      /\ Is("mail")' = Is("mail") /\ Is("contacts")' = Is("contacts")
  BY <1>2, <1>5 DEF Held, MessageMaps, Oddity, Is
<1> QED BY <1>2, <1>3, <1>5, <1>6, <1>7 DEF SettledAt

LEMMA RunIsTyped ==
  ASSUME TypeOK
  PROVE  /\ run.pc \in {"idle", "reading", "ending"} /\ run.plan \in {"window", "delta"}
         /\ run.stream \in Streams(MaxChanges) /\ run.out \in Emitters
         /\ run.had_error \in BOOLEAN /\ run.exhausted \in BOOLEAN /\ run.staged \in Nat
         /\ run.stream.owed \subseteq Objects /\ run.stream.buffer \subseteq Items
         /\ run.stream.upto \in 0 .. MaxChanges /\ run.stream.upto \in Nat
         /\ run.stream.open \in BOOLEAN /\ run.stream.delta \in BOOLEAN
         /\ run.stream.attempt \in 1 .. MaxAttempts
         /\ run.stream.token \subseteq 0 .. MaxChanges
<1>1. MaxChanges \in Nat
  BY FieldAssumption
<1>2. run \in Runs
  BY DEF TypeOK
<1>3. run.stream \in Streams(MaxChanges)
  BY <1>2 DEF Runs
<1> QED BY <1>1, <1>2, <1>3 DEF Runs, Streams

LEMMA ChangeKeeps ==
  ASSUME IInv, NEW x \in Objects, NEW kind \in Kinds, Change(x, kind)
  PROVE  IInv'
<1>0. TypeOK /\ VersionsAreReal /\ Reading /\ Settling
  BY DEF IInv
<1>1. Len(feed) \in Nat /\ Len(feed') = Len(feed) + 1
      /\ UNCHANGED <<field, held, partial, cursor, run, unseen, cut, faults>>
  BY <1>0, FeedIsTyped, ChangeOfFeed
<1>a. /\ feed'[Len(feed')] = [object |-> x, kind |-> kind]
      /\ \A i \in 1 .. Len(feed) : feed'[i] = feed[i]
  BY <1>0, ChangeOfFeed
<1>2. TypeOK'
  <2>1. feed' \in Seq(Changes) /\ Len(feed') <= MaxChanges
    BY <1>0, ChangeOfFeed
  <2> QED BY <1>0, <1>1, <2>1 DEF TypeOK
<1>3. VersionsAreReal'
  <2>1. ASSUME NEW o \in Objects
        PROVE  held'[o] \in 0 .. Len(feed') /\ (held'[o] > 0 => feed'[held'[o]].object = o)
    <3>1. held[o] \in 0 .. Len(feed) /\ (held[o] > 0 => feed[held[o]].object = o)
      BY <1>0 DEF VersionsAreReal
    <3>2. held[o] > 0 => feed'[held[o]] = feed[held[o]]
      BY <1>1, <1>a, <3>1
    <3> QED BY <1>1, <3>1, <3>2
  <2>2. Resumable' => cursor' \in 0 .. Len(feed')
    BY <1>0, <1>1 DEF VersionsAreReal, Resumable
  <2>3. ASSUME NEW i \in 1 .. Len(feed'), feed'[i].kind = "leave" PROVE Is("mail")'
    <3>1. CASE i \in 1 .. Len(feed)
      <4>1. feed[i].kind = "leave"
        BY <1>a, <2>3, <3>1
      <4> QED BY <1>0, <1>1, <3>1, <4>1 DEF VersionsAreReal, Is
    <3>2. CASE i = Len(feed')
      <4>1. kind = "leave"
        BY <1>a, <2>3, <3>2
      <4> QED BY <1>1, <4>1 DEF Change, Is
    <3> QED BY <1>1, <3>1, <3>2
  <2> QED BY <2>1, <2>2, <2>3 DEF VersionsAreReal
<1>4. run.stream.upto \in 0 .. Len(feed)
  BY <1>0, <1>1, RunIsTyped DEF Reading, StreamIsTrue
<1>5. StreamIsTrue'
  BY <1>0, <1>1, <1>4 DEF Reading, StreamIsTrue, Resumable
<1>6. OwedIsNew'
  <2> SUFFICES ASSUME NEW o \in run.stream.owed
               PROVE  Version(feed', o) > 0 /\ (Resumable => Version(feed', o) > cursor)
    BY <1>1 DEF OwedIsNew, Resumable
  <2>1. Version(feed, o) > 0 /\ (Resumable => Version(feed, o) > cursor)
    BY <1>0 DEF Reading, OwedIsNew
  <2>2. Version(feed', o) >= Version(feed, o) /\ Version(feed, o) \in Nat /\ Version(feed', o) \in Nat
    BY <1>0, ChangeOfFeed
  <2>3. Resumable => cursor \in Nat
    BY <1>0, CursorIsTyped
  <2> QED BY <2>1, <2>2, <2>3
<1>7. BufferIsNew'
  <2> SUFFICES ASSUME NEW item \in run.stream.buffer
               PROVE  /\ item.object \in Objects \ run.stream.owed
                      /\ item.version \in 1 .. Len(feed')
                      /\ feed'[item.version] = [object |-> item.object, kind |-> item.kind]
                      /\ item.version >= VersionAt(feed', item.object, run.stream.upto)
                      /\ item.version >= held[item.object]
                      /\ Resumable => item.version > cursor
                      /\ \A other \in run.stream.buffer : other.object = item.object => other = item
    BY <1>1 DEF BufferIsNew, Resumable
  <2>1. /\ item.object \in Objects \ run.stream.owed
        /\ item.version \in 1 .. Len(feed)
        /\ feed[item.version] = [object |-> item.object, kind |-> item.kind]
        /\ item.version >= VersionAt(feed, item.object, run.stream.upto)
        /\ item.version >= held[item.object]
        /\ Resumable => item.version > cursor
        /\ \A other \in run.stream.buffer : other.object = item.object => other = item
    BY <1>0 DEF Reading, BufferIsNew
  <2>2. feed'[item.version] = feed[item.version]
    BY <1>0, <2>1, ChangeOfFeed
  <2>3. VersionAt(feed', item.object, run.stream.upto) = VersionAt(feed, item.object, run.stream.upto)
    BY <1>0, <1>4, ChangeOfFeed
  <2>4. item.version \in 1 .. Len(feed')
    BY <1>1, <2>1
  <2> QED BY <2>1, <2>2, <2>3, <2>4
<1>8. Scope' = Scope /\ Scope \subseteq Objects /\ Pending' = Pending /\ Troubled' = Troubled
  BY <1>1 DEF Scope, Windowed, Oddity, Is, Pending, Troubled
<1>9. DoneIsSettled'
  <2> SUFFICES ASSUME run.pc # "idle", run.plan = "delta", ~ Troubled,
                      NEW o \in Scope \ (Pending \cup cut)
               PROVE  SettledAt(o, run.stream.upto)'
    BY <1>1, <1>8 DEF DoneIsSettled, SettledAt
  <2>1. SettledAt(o, run.stream.upto)
    BY <1>0 DEF Settling, DoneIsSettled
  <2>2. PICK p : p = run.stream.upto
    OBVIOUS
  <2>3. SettledAt(o, p)'
    BY <1>0, <1>4, <1>8, <2>1, <2>2, SettledByChange
  <2> QED BY <1>1, <2>2, <2>3 DEF SettledAt
<1>10. EndIsClean'
  BY <1>0, <1>1, <1>8 DEF Settling, EndIsClean
<1>11. LinkIsSettled'
  <2> SUFFICES ASSUME Resumable, NEW o \in Scope \ cut
               PROVE  SettledAt(o, cursor)'
    BY <1>1, <1>8 DEF LinkIsSettled, Resumable
  <2>1. SettledAt(o, cursor) /\ cursor \in 0 .. Len(feed)
    BY <1>0 DEF Settling, LinkIsSettled, VersionsAreReal
  <2>2. PICK p : p = cursor
    OBVIOUS
  <2>3. SettledAt(o, p)'
    BY <1>0, <1>8, <2>1, <2>2, SettledByChange
  <2> QED BY <1>1, <2>2, <2>3 DEF SettledAt
<1>12. Emission'
  BY <1>1 DEF IInv, Emission, RejectionsAreEarned, Is, Sane
<1> QED BY <1>2, <1>3, <1>5, <1>6, <1>7, <1>9, <1>10, <1>11, <1>12 DEF IInv, Reading, Settling

-----------------------------------------------------------------------------
(* The start of a run *)

LEMMA ScopeIs ==
  /\ Scope \subseteq Objects /\ InitialScope \subseteq Objects
  /\ TypeOK /\ ~ (Is("mail") /\ cursor = NoCursor) => InitialScope = Scope
<1>1. Scope \subseteq Objects /\ InitialScope \subseteq Objects
  BY DEF Scope, InitialScope, Windowed
<1>2. ASSUME TypeOK, ~ (Is("mail") /\ cursor = NoCursor) PROVE InitialScope = Scope
  <2>1. field.name \in {"mail", "calendar", "contacts"}
    BY <1>2, FieldIsTyped
  <2> QED BY <1>2, <2>1 DEF InitialScope, Scope, Is
<1> QED BY <1>1, <1>2

LEMMA NewRunFields ==
  ASSUME TypeOK, Begin, NEW owed,
         owed = IF Resumable THEN OwedSince(feed, Scope, cursor)
                ELSE OwedInitially(feed, InitialScope)
  PROVE  /\ run.pc = "idle" /\ run' \in Runs /\ run'.pc = "reading" /\ run'.plan = PlanOf
         /\ run'.out = NewEmitter /\ run'.staged = 0 /\ owed \subseteq Objects
         /\ run'.stream.owed = owed /\ run'.stream.upto = Len(feed) /\ run'.stream.open
         /\ run'.stream.buffer = {} /\ run'.stream.token = {}
         /\ UNCHANGED <<field, feed, held, partial, cursor, cut, faults>>
<1>1. PICK s : s = NewStream(feed, owed, PlanOf = "delta")
  OBVIOUS
<1>2. /\ s.owed = owed /\ s.upto = Len(feed) /\ s.open /\ s.buffer = {} /\ s.token = {}
      /\ s = [owed |-> owed, upto |-> Len(feed), delta |-> PlanOf = "delta", open |-> TRUE,
              buffer |-> {}, token |-> {}, attempt |-> 1]
  BY <1>1 DEF NewStream, NoStream
<1>3. owed \subseteq Objects
  BY ScopeIs DEF OwedSince, OwedInitially
<1>4. s \in Streams(MaxChanges)
  BY <1>2, <1>3, FeedIsTyped, StreamAssumption DEF Streams
<1>5. run.pc = "idle" /\ run' = [Idle EXCEPT !.pc = "reading", !.plan = PlanOf, !.stream = s]
  BY <1>1 DEF Begin
<1>6. run' = [pc |-> "reading", plan |-> PlanOf, stream |-> s, out |-> NewEmitter,
              had_error |-> FALSE, exhausted |-> TRUE, staged |-> 0, exit |-> "Completed"]
  BY <1>5 DEF Idle
<1>7. NewEmitter \in Emitters /\ "Completed" \in Exits /\ PlanOf \in {"window", "delta"}
  BY DEF NewEmitter, Emitters, Exits, PlanOf
<1>8. run' \in Runs
  BY <1>4, <1>6, <1>7 DEF Runs
<1>9. UNCHANGED <<field, feed, held, partial, cursor, cut, faults>>
  BY DEF Begin
<1>10. /\ run'.pc = "reading" /\ run'.plan = PlanOf /\ run'.stream = s
       /\ run'.out = NewEmitter /\ run'.staged = 0
  BY <1>6
<1> QED BY <1>2, <1>3, <1>5, <1>8, <1>9, <1>10

\* What the first stream, or one without a link, does not owe is not there.
LEMMA BeginKeeps ==
  ASSUME IInv, Begin
  PROVE  IInv'
<1> DEFINE owed == IF Resumable THEN OwedSince(feed, Scope, cursor)
                   ELSE OwedInitially(feed, InitialScope)
<1>0. TypeOK /\ VersionsAreReal /\ Settling /\ Len(feed) \in Nat
  BY FeedIsTyped DEF IInv
<1>1. /\ run.pc = "idle" /\ run' \in Runs /\ run'.pc = "reading" /\ run'.plan = PlanOf
      /\ run'.out = NewEmitter /\ run'.staged = 0 /\ owed \subseteq Objects
      /\ run'.stream.owed = owed /\ run'.stream.upto = Len(feed) /\ run'.stream.open
      /\ run'.stream.buffer = {} /\ run'.stream.token = {}
      /\ UNCHANGED <<field, feed, held, partial, cursor, cut, faults>>
  BY <1>0, NewRunFields
<1>2. unseen' = (IF Resumable THEN unseen ELSE {o \in Objects : Held(o) /\ ~Live(feed, o)})
  BY DEF Begin
<1>3. TypeOK'
  BY <1>0, <1>1, <1>2 DEF TypeOK
<1>4. VersionsAreReal' /\ (Resumable' <=> Resumable) /\ (Resumable => cursor \in 0 .. Len(feed))
  BY <1>0, <1>1 DEF VersionsAreReal, Resumable, Is
<1>5. \A o \in owed : Version(feed, o) > 0 /\ (Resumable => Version(feed, o) > cursor)
  <2> SUFFICES ASSUME NEW o \in owed
               PROVE  Version(feed, o) > 0 /\ (Resumable => Version(feed, o) > cursor)
    OBVIOUS
  <2>1. Version(feed, o) \in 0 .. Len(feed)
    BY <1>0, FeedIsTyped
  <2>2. CASE Resumable
    BY <1>4, <2>1, <2>2 DEF OwedSince
  <2>3. CASE ~ Resumable
    <3>1. KindAt(feed, Version(feed, o)) = "put"
      BY <2>3 DEF OwedInitially, Live
    <3> QED BY <2>1, <2>3, <3>1 DEF KindAt
  <2> QED BY <2>2, <2>3
<1>6. Reading'
  <2>1. StreamIsTrue'
    BY <1>0, <1>1, <1>4 DEF StreamIsTrue
  <2>2. OwedIsNew'
    BY <1>1, <1>4, <1>5 DEF OwedIsNew
  <2>3. BufferIsNew'
    BY <1>1 DEF BufferIsNew
  <2> QED BY <2>1, <2>2, <2>3 DEF Reading
<1>7. Scope' = Scope /\ Pending' = owed /\ Scope \subseteq Objects
  BY <1>1, ScopeIs DEF Scope, Windowed, Oddity, Is, Pending
<1>8. DoneIsSettled'
  <2> SUFFICES ASSUME PlanOf = "delta", NEW o \in Scope \ (owed \cup cut)
               PROVE  SettledAt(o, Len(feed))'
    BY <1>1, <1>7 DEF DoneIsSettled, Troubled, SettledAt
  <2>1. PICK v : v = Version(feed, o)
    OBVIOUS
  <2>2. v \in 0 .. Len(feed) /\ VersionAt(feed, o, Len(feed)) = v
    BY <1>0, <2>1, FeedIsTyped DEF Version
  <2>3. CASE Resumable
    <3>1. cursor \in 0 .. Len(feed) /\ v <= cursor
      <4>1. ~ (v > cursor)
        BY <2>1, <2>3 DEF OwedSince
      <4> QED BY <1>4, <2>2, <2>3, <4>1
    <3>2. VersionAt(feed, o, cursor) = v
      <4>1. PICK p : p = cursor
        OBVIOUS
      <4>2. p \in Nat /\ p <= Len(feed)
        BY <3>1, <4>1
      <4> QED BY <1>0, <2>2, <3>1, <4>1, <4>2, VersionLasts
    <3>3. SettledAt(o, cursor)
      BY <1>0, <2>3 DEF Settling, LinkIsSettled
    <3>4. SettledAt(o, Len(feed))
      BY <2>2, <3>2, <3>3 DEF SettledAt
    <3> QED BY <1>1, <1>2, <2>3, <3>4, SettledStays DEF SettledAt
  <2>4. CASE ~ Resumable
    <3>1. ~ Live(feed, o)
      <4>1. InitialScope = Scope
        BY <1>0, ScopeIs DEF PlanOf
      <4> QED BY <2>4, <4>1 DEF OwedInitially
    <3>2. KindAt(feed, v) # "put" /\ (o \notin unseen' => ~ Held(o))
      BY <1>2, <1>7, <2>1, <2>4, <3>1 DEF Live
    <3> QED BY <1>1, <2>2, <3>2 DEF SettledAt, Held
  <2> QED BY <2>3, <2>4
<1>9. EndIsClean'
  BY <1>1 DEF EndIsClean
<1>10. LinkIsSettled'
  <2> SUFFICES ASSUME Resumable, NEW o \in Scope \ cut PROVE SettledAt(o, cursor)'
    BY <1>1, <1>4, <1>7 DEF LinkIsSettled
  <2>1. SettledAt(o, cursor)
    BY <1>0 DEF Settling, LinkIsSettled
  <2> QED BY <1>1, <1>2, <2>1, SettledStays DEF SettledAt
<1>11. Emission'
  <2>1. Sane(NewEmitter) /\ ~ NewEmitter.rejected /\ ~ NewEmitter.refused
    BY DEF Sane, NewEmitter, Emitters
  <2>2. ~ (0 > field.limits.artifacts)
    BY <1>0, FieldIsTyped
  <2> QED BY <1>1, <2>1, <2>2 DEF Emission, RejectionsAreEarned, Is
<1> QED BY <1>3, <1>4, <1>6, <1>8, <1>9, <1>10, <1>11 DEF IInv, Settling

-----------------------------------------------------------------------------
(* A run that goes on *)

\* An object is out of the unfinished page only once it is taken again.
CutStays == cut' \subseteq Objects /\ \A o \in cut \ cut' : held'[o] # held[o]

\* A step of the loop: what has gone wrong stays so.
Continues ==
  /\ run.pc = "reading" /\ run'.pc \in {"reading", "ending"} /\ run'.plan = run.plan
  /\ Troubled => Troubled'
  /\ CutStays
  /\ UNCHANGED <<field, feed, cursor, unseen>>

LEMMA CutUnchanged ==
  ASSUME TypeOK, UNCHANGED cut
  PROVE  CutStays
  BY DEF CutStays, TypeOK

LEMMA TroubleStays ==
  ASSUME run.pc = "reading", run.had_error => run'.had_error, ~ run.exhausted => ~ run'.exhausted,
         Good(run'.out) => Good(run.out)
  PROVE  Troubled => Troubled'
  BY DEF Troubled

\* A stored link stays settled where only what it does not cover is taken.
LEMMA LinkStays ==
  ASSUME TypeOK, LinkIsSettled, Continues, Resumable => cursor \in 0 .. Len(feed),
         \A o \in Objects : \/ held'[o] = held[o] /\ (o \in partial' => o \in partial)
                            \/ Resumable => Version(feed, o) > cursor
  PROVE  LinkIsSettled'
<1>1. UNCHANGED <<field, feed, cursor, unseen>> /\ Scope' = Scope /\ Scope \subseteq Objects
  BY ScopeIs DEF Continues, Scope, Windowed, Oddity, Is
<1>2. Resumable' = Resumable
  BY <1>1 DEF Resumable
<1> SUFFICES ASSUME Resumable, NEW o \in Scope \ cut' PROVE SettledAt(o, cursor)'
  BY <1>1, <1>2 DEF LinkIsSettled
<1>4. CASE held'[o] = held[o] /\ (o \in partial' => o \in partial)
  <2>1. o \notin cut
    BY <1>4 DEF Continues, CutStays
  <2>2. SettledAt(o, cursor)
    BY <2>1 DEF LinkIsSettled
  <2> QED BY <1>1, <1>4, <2>2, SettledStays DEF SettledAt
<1>5. CASE Version(feed, o) > cursor
  <2>1. cursor \in Nat /\ Len(feed) \in Nat
    BY FeedIsTyped
  <2>2. PICK v : v = VersionAt(feed, o, cursor)
    OBVIOUS
  <2>3. v \in 0 .. cursor /\ Version(feed, o) \in 0 .. Len(feed)
    BY <2>1, <2>2, VersionIsLast, FeedIsTyped
  <2>4. v < Version(feed, o)
    BY <1>5, <2>1, <2>3
  <2> QED BY <1>1, <2>2, <2>4 DEF SettledAt
<1> QED BY <1>1, <1>4, <1>5

LEMMA VersionsStay ==
  ASSUME VersionsAreReal, UNCHANGED <<field, feed, held, cursor>>
  PROVE  VersionsAreReal'
  BY DEF VersionsAreReal, Resumable, Is

\* A step that reads nothing, and ends the loop only in trouble or when nothing
\* is left.
LEMMA QuietKeeps ==
  ASSUME IInv, Continues, UNCHANGED <<held, partial>>,
         run'.stream.owed = run.stream.owed, run'.stream.buffer = run.stream.buffer,
         run'.stream.upto = run.stream.upto, run'.stream.token = run.stream.token,
         run'.stream.open => run.stream.open,
         run'.pc = "reading" => run'.stream.open = run.stream.open,
         run'.pc = "ending" /\ Pending # {} => Troubled'
  PROVE  VersionsAreReal' /\ Reading' /\ Settling'
<1>0. TypeOK /\ VersionsAreReal /\ Reading /\ Settling
  BY DEF IInv
<1>1. UNCHANGED <<field, feed, cursor, unseen>> /\ run.pc = "reading" /\ run'.pc # "idle"
      /\ run'.plan = run.plan
  BY DEF Continues
<1>2. VersionsAreReal' /\ Resumable' = Resumable /\ Pending' = Pending
      /\ Scope' = Scope /\ Scope \subseteq Objects
  BY <1>0, <1>1, VersionsStay, ScopeIs DEF Resumable, Pending, Scope, Windowed, Oddity, Is
<1>3. Reading'
  BY <1>0, <1>1, <1>2 DEF Reading, StreamIsTrue, OwedIsNew, BufferIsNew
<1>4. DoneIsSettled'
  <2> SUFFICES ASSUME run.plan = "delta", NEW o \in Scope \ (Pending \cup cut'), ~ Troubled'
               PROVE  SettledAt(o, run.stream.upto)'
    BY <1>1, <1>2 DEF DoneIsSettled
  <2>1. SettledAt(o, run.stream.upto)
    BY <1>0, <1>1 DEF Continues, CutStays, Settling, DoneIsSettled
  <2> QED BY <1>1, <2>1, SettledStays DEF SettledAt
<1>5. EndIsClean'
  BY <1>2 DEF EndIsClean
<1>6. LinkIsSettled'
  BY <1>0, LinkStays DEF Settling, VersionsAreReal
<1> QED BY <1>2, <1>3, <1>4, <1>5, <1>6 DEF Settling

\* A page brings what was owed, as it is now.
LEMMA ItemsAreNew ==
  ASSUME IInv, NEW o \in run.stream.owed, NEW item, item = ItemOf(feed, o)
  PROVE  /\ item \in Items /\ item.object = o /\ item.version \in 1 .. Len(feed)
         /\ feed[item.version] = [object |-> item.object, kind |-> item.kind]
         /\ item.version >= VersionAt(feed, o, run.stream.upto)
         /\ item.version >= held[o]
         /\ Resumable => item.version > cursor
<1>0. /\ TypeOK /\ VersionsAreReal /\ Reading /\ o \in Objects /\ Len(feed) \in Nat
      /\ \A i \in 1 .. Len(feed) : feed[i] \in Changes
  BY FeedIsTyped, RunIsTyped DEF IInv
<1>1. PICK v : v = Version(feed, o)
  OBVIOUS
<1>2. v \in 1 .. Len(feed) /\ feed[v].object = o /\ (Resumable => v > cursor)
      /\ \A i \in 1 .. Len(feed) : feed[i].object = o => i <= v
  <2>1. v > 0 /\ (Resumable => v > cursor)
    BY <1>0, <1>1 DEF Reading, OwedIsNew
  <2>2. /\ v \in 0 .. Len(feed) /\ (v > 0 => feed[v].object = o)
        /\ \A i \in 1 .. Len(feed) : feed[i].object = o => i <= v
    BY <1>0, <1>1, VersionIsLast DEF Version
  <2> QED BY <1>0, <2>1, <2>2
<1>3. item.object = o /\ item.version = v /\ item.kind = feed[v].kind
      /\ item = [object |-> o, version |-> v, kind |-> feed[v].kind]
  BY <1>1, <1>2 DEF ItemOf, KindAt
<1>4. feed[v] \in Changes
  BY <1>0, <1>2
<1>5. feed[v] = [object |-> o, kind |-> feed[v].kind] /\ feed[v].kind \in Kinds
  BY <1>2, <1>4 DEF Changes
<1>6. item \in Items
  BY <1>0, <1>2, <1>3, <1>5 DEF Items
<1>7. v >= VersionAt(feed, o, run.stream.upto)
  <2>1. PICK p : p = run.stream.upto
    OBVIOUS
  <2>2. p \in Nat /\ p <= Len(feed)
    BY <1>0, <2>1, RunIsTyped DEF Reading, StreamIsTrue
  <2>3. PICK w : w = VersionAt(feed, o, p)
    OBVIOUS
  <2>4. w \in 0 .. p /\ w <= VersionAt(feed, o, Len(feed))
    BY <1>0, <2>2, <2>3, VersionIsLast, VersionLasts
  <2> QED BY <1>1, <1>2, <2>1, <2>3, <2>4 DEF Version
<1>8. v >= held[o]
  <2>1. held[o] \in 0 .. Len(feed) /\ (held[o] > 0 => feed[held[o]].object = o)
    BY <1>0 DEF VersionsAreReal
  <2> QED BY <1>0, <1>2, <2>1
<1> QED BY <1>2, <1>3, <1>5, <1>6, <1>7, <1>8

LEMMA PageKeeps ==
  ASSUME IInv, Continues, UNCHANGED <<held, partial>>, run'.pc = "reading",
         run.stream.open, run.stream.buffer = {}, NEW page \in SUBSET run.stream.owed,
         run'.stream.owed = run.stream.owed \ page,
         run'.stream.buffer = {ItemOf(feed, o) : o \in page},
         run'.stream.upto = run.stream.upto,
         run'.stream.token \subseteq {run.stream.upto},
         run'.stream.open => run'.stream.token = {},
         ~ run'.stream.open => run'.stream.owed = {}
  PROVE  VersionsAreReal' /\ Reading' /\ Settling'
<1>0. TypeOK /\ VersionsAreReal /\ Reading /\ Settling
  BY DEF IInv
<1>1. UNCHANGED <<field, feed, cursor, unseen>> /\ run.pc = "reading" /\ run'.plan = run.plan
  BY DEF Continues
<1>a. \A o \in page : ItemOf(feed, o).object = o
  BY DEF ItemOf
<1>2. VersionsAreReal' /\ Resumable' = Resumable /\ Scope' = Scope /\ Scope \subseteq Objects
  BY <1>0, <1>1, VersionsStay, ScopeIs DEF Resumable, Scope, Windowed, Oddity, Is
<1>3. Pending' = Pending
  <2>1. {item.object : item \in {ItemOf(feed, o) : o \in page}} = page
    BY <1>a
  <2>2. {item.object : item \in run.stream.buffer} = {}
    OBVIOUS
  <2> QED BY <2>1, <2>2 DEF Pending
<1>4. StreamIsTrue'
  BY <1>0, <1>1, <1>2 DEF Reading, StreamIsTrue
<1>5. OwedIsNew'
  BY <1>0, <1>1, <1>2 DEF Reading, OwedIsNew
<1>6. BufferIsNew'
  <2> SUFFICES ASSUME NEW item \in run'.stream.buffer
               PROVE  /\ item.object \in Objects \ run'.stream.owed
                      /\ item.version \in 1 .. Len(feed)
                      /\ feed[item.version] = [object |-> item.object, kind |-> item.kind]
                      /\ item.version >= VersionAt(feed, item.object, run.stream.upto)
                      /\ item.version >= held[item.object]
                      /\ Resumable => item.version > cursor
                      /\ \A other \in run'.stream.buffer : other.object = item.object => other = item
    BY <1>1, <1>2 DEF BufferIsNew
  <2>0. PICK o \in page : item = ItemOf(feed, o)
    OBVIOUS
  <2>1. /\ item.object = o /\ item.version \in 1 .. Len(feed)
        /\ feed[item.version] = [object |-> item.object, kind |-> item.kind]
        /\ item.version >= VersionAt(feed, o, run.stream.upto)
        /\ item.version >= held[o]
        /\ Resumable => item.version > cursor
    BY <2>0, ItemsAreNew
  <2>2. o \in Objects
    BY <1>0, RunIsTyped
  <2>3. \A other \in run'.stream.buffer : other.object = item.object => other = item
    BY <1>a, <2>0
  <2> QED BY <2>1, <2>2, <2>3
<1>7. DoneIsSettled'
  <2> SUFFICES ASSUME run.plan = "delta", NEW o \in Scope \ (Pending \cup cut'), ~ Troubled'
               PROVE  SettledAt(o, run.stream.upto)'
    BY <1>1, <1>2, <1>3 DEF DoneIsSettled
  <2>1. SettledAt(o, run.stream.upto)
    BY <1>0, <1>1 DEF Continues, CutStays, Settling, DoneIsSettled
  <2> QED BY <1>1, <2>1, SettledStays DEF SettledAt
<1>8. EndIsClean'
  BY DEF EndIsClean
<1>9. LinkIsSettled'
  BY <1>0, LinkStays DEF Settling, VersionsAreReal
<1> QED BY <1>2, <1>4, <1>5, <1>6, <1>7, <1>8, <1>9 DEF Reading, Settling

\* What taking an item may come to, where the run can still adopt its link: the
\* item is held, or it is a message's and says nothing of a deletion.
Resolved(item) ==
  \/ /\ held'[item.object] = item.version
     /\ item.object \notin partial' \/ Is("contacts")
  \/ item.kind = "leave" \/ (item.kind = "put" /\ Is("mail") /\ ~ MessageMaps(item.object))

LEMMA ItemKeeps ==
  ASSUME IInv, Continues, NEW item \in run.stream.buffer,
         run'.stream.owed = run.stream.owed, run'.stream.buffer = run.stream.buffer \ {item},
         run'.stream.upto = run.stream.upto, run'.stream.token = run.stream.token,
         run'.stream.open = run.stream.open,
         held' \in {held, [held EXCEPT ![item.object] = item.version]},
         \A o \in Objects \ {item.object} : o \in partial' => o \in partial,
         Troubled' \/ Resolved(item) \/ item.object \in cut',
         run'.pc = "ending" => Troubled' \/ Pending' \subseteq cut'
  PROVE  VersionsAreReal' /\ Reading' /\ Settling'
<1>0. TypeOK /\ VersionsAreReal /\ Reading /\ Settling /\ held \in [Objects -> 0 .. MaxChanges]
      /\ Len(feed) \in Nat
  BY FeedIsTyped DEF IInv, TypeOK
<1>1. UNCHANGED <<field, feed, cursor, unseen>> /\ run.pc = "reading" /\ run'.plan = run.plan
  BY DEF Continues
<1>2. Resumable' = Resumable /\ Scope' = Scope /\ Scope \subseteq Objects
  BY <1>1, ScopeIs DEF Resumable, Scope, Windowed, Oddity, Is
<1> DEFINE x == item.object
           w == item.version
<1>3. /\ x \in Objects \ run.stream.owed /\ w \in 1 .. Len(feed)
      /\ feed[w] = [object |-> x, kind |-> item.kind]
      /\ w >= VersionAt(feed, x, run.stream.upto)
      /\ w >= held[x]
      /\ Resumable => w > cursor
      /\ \A other \in run.stream.buffer : other.object = x => other = item
  BY <1>0 DEF Reading, BufferIsNew
<1>4. /\ \A o \in Objects \ {x} : held'[o] = held[o]
      /\ held'[x] = held[x] \/ held'[x] = w
  BY <1>0, <1>3
<1>5. /\ Version(feed, x) \in Nat /\ w <= Version(feed, x)
  <2>1. Version(feed, x) \in Nat
    BY <1>0, FeedIsTyped
  <2>2. feed[w].object = x
    BY <1>3
  <2>3. PICK v : v = Version(feed, x)
    OBVIOUS
  <2>4. v = VersionAt(feed, x, Len(feed))
    BY <2>3 DEF Version
  <2>5. \A i \in 1 .. Len(feed) : feed[i].object = x => i <= v
    BY <1>0, <2>4, VersionIsLast
  <2> QED BY <1>3, <2>1, <2>2, <2>3, <2>5
<1>6. VersionsAreReal'
  <2>1. ASSUME NEW o \in Objects
        PROVE  held'[o] \in 0 .. Len(feed) /\ (held'[o] > 0 => feed[held'[o]].object = o)
    <3>1. held[o] \in 0 .. Len(feed) /\ (held[o] > 0 => feed[held[o]].object = o)
      BY <1>0 DEF VersionsAreReal
    <3>2. feed[w].object = x
      BY <1>3
    <3>3. CASE o # x
      BY <1>4, <3>1, <3>3
    <3>4. CASE o = x
      BY <1>3, <1>4, <3>1, <3>2, <3>4
    <3> QED BY <3>3, <3>4
  <2> QED BY <1>0, <1>1, <1>2, <2>1 DEF VersionsAreReal, Is
<1>7. StreamIsTrue' /\ OwedIsNew'
  BY <1>0, <1>1, <1>2 DEF Continues, Reading, StreamIsTrue, OwedIsNew
<1>8. BufferIsNew'
  <2> SUFFICES ASSUME NEW other \in run.stream.buffer \ {item}
               PROVE  /\ other.object \in Objects \ run.stream.owed
                      /\ other.version \in 1 .. Len(feed)
                      /\ feed[other.version] = [object |-> other.object, kind |-> other.kind]
                      /\ other.version >= VersionAt(feed, other.object, run.stream.upto)
                      /\ other.version >= held'[other.object]
                      /\ Resumable => other.version > cursor
                      /\ \A third \in run.stream.buffer \ {item} :
                           third.object = other.object => third = other
    BY <1>1, <1>2 DEF BufferIsNew
  <2>1. /\ other.object \in Objects \ run.stream.owed
        /\ other.version \in 1 .. Len(feed)
        /\ feed[other.version] = [object |-> other.object, kind |-> other.kind]
        /\ other.version >= VersionAt(feed, other.object, run.stream.upto)
        /\ other.version >= held[other.object]
        /\ Resumable => other.version > cursor
        /\ \A third \in run.stream.buffer : third.object = other.object => third = other
    BY <1>0 DEF Reading, BufferIsNew
  <2>2. other.object # x
    BY <1>3
  <2> QED BY <1>4, <2>1, <2>2
<1>9. \A o \in Objects : o \notin Pending' => o \notin Pending \/ o = x
  BY DEF Pending
<1>10. DoneIsSettled'
  <2> SUFFICES ASSUME run.plan = "delta", NEW o \in Scope \ (Pending' \cup cut'), ~ Troubled'
               PROVE  SettledAt(o, run.stream.upto)'
    BY <1>1, <1>2 DEF DoneIsSettled
  <2>1. CASE o # x
    <3>0. o \notin cut
      BY <1>2, <1>4, <2>1 DEF Continues, CutStays
    <3>1. SettledAt(o, run.stream.upto)
      BY <1>0, <1>1, <1>2, <1>9, <2>1, <3>0 DEF Continues, Settling, DoneIsSettled
    <3> QED BY <1>1, <1>2, <1>4, <2>1, <3>1, SettledStays DEF SettledAt
  <2>2. CASE o = x
    <3>1. PICK v : v = VersionAt(feed, x, run.stream.upto)
      OBVIOUS
    <3>2. v \in Nat /\ v <= w
      <4>1. run.stream.upto \in Nat
        BY <1>0, RunIsTyped
      <4> QED BY <1>3, <3>1, <4>1, VersionIsLast
    <3>3. CASE v # w
      <4>1. v < Version(feed, x)
        BY <1>3, <1>5, <3>2, <3>3
      <4> QED BY <1>1, <2>2, <3>1, <4>1 DEF SettledAt
    <3>4. CASE v = w
      <4>1. KindAt(feed, v) = item.kind
        BY <1>3, <3>4 DEF KindAt
      <4>2. held'[x] = v => (item.kind = "delete" => ~ Held(x)')
        BY <1>1, <4>1 DEF Held
      <4>3. Resolved(item)
        BY <2>2
      <4> QED BY <1>1, <2>2, <3>1, <3>4, <4>1, <4>2, <4>3
              DEF Resolved, SettledAt, MessageMaps, Oddity, Is
    <3> QED BY <3>3, <3>4
  <2> QED BY <2>1, <2>2
<1>11. EndIsClean'
  BY DEF EndIsClean
<1>12. LinkIsSettled'
  <2>1. \A o \in Objects : \/ held'[o] = held[o] /\ (o \in partial' => o \in partial)
                           \/ Resumable => Version(feed, o) > cursor
    <3>1. Resumable => Version(feed, x) > cursor
      BY <1>0, <1>3, <1>5, CursorIsTyped
    <3> QED BY <1>4, <3>1
  <2> QED BY <1>0, <2>1, LinkStays DEF Settling, VersionsAreReal
<1> QED BY <1>6, <1>7, <1>8, <1>10, <1>11, <1>12 DEF Reading, Settling

-----------------------------------------------------------------------------
(* The end of a run *)

\* The cursor it leaves, if any: the one before, none, or its own link.
LEMMA EndKeeps ==
  ASSUME IInv, run' = Idle, UNCHANGED <<field, feed, held, partial, unseen, cut>>,
         faults' \in 0 .. MaxFaults,
         \/ cursor' = cursor
         \/ cursor' = NoLink
         \/ run.pc = "ending" /\ Adopts /\ Good(run.out) /\ cursor' \in Link
  PROVE  IInv'
<1>0. TypeOK /\ VersionsAreReal /\ Reading /\ Settling /\ Len(feed) \in Nat
  BY FeedIsTyped DEF IInv
<1>1. /\ run'.pc = "idle" /\ run'.stream = NoStream /\ run'.out = NewEmitter /\ run'.staged = 0
      /\ run' = Idle /\ Idle \in Runs
  <2>1. NoStream \in Streams(MaxChanges)
    BY <1>0, FeedIsTyped, StreamAssumption DEF NoStream, Streams
  <2>2. NewEmitter \in Emitters /\ "Completed" \in Exits
    BY DEF NewEmitter, Emitters, Exits
  <2>3. Idle \in Runs
    BY <2>1, <2>2 DEF Idle, Runs
  <2> QED BY <2>3 DEF Idle
<1>3. /\ cursor' \in {NoCursor, NoLink} \cup 0 .. MaxChanges
      /\ Resumable' => cursor' \in 0 .. Len(feed)
  <2>1. CASE cursor' = cursor
    BY <1>0, <2>1 DEF TypeOK, VersionsAreReal, Resumable
  <2>2. CASE cursor' = NoLink
    BY <2>2 DEF Resumable
  <2>3. CASE cursor' \in Link /\ Adopts
    BY <1>0, <2>3, RunIsTyped DEF Link, Reading, StreamIsTrue
  <2> QED BY <2>1, <2>2, <2>3
<1>4. Resumable' => \A o \in Scope \ cut : SettledAt(o, cursor')
  <2>1. CASE cursor' = cursor
    BY <1>0, <2>1 DEF Settling, LinkIsSettled, Resumable
  <2>2. CASE cursor' = NoLink
    BY <2>2 DEF Resumable
  <2>3. CASE run.pc = "ending" /\ Adopts /\ Good(run.out) /\ cursor' \in Link
    <3>1. cursor' = run.stream.upto /\ \A o \in Scope \ cut : SettledAt(o, run.stream.upto)
      <4>1. cursor' = run.stream.upto
        BY <1>0, <2>3 DEF Link, Reading, StreamIsTrue
      <4>2. \A o \in Scope \ cut : SettledAt(o, run.stream.upto)
        <5> SUFFICES ASSUME NEW o \in Scope \ cut PROVE SettledAt(o, run.stream.upto)
          OBVIOUS
        <5>1. ~ Troubled
          BY <2>3 DEF Troubled, Adopts, Link
        <5>2. Pending \subseteq cut
          BY <1>0, <2>3, <5>1 DEF Settling, EndIsClean
        <5> QED BY <1>0, <2>3, <5>1, <5>2 DEF Settling, DoneIsSettled, Adopts
      <4> QED BY <4>1, <4>2
    <3> QED BY <3>1
  <2> QED BY <2>1, <2>2, <2>3
<1>5. TypeOK'
  BY <1>0, <1>1, <1>3 DEF TypeOK
<1>6. VersionsAreReal'
  BY <1>0, <1>3 DEF VersionsAreReal, Is
<1>7. Reading'
  <2>1. /\ NoStream.owed = {} /\ NoStream.buffer = {} /\ NoStream.token = {} /\ ~ NoStream.open
        /\ NoStream.upto = 0
    BY DEF NoStream
  <2> QED BY <1>0, <1>1, <2>1 DEF Reading, StreamIsTrue, OwedIsNew, BufferIsNew
<1>8. Scope' = Scope
  BY DEF Scope, Windowed, Oddity, Is
<1>9. LinkIsSettled'
  <2> SUFFICES ASSUME Resumable', NEW o \in Scope \ cut PROVE SettledAt(o, cursor)'
    BY <1>8 DEF LinkIsSettled
  <2>1. PICK p : p = cursor'
    OBVIOUS
  <2>2. SettledAt(o, p)
    BY <1>4, <2>1
  <2>3. SettledAt(o, p)'
    BY <2>2 DEF SettledAt, Held, MessageMaps, Oddity, Is
  <2> QED BY <2>1, <2>3 DEF SettledAt
<1>10. DoneIsSettled' /\ EndIsClean'
  BY <1>1 DEF DoneIsSettled, EndIsClean
<1>11. Emission'
  <2>1. Sane(NewEmitter) /\ ~ NewEmitter.rejected /\ ~ NewEmitter.refused
    BY DEF Sane, NewEmitter, Emitters
  <2>2. ~ (0 > field.limits.artifacts)
    BY <1>0, FieldIsTyped
  <2> QED BY <1>1, <2>1, <2>2 DEF Emission, RejectionsAreEarned, Is
<1> QED BY <1>5, <1>6, <1>7, <1>9, <1>10, <1>11 DEF IInv, Settling

-----------------------------------------------------------------------------
(* The steps of the loop that take nothing *)

LEMMA FaultsAreFew ==
  ASSUME TypeOK, Fault \/ UNCHANGED faults
  PROVE  faults' \in 0 .. MaxFaults
  BY FieldAssumption DEF TypeOK, Fault

LEMMA RunKeeps ==
  ASSUME TypeOK, run' \in Runs, UNCHANGED <<field, feed, cursor, unseen>>,
         held' \in [Objects -> 0 .. MaxChanges], partial' \subseteq Objects, cut' \subseteq Objects,
         faults' \in 0 .. MaxFaults
  PROVE  TypeOK'
  BY DEF TypeOK

\* A frame that stages nothing needs no new cause.
LEMMA EmissionStays ==
  ASSUME Emission, Emitted(run.out, run'.out), Is("mail") => run'.out.refused = run.out.refused,
         field' = field, run'.staged = run.staged
  PROVE  Emission'
  BY DEF Emission, RejectionsAreEarned, Emitted, Is

LEMMA EmittedAlike ==
  ASSUME NEW e, Sane(e)
  PROVE  Emitted(e, e)
  BY DEF Emitted

LEMMA StopKeeps ==
  ASSUME IInv, StopAtBound
  PROVE  IInv'
<1>0. TypeOK /\ Emission /\ run.pc = "reading" /\ run \in Runs
  BY DEF IInv, StopAtBound, TypeOK
<1>1. PICK t : t = IF Is("mail") THEN Diagnostic(run.out) ELSE run.out
  OBVIOUS
<1>2. Emitted(run.out, t) /\ (Is("mail") => t.refused = run.out.refused) /\ t \in Emitters
  <2>1. field.limits.diagnostics \in Nat /\ Sane(run.out)
    BY <1>0, FieldIsTyped DEF Emission
  <2> QED BY <1>1, <2>1, DiagnosticsAreEmitted, EmittedAlike DEF Emitted, Sane
<1>3. /\ run' = [run EXCEPT !.pc = "ending", !.had_error = @ \/ Is("contacts"),
                            !.exhausted = ~ Is("mail"), !.out = t]
      /\ LooksAtBoundFirst
      /\ UNCHANGED <<field, feed, held, partial, cursor, unseen, cut, faults>>
  BY <1>1 DEF StopAtBound, Stopped
<1>4. Is("mail") \in BOOLEAN /\ Is("contacts") \in BOOLEAN
  BY DEF Is
<1>5. run' \in Runs
  BY <1>0, <1>2, <1>3, <1>4 DEF Runs
<1>6. /\ run'.pc = "ending" /\ run'.plan = run.plan /\ run'.stream = run.stream
      /\ run'.had_error = (run.had_error \/ Is("contacts")) /\ run'.exhausted = ~ Is("mail")
      /\ run'.out = t /\ run'.staged = run.staged
  BY <1>0, <1>3 DEF Runs
<1>7. Troubled'
  <2>1. Is("mail") \/ Is("contacts")
    <3>1. field.name \in {"mail", "calendar", "contacts"}
      BY <1>0, FieldIsTyped
    <3> QED BY <1>3, <3>1 DEF LooksAtBoundFirst, Is
  <2> QED BY <1>6, <2>1 DEF Troubled
<1>8. Continues
  BY <1>0, <1>3, <1>6, <1>7, CutUnchanged DEF Continues
<1>9. VersionsAreReal' /\ Reading' /\ Settling'
  BY <1>3, <1>6, <1>7, <1>8, QuietKeeps
<1>10. TypeOK'
  BY <1>0, <1>3, <1>5 DEF TypeOK
<1>11. Emission'
  BY <1>0, <1>2, <1>3, <1>6, EmissionStays
<1> QED BY <1>9, <1>10, <1>11 DEF IInv

\* Both pages read as they say.
LEMMA PageFields ==
  ASSUME TypeOK, NEW page \in SUBSET run.stream.owed, NEW s,
         s = NextLink(run.stream, feed, page)
  PROVE  /\ s.owed = run.stream.owed \ page /\ s.buffer = {ItemOf(feed, o) : o \in page}
         /\ s.upto = run.stream.upto /\ s.token = run.stream.token
         /\ s.open = run.stream.open /\ s.attempt = 1 /\ s.delta = run.stream.delta
         /\ s = [owed |-> run.stream.owed \ page, upto |-> run.stream.upto,
                 delta |-> run.stream.delta, open |-> run.stream.open,
                 buffer |-> {ItemOf(feed, o) : o \in page}, token |-> run.stream.token,
                 attempt |-> 1]
<1>1. run.stream \in Streams(MaxChanges)
  BY RunIsTyped
<1>2. run.stream = [owed |-> run.stream.owed, upto |-> run.stream.upto,
                    delta |-> run.stream.delta, open |-> run.stream.open,
                    buffer |-> run.stream.buffer, token |-> run.stream.token,
                    attempt |-> run.stream.attempt]
  BY <1>1 DEF Streams
<1>3. s = [owed |-> run.stream.owed \ page, upto |-> run.stream.upto,
           delta |-> run.stream.delta, open |-> run.stream.open,
           buffer |-> {ItemOf(feed, o) : o \in page}, token |-> run.stream.token,
           attempt |-> 1]
  BY <1>2 DEF NextLink
<1> QED BY <1>3

LEMMA FetchKeeps ==
  ASSUME IInv, Fetch
  PROVE  IInv'
<1>0. /\ TypeOK /\ Emission /\ Reading /\ run.pc = "reading" /\ run \in Runs
      /\ run.stream.open /\ run.stream.buffer = {}
      /\ UNCHANGED <<field, feed, held, partial, cursor, unseen, cut>>
  BY DEF IInv, Fetch, MayFetch, NeedsPage, TypeOK
<1>f. faults' \in 0 .. MaxFaults
  BY <1>0, FaultsAreFew DEF Fetch
<1>t. run.stream.token = {}
  BY <1>0 DEF Reading, StreamIsTrue
<1> DEFINE Reads(page, s) ==
             /\ run' = [run EXCEPT !.stream = s]
             /\ s.owed = run.stream.owed \ page /\ s.buffer = {ItemOf(feed, o) : o \in page}
             /\ s.upto = run.stream.upto /\ s.token \subseteq {run.stream.upto}
             /\ s.open => s.token = {}
             /\ ~ s.open => s.owed = {}
<1>1. PICK page \in SUBSET run.stream.owed, s \in Streams(MaxChanges) : Reads(page, s)
  <2>0. /\ run.stream \in Streams(MaxChanges) /\ run.stream.upto \in 0 .. MaxChanges
        /\ run.stream.owed \subseteq Objects /\ run.stream.delta \in BOOLEAN
        /\ 1 \in 1 .. MaxAttempts
    BY <1>0, RunIsTyped, StreamAssumption
  <2>i. ASSUME NEW page \in SUBSET run.stream.owed
        PROVE  {ItemOf(feed, o) : o \in page} \in SUBSET Items
    <3>1. ASSUME NEW o \in page PROVE ItemOf(feed, o) \in Items
      BY ItemsAreNew
    <3> QED BY <3>1
  <2>1. ASSUME NEW page \in Pages(run.stream), run' = [run EXCEPT !.stream = NextLink(@, feed, page)]
        PROVE  \E p \in SUBSET run.stream.owed, s \in Streams(MaxChanges) : Reads(p, s)
    <3>1. PICK s : s = NextLink(run.stream, feed, page)
      OBVIOUS
    <3>2. page \in SUBSET run.stream.owed
      BY DEF Pages
    <3>3. /\ s.owed = run.stream.owed \ page /\ s.buffer = {ItemOf(feed, o) : o \in page}
          /\ s.upto = run.stream.upto /\ s.token = {} /\ s.open
          /\ s = [owed |-> run.stream.owed \ page, upto |-> run.stream.upto,
                  delta |-> run.stream.delta, open |-> run.stream.open,
                  buffer |-> {ItemOf(feed, o) : o \in page}, token |-> run.stream.token,
                  attempt |-> 1]
      BY <1>0, <1>t, <3>1, <3>2, PageFields
    <3>4. s \in Streams(MaxChanges)
      BY <1>0, <1>t, <2>0, <2>i, <3>2, <3>3 DEF Streams
    <3>5. run' = [run EXCEPT !.stream = s]
      BY <2>1, <3>1
    <3> QED BY <3>2, <3>3, <3>4, <3>5
  <2>2. ASSUME NEW links \in BOOLEAN, run' = [run EXCEPT !.stream = LastPage(@, feed, links)]
        PROVE  \E p \in SUBSET run.stream.owed, s \in Streams(MaxChanges) : Reads(p, s)
    <3>1. PICK n : n = NextLink(run.stream, feed, run.stream.owed)
      OBVIOUS
    <3>2. n = [owed |-> {}, upto |-> run.stream.upto,
               delta |-> run.stream.delta, open |-> run.stream.open,
               buffer |-> {ItemOf(feed, o) : o \in run.stream.owed}, token |-> run.stream.token,
               attempt |-> 1]
      <4>1. PICK page \in SUBSET run.stream.owed : page = run.stream.owed
        OBVIOUS
      <4>2. n = [owed |-> run.stream.owed \ page, upto |-> run.stream.upto,
                 delta |-> run.stream.delta, open |-> run.stream.open,
                 buffer |-> {ItemOf(feed, o) : o \in page}, token |-> run.stream.token,
                 attempt |-> 1]
        BY <1>0, <3>1, <4>1, PageFields
      <4> QED BY <4>1, <4>2
    <3>3. PICK token : token = IF n.delta /\ links THEN {n.upto} ELSE {}
      OBVIOUS
    <3>4. PICK s : s = LastPage(run.stream, feed, links)
      OBVIOUS
    <3>a. s = [n EXCEPT !.open = FALSE,
                        !.token = IF run.stream.delta /\ links THEN {run.stream.upto} ELSE {}]
      BY <3>1, <3>4 DEF LastPage
    <3>b. s = [n EXCEPT !.open = FALSE, !.token = token]
      BY <3>2, <3>3, <3>a
    <3>5. s = [owed |-> {}, upto |-> run.stream.upto,
               delta |-> run.stream.delta, open |-> FALSE,
               buffer |-> {ItemOf(feed, o) : o \in run.stream.owed}, token |-> token,
               attempt |-> 1]
      BY <3>2, <3>b
    <3>6. token \subseteq {run.stream.upto} /\ token \in SUBSET (0 .. MaxChanges)
      BY <2>0, <3>2, <3>3
    <3>7. s \in Streams(MaxChanges)
      BY <2>0, <2>i, <3>5, <3>6 DEF Streams
    <3>8. run' = [run EXCEPT !.stream = s]
      BY <2>2, <3>4
    <3>9. /\ s.owed = run.stream.owed \ run.stream.owed
          /\ s.buffer = {ItemOf(feed, o) : o \in run.stream.owed}
          /\ s.upto = run.stream.upto /\ s.token \subseteq {run.stream.upto} /\ ~ s.open
          /\ s.owed = {}
      BY <3>5, <3>6
    <3> QED BY <3>7, <3>8, <3>9
  <2> QED BY <2>1, <2>2 DEF Fetch
<1>2. /\ run'.pc = "reading" /\ run'.plan = run.plan /\ run'.stream = s
      /\ run'.had_error = run.had_error /\ run'.exhausted = run.exhausted
      /\ run'.out = run.out /\ run'.staged = run.staged /\ run' \in Runs
  BY <1>0, <1>1 DEF Runs
<1>3. Continues
  BY <1>0, <1>2, TroubleStays, CutUnchanged DEF Continues
<1>4. VersionsAreReal' /\ Reading' /\ Settling'
  BY <1>0, <1>1, <1>2, <1>3, PageKeeps
<1>5. TypeOK'
  BY <1>0, <1>f, <1>2 DEF TypeOK
<1>6. Emission'
  BY <1>0, <1>2, EmittedAlike, EmissionStays DEF Emission
<1> QED BY <1>4, <1>5, <1>6 DEF IInv

\* A call that is tried again stays on its page; one that is not ends the run in
\* trouble.
LEMMA FetchFailsKeeps ==
  ASSUME IInv, FetchFails
  PROVE  IInv'
<1>0. /\ TypeOK /\ Emission /\ Reading /\ run.pc = "reading" /\ run \in Runs
      /\ UNCHANGED <<field, feed, held, partial, cursor, unseen, cut>>
      /\ faults' \in 0 .. MaxFaults
  BY FaultsAreFew DEF IInv, FetchFails, MayFetch, TypeOK
<1>s. /\ run.stream \in Streams(MaxChanges) /\ run.stream.attempt \in 1 .. MaxAttempts
      /\ MaxAttempts \in Nat \ {0}
  BY <1>0, RunIsTyped, StreamAssumption
<1>1. PICK error \in GraphErrors :
        \/ CanRetry(run.stream, error) /\ run' = [run EXCEPT !.stream = Retried(@)]
        \/ run' = [run EXCEPT !.stream = Failed(@), !.pc = "ending"]
        \/ \E exit \in ExitsOf(error) :
             run' = [run EXCEPT !.stream = Failed(@), !.pc = "ending", !.had_error = TRUE,
                                !.exhausted = FALSE, !.exit = exit, !.out = Diagnostic(@)]
  BY DEF FetchFails
<1>2. ASSUME CanRetry(run.stream, error), run' = [run EXCEPT !.stream = Retried(@)]
      PROVE  IInv'
  <2>1. PICK s : s = Retried(run.stream)
    OBVIOUS
  <2>2. /\ s \in Streams(MaxChanges) /\ s.owed = run.stream.owed /\ s.buffer = run.stream.buffer
        /\ s.upto = run.stream.upto /\ s.token = run.stream.token /\ s.open = run.stream.open
    <3>1. run.stream.attempt + 1 \in 1 .. MaxAttempts
      BY <1>s, <1>2 DEF CanRetry
    <3> QED BY <1>s, <2>1, <3>1 DEF Retried, Streams
  <2>3. run' = [run EXCEPT !.stream = s]
    BY <1>2, <2>1
  <2>4. /\ run'.pc = "reading" /\ run'.plan = run.plan /\ run'.stream = s
        /\ run'.had_error = run.had_error /\ run'.exhausted = run.exhausted
        /\ run'.out = run.out /\ run'.staged = run.staged /\ run' \in Runs
    BY <1>0, <2>2, <2>3 DEF Runs
  <2>5. Continues
    BY <1>0, <2>4, TroubleStays, CutUnchanged DEF Continues
  <2>6. VersionsAreReal' /\ Reading' /\ Settling'
    BY <1>0, <2>2, <2>4, <2>5, QuietKeeps
  <2>7. TypeOK' /\ Emission'
    BY <1>0, <2>4, EmittedAlike, EmissionStays DEF TypeOK, Emission
  <2> QED BY <2>6, <2>7 DEF IInv
<1>3. ASSUME NEW exit \in ExitsOf(error),
             run' = [run EXCEPT !.stream = Failed(@), !.pc = "ending", !.had_error = TRUE,
                                !.exhausted = FALSE, !.exit = exit, !.out = Diagnostic(@)]
      PROVE  IInv'
  <2>1. PICK s : s = Failed(run.stream)
    OBVIOUS
  <2>2. /\ s \in Streams(MaxChanges) /\ s.owed = run.stream.owed /\ s.buffer = run.stream.buffer
        /\ s.upto = run.stream.upto /\ s.token = run.stream.token /\ ~ s.open
    <3>1. 1 \in 1 .. MaxAttempts
      BY <1>s
    <3> QED BY <1>s, <2>1, <3>1 DEF Failed, Streams
  <2>3. PICK t : t = Diagnostic(run.out)
    OBVIOUS
  <2>4. Emitted(run.out, t) /\ (Is("mail") => t.refused = run.out.refused) /\ t \in Emitters
    <3>1. field.limits.diagnostics \in Nat /\ Sane(run.out)
      BY <1>0, FieldIsTyped DEF Emission
    <3> QED BY <2>3, <3>1, DiagnosticsAreEmitted DEF Emitted, Sane
  <2>5. exit \in Exits
    <3>1. \/ exit \in {MailExit(error), CalendarExit(error)} \/ exit \in ContactsExits(error)
      BY DEF ExitsOf
    <3> QED BY <3>1 DEF GraphErrors, StatusErrors, MailExit, CalendarExit, ContactsExits,
                        SourceTrouble, Distrusted, Exits
  <2>6. run' = [run EXCEPT !.stream = s, !.pc = "ending", !.had_error = TRUE,
                           !.exhausted = FALSE, !.exit = exit, !.out = t]
    BY <1>3, <2>1, <2>3
  <2>7. /\ run'.pc = "ending" /\ run'.plan = run.plan /\ run'.stream = s /\ run'.had_error
        /\ run'.out = t /\ run'.staged = run.staged /\ run' \in Runs
    BY <1>0, <2>2, <2>4, <2>5, <2>6 DEF Runs
  <2>8. Troubled'
    BY <2>7 DEF Troubled
  <2>9. Continues
    BY <1>0, <2>7, <2>8, CutUnchanged DEF Continues
  <2>10. VersionsAreReal' /\ Reading' /\ Settling'
    BY <1>0, <2>2, <2>7, <2>8, <2>9, QuietKeeps
  <2>11. TypeOK' /\ Emission'
    BY <1>0, <2>4, <2>7, EmissionStays DEF TypeOK
  <2> QED BY <2>10, <2>11 DEF IInv
<1>4. ASSUME run' = [run EXCEPT !.stream = Failed(@), !.pc = "ending"]
      PROVE  IInv'
  <2>1. PICK s : s = Failed(run.stream)
    OBVIOUS
  <2>2. /\ s \in Streams(MaxChanges) /\ s.owed = run.stream.owed /\ s.buffer = run.stream.buffer
        /\ s.upto = run.stream.upto /\ s.token = run.stream.token /\ ~ s.open
    <3>1. 1 \in 1 .. MaxAttempts
      BY <1>s
    <3> QED BY <1>s, <2>1, <3>1 DEF Failed, Streams
  <2>3. run' = [run EXCEPT !.stream = s, !.pc = "ending"]
    BY <1>4, <2>1
  <2>4. /\ run'.pc = "ending" /\ run'.plan = run.plan /\ run'.stream = s
        /\ run'.had_error = run.had_error /\ run'.exhausted = run.exhausted
        /\ run'.out = run.out /\ run'.staged = run.staged /\ run' \in Runs
    BY <1>0, <2>2, <2>3 DEF Runs
  <2>5. run.stream.token = {}
    BY <1>0 DEF FetchFails, MayFetch, NeedsPage, Reading, StreamIsTrue
  <2>6. Troubled'
    BY <2>2, <2>4, <2>5 DEF Troubled
  <2>7. Continues
    BY <1>0, <2>4, <2>6, CutUnchanged DEF Continues
  <2>8. VersionsAreReal' /\ Reading' /\ Settling'
    BY <1>0, <2>2, <2>4, <2>6, <2>7, QuietKeeps
  <2>9. TypeOK' /\ Emission'
    BY <1>0, <2>4, EmittedAlike, EmissionStays DEF TypeOK, Emission
  <2> QED BY <2>8, <2>9 DEF IInv
<1> QED BY <1>1, <1>2, <1>3, <1>4

LEMMA SinkFailsKeeps ==
  ASSUME IInv, SinkFails
  PROVE  IInv'
<1>0. /\ TypeOK /\ Emission /\ run.pc = "reading" /\ run \in Runs
      /\ UNCHANGED <<field, feed, held, partial, cursor, unseen, cut>>
      /\ faults' \in 0 .. MaxFaults
  BY FaultsAreFew DEF IInv, SinkFails, TypeOK
<1>1. PICK t : t = WriteFails(run.out)
  OBVIOUS
<1>2. Emitted(run.out, t) /\ t.refused = run.out.refused /\ t \in Emitters /\ ~ Good(t)
  <2>1. Sane(run.out) /\ run.out \in Emitters
    BY <1>0 DEF Emission, Sane
  <2>2. t = [run.out EXCEPT !.write_failed = TRUE]
    BY <1>1 DEF WriteFails
  <2>3. /\ t \in Emitters /\ t.write_failed /\ t.seq = run.out.seq
        /\ t.last_seq = run.out.last_seq /\ t.refused = run.out.refused
        /\ t.rejected = run.out.rejected
    BY <2>1, <2>2 DEF Emitters
  <2> QED BY <2>1, <2>3 DEF Emitted, Sane, Good
<1>3. run' = [run EXCEPT !.out = t]
  BY <1>1 DEF SinkFails
<1>4. /\ run'.pc = "reading" /\ run'.plan = run.plan /\ run'.stream = run.stream
      /\ run'.out = t /\ run'.staged = run.staged /\ run' \in Runs
  BY <1>0, <1>2, <1>3 DEF Runs
<1>5. Continues
  BY <1>0, <1>2, <1>4, CutUnchanged DEF Continues, Troubled
<1>6. VersionsAreReal' /\ Reading' /\ Settling'
  BY <1>0, <1>4, <1>5, QuietKeeps
<1>7. TypeOK' /\ Emission'
  BY <1>0, <1>2, <1>4, EmissionStays DEF TypeOK
<1> QED BY <1>6, <1>7 DEF IInv

LEMMA EndOfStreamKeeps ==
  ASSUME IInv, EndOfStream
  PROVE  IInv'
<1>0. /\ TypeOK /\ Emission /\ Reading /\ run.pc = "reading" /\ run \in Runs
      /\ ~ run.stream.open /\ run.stream.buffer = {}
      /\ UNCHANGED <<field, feed, held, partial, cursor, unseen, cut, faults>>
  BY DEF IInv, EndOfStream, TypeOK, Exhausted
<1>1. run' = [run EXCEPT !.pc = "ending"]
  BY DEF EndOfStream
<1>2. /\ run'.pc = "ending" /\ run'.plan = run.plan /\ run'.stream = run.stream
      /\ run'.had_error = run.had_error /\ run'.exhausted = run.exhausted
      /\ run'.out = run.out /\ run'.staged = run.staged /\ run' \in Runs
  BY <1>0, <1>1 DEF Runs
<1>3. Pending = {}
  BY <1>0 DEF Pending, Reading, StreamIsTrue
<1>4. Continues
  BY <1>0, <1>2, TroubleStays, CutUnchanged DEF Continues
<1>5. VersionsAreReal' /\ Reading' /\ Settling'
  BY <1>0, <1>2, <1>3, <1>4, QuietKeeps
<1>6. TypeOK' /\ Emission'
  BY <1>0, <1>2, EmittedAlike, EmissionStays DEF TypeOK, Emission
<1> QED BY <1>5, <1>6 DEF IInv

\* Only a run whose frames core has all taken moves the cursor to its link.
LEMMA FinishKeeps ==
  ASSUME IInv, Finish
  PROVE  IInv'
<1>0. /\ TypeOK /\ Emission /\ run.pc = "ending" /\ run' = Idle
      /\ UNCHANGED <<field, feed, held, partial, unseen, cut, faults>>
      /\ Offer(EndNote, NextCursor)
  BY DEF IInv, Finish
<1>1. faults' \in 0 .. MaxFaults
  BY <1>0, FaultsAreFew
<1>2. CASE cursor' = cursor
  BY <1>0, <1>1, <1>2, EndKeeps
<1>3. CASE cursor' # cursor
  <2>1. cursor' = NextCursor /\ NextCursor # NoCursor /\ Taken(NextSeq(EndNote))
    BY <1>0, <1>3 DEF Offer
  <2>2. ASSUME Adopts PROVE Good(run.out) /\ cursor' \in Link
    <3>1. EndNote = run.out /\ NextCursor \in Link
      BY <2>2 DEF EndNote, NextCursor, Adopts
    <3>2. run.out \in Emitters
      BY <1>0, RunIsTyped
    <3>3. PICK n : n = NextSeq(run.out)
      OBVIOUS
    <3>4. /\ n.seq = run.out.seq + 1 /\ n.write_failed = run.out.write_failed
          /\ n.last_seq = run.out.last_seq /\ n.rejected = run.out.rejected
      BY <3>2, <3>3, NumberedFields
    <3>5. ~ n.write_failed /\ ~ n.rejected /\ n.seq = n.last_seq + 1
      BY <2>1, <3>1, <3>3 DEF Taken
    <3>6. run.out.seq \in Nat /\ run.out.last_seq \in Nat
      BY <3>2 DEF Emitters
    <3> QED BY <2>1, <3>1, <3>4, <3>5, <3>6 DEF Good
  <2>3. ASSUME ~ Adopts PROVE cursor' = NoLink
    BY <1>3, <2>1, <2>3 DEF NextCursor, Previous
  <2> QED BY <1>0, <1>1, <2>2, <2>3, EndKeeps
<1> QED BY <1>2, <1>3

LEMMA LongLinkKeeps ==
  ASSUME IInv, FinishWithLongLink
  PROVE  IInv'
<1>1. /\ run' = Idle /\ UNCHANGED <<field, feed, held, partial, unseen, cut>>
      /\ faults' \in 0 .. MaxFaults
  BY FaultsAreFew DEF IInv, FinishWithLongLink
<1>2. cursor' = cursor \/ cursor' = NoLink
  BY DEF FinishWithLongLink, Offer
<1> QED BY <1>1, <1>2, EndKeeps

LEMMA DieKeeps ==
  ASSUME IInv, Die
  PROVE  IInv'
<1>1. /\ run' = Idle /\ UNCHANGED <<field, feed, held, partial, cursor, unseen, cut>>
      /\ faults' \in 0 .. MaxFaults
  BY FaultsAreFew DEF IInv, Die
<1> QED BY <1>1, EndKeeps

\* Nothing but the number of faults changes.
LEMMA RestKeeps ==
  ASSUME IInv, UNCHANGED <<field, feed, held, partial, cursor, run, unseen, cut>>,
         Fault \/ UNCHANGED faults
  PROVE  IInv'
<1>1. TypeOK'
  BY FaultsAreFew DEF IInv, TypeOK
<1>2. VersionsAreReal'
  BY DEF IInv, VersionsAreReal, Resumable, Is
<1>3. Reading'
  BY DEF IInv, Reading, StreamIsTrue, OwedIsNew, BufferIsNew, Resumable
<1>4. Scope' = Scope /\ Pending' = Pending /\ Troubled' = Troubled /\ Resumable' = Resumable
  BY DEF Scope, Windowed, Oddity, Is, Pending, Troubled, Resumable
<1>6. Settling'
  <2>1. DoneIsSettled' /\ EndIsClean'
    BY <1>4 DEF IInv, Settling, DoneIsSettled, EndIsClean, SettledAt, Held, MessageMaps, Oddity, Is
  <2>2. LinkIsSettled'
    BY <1>4 DEF IInv, Settling, LinkIsSettled, SettledAt, Held, MessageMaps, Oddity, Is
  <2> QED BY <2>1, <2>2 DEF Settling
<1>7. Emission'
  BY DEF IInv, Emission, RejectionsAreEarned, Is
<1> QED BY <1>1, <1>2, <1>3, <1>6, <1>7 DEF IInv

-----------------------------------------------------------------------------
(* The steps of the loop that take an item *)

LEMMA PoppedFields ==
  ASSUME TypeOK, NEW item \in run.stream.buffer, NEW s, s = Popped(run.stream, item)
  PROVE  /\ s \in Streams(MaxChanges) /\ s.owed = run.stream.owed
         /\ s.buffer = run.stream.buffer \ {item} /\ s.upto = run.stream.upto
         /\ s.token = run.stream.token /\ s.open = run.stream.open
<1>1. run.stream \in Streams(MaxChanges)
  BY RunIsTyped
<1> QED BY <1>1 DEF Popped, Streams

\* A record that core accepts is taken, and within the budget.
LEMMA SentIsEmitted ==
  ASSUME NEW e, Sane(e), TypeOK, NEW staged \in Nat, NEW t, t = Sent(NextSeq(e), staged)
  PROVE  /\ Sane(t)
         /\ Good(t) => /\ Good(e) /\ RecordTaken(NextSeq(e), field.limits)
                       /\ ~ (staged > field.limits.artifacts)
         /\ e.refused => t.refused
         /\ t.rejected => e.rejected \/ e.refused \/ staged > field.limits.artifacts
         /\ e.records < field.limits.records => t.refused = e.refused
<1>1. PICK w : w = WriteRecord(NextSeq(e), field.limits)
  OBVIOUS
<1>2. field.limits.records \in Nat
  BY FieldIsTyped
<1>3. /\ Sane(w) /\ (Good(w) => Good(e)) /\ (e.refused => w.refused)
      /\ w.rejected => e.rejected \/ e.refused
      /\ e.records < field.limits.records => w.refused = e.refused
      /\ Good(w) => RecordTaken(NextSeq(e), field.limits)
  BY <1>1, <1>2, RecordIsEmitted DEF Emitted
<1>4. CASE staged > field.limits.artifacts /\ RecordTaken(NextSeq(e), field.limits)
  <2>1. t = [w EXCEPT !.rejected = TRUE]
    BY <1>1, <1>4 DEF Sent, Rejected
  <2>2. /\ t \in Emitters /\ t.seq = w.seq /\ t.last_seq = w.last_seq /\ t.refused = w.refused
        /\ t.rejected /\ t.write_failed = w.write_failed
    BY <1>3, <2>1 DEF Sane, Emitters
  <2>3. Sane(t) /\ ~ Good(t)
    BY <1>3, <2>2 DEF Sane, Good
  <2> QED BY <1>3, <1>4, <2>2, <2>3
<1>5. CASE ~ (staged > field.limits.artifacts /\ RecordTaken(NextSeq(e), field.limits))
  <2>1. t = w
    BY <1>1, <1>5 DEF Sent
  <2> QED BY <1>3, <1>5, <2>1
<1> QED BY <1>4, <1>5

\* What every step that takes an item has in common.
LEMMA TakenKeeps ==
  ASSUME IInv, run.pc = "reading", NEW item \in run.stream.buffer,
         NEW r \in Runs, run' = r, r.stream = Popped(run.stream, item),
         r.plan = run.plan, r.pc \in {"reading", "ending"},
         run.had_error => r.had_error, ~ run.exhausted => ~ r.exhausted,
         Good(r.out) => Good(run.out), CutStays,
         UNCHANGED <<field, feed, cursor, unseen>>, faults' \in 0 .. MaxFaults,
         held' \in {held, [held EXCEPT ![item.object] = item.version]},
         partial' \subseteq Objects,
         \A o \in Objects \ {item.object} : o \in partial' => o \in partial,
         Troubled' \/ Resolved(item) \/ item.object \in cut',
         r.pc = "ending" => Troubled' \/ Pending' \subseteq cut',
         Emission'
  PROVE  IInv'
<1>0. TypeOK /\ Reading
  BY DEF IInv
<1>1. PICK s : s = Popped(run.stream, item)
  OBVIOUS
<1>2. /\ s.owed = run.stream.owed /\ s.buffer = run.stream.buffer \ {item}
      /\ s.upto = run.stream.upto /\ s.token = run.stream.token /\ s.open = run.stream.open
  BY <1>0, <1>1, PoppedFields
<1>3. Continues
  BY TroubleStays DEF Continues
<1>4. VersionsAreReal' /\ Reading' /\ Settling'
  BY <1>1, <1>2, <1>3, ItemKeeps
<1>5. held' \in [Objects -> 0 .. MaxChanges]
  <2>1. item.object \in Objects /\ item.version \in 1 .. Len(feed)
    BY <1>0 DEF Reading, BufferIsNew
  <2>2. item.version \in 0 .. MaxChanges
    BY <1>0, <2>1, FeedIsTyped
  <2>3. held \in [Objects -> 0 .. MaxChanges]
    BY <1>0 DEF TypeOK
  <2> QED BY <2>1, <2>2, <2>3
<1>6. TypeOK'
  BY <1>0, <1>5, RunKeeps DEF CutStays
<1> QED BY <1>4, <1>6 DEF IInv

LEMMA DeliverKeeps ==
  ASSUME IInv, run.pc = "reading", NEW item \in run.stream.buffer, NEW attachment,
         attachment.staged \in Nat, Deliver(item, Popped(run.stream, item), attachment),
         UNCHANGED <<field, feed, cursor, unseen>>, CutStays, faults' \in 0 .. MaxFaults,
         Is("mail") => CanRecord(run.out, field.limits),
         attachment.missing => Is("contacts"),
         Is("mail") /\ attachment.staged > 0 /\ run.staged + attachment.staged > field.limits.artifacts
           => field.odd = "undeclared"
  PROVE  IInv'
<1>0. TypeOK /\ Emission /\ Reading /\ run \in Runs
  BY DEF IInv, TypeOK
<1>1. PICK s : s = Popped(run.stream, item)
  OBVIOUS
<1>2. PICK staged \in Nat : staged = run.staged + attachment.staged
  BY <1>0, RunIsTyped
<1>3. PICK sent : sent = Sent(NextSeq(run.out), staged)
  OBVIOUS
<1>4. PICK t : t = IF attachment.warns THEN Diagnostic(sent) ELSE sent
  OBVIOUS
<1>5. /\ Sane(sent)
      /\ Good(sent) => /\ Good(run.out) /\ RecordTaken(NextSeq(run.out), field.limits)
                       /\ ~ (staged > field.limits.artifacts)
      /\ run.out.refused => sent.refused
      /\ sent.rejected => run.out.rejected \/ run.out.refused \/ staged > field.limits.artifacts
      /\ run.out.records < field.limits.records => sent.refused = run.out.refused
  BY <1>0, <1>3, SentIsEmitted DEF Emission
<1>6. Emitted(sent, t) /\ (Is("mail") => t.refused = sent.refused)
  BY <1>0, <1>4, <1>5, DiagnosticsAreEmitted, EmittedAlike, FieldIsTyped
<1>7. t \in Emitters
  BY <1>6 DEF Emitted, Sane
<1>8. s \in Streams(MaxChanges)
  BY <1>0, <1>1, PoppedFields
<1>9. run' = [run EXCEPT !.stream = s, !.staged = staged, !.out = t]
  BY <1>1, <1>2, <1>3, <1>4 DEF Deliver
<1>10. /\ run' \in Runs /\ run'.stream = s /\ run'.plan = run.plan /\ run'.pc = "reading"
       /\ run'.had_error = run.had_error /\ run'.exhausted = run.exhausted
       /\ run'.out = t /\ run'.staged = staged
  BY <1>0, <1>7, <1>8, <1>9 DEF Runs
<1>11. IF RecordTaken(NextSeq(run.out), field.limits) /\ ~ (staged > field.limits.artifacts)
         THEN /\ held' = [held EXCEPT ![item.object] = item.version]
              /\ partial' = IF attachment.missing THEN partial \cup {item.object}
                            ELSE partial \ {item.object}
         ELSE held' = held /\ partial' = partial
  BY <1>2 DEF Deliver, Sends
<1>12. Good(t) => Good(sent)
  BY <1>6 DEF Emitted
<1>13. Troubled' \/ Resolved(item)
  <2>1. CASE Good(t)
    <3>1. /\ held' = [held EXCEPT ![item.object] = item.version]
          /\ ~ Is("contacts") => partial' = partial \ {item.object}
      BY <1>5, <1>11, <1>12, <2>1
    <3>2. item.object \in Objects /\ held \in [Objects -> 0 .. MaxChanges]
      BY <1>0 DEF Reading, BufferIsNew, TypeOK
    <3> QED BY <3>1, <3>2 DEF Resolved
  <2>2. CASE ~ Good(t)
    BY <1>10, <2>2 DEF Troubled
  <2> QED BY <2>1, <2>2
<1>14. Emission'
  <2>1. Is("mail") => ~ run.out.refused /\ ~ t.refused /\ field.odd \in Oddities
    <3>1. CanRecord(run.out, field.limits) => run.out.records < field.limits.records
      BY DEF CanRecord
    <3> QED BY <1>0, <1>5, <1>6, <3>1, FieldIsTyped DEF Emission, RejectionsAreEarned
  <2>2. Is("mail") /\ staged > field.limits.artifacts => field.odd = "undeclared"
    <3>1. CASE attachment.staged > 0
      BY <1>2, <3>1
    <3>2. CASE ~ (attachment.staged > 0)
      <4>1. staged = run.staged
        BY <1>0, <1>2, <3>2, RunIsTyped
      <4> QED BY <1>0, <4>1 DEF Emission
    <3> QED BY <3>1, <3>2
  <2>3. run.staged > field.limits.artifacts => staged > field.limits.artifacts
    <3>1. run.staged \in Nat /\ field.limits.artifacts \in Nat
      BY <1>0, RunIsTyped, FieldIsTyped
    <3> QED BY <1>2, <3>1
  <2>4. t.rejected => t.refused \/ staged > field.limits.artifacts
    <3>1. t.rejected => sent.rejected \/ sent.refused
      BY <1>6 DEF Emitted
    <3>2. run.out.refused => t.refused
      BY <1>5, <1>6 DEF Emitted
    <3>3. sent.refused => t.refused
      BY <1>6 DEF Emitted
    <3>4. run.out.rejected => run.out.refused \/ run.staged > field.limits.artifacts
      BY <1>0 DEF Emission, RejectionsAreEarned
    <3> QED BY <1>5, <2>3, <3>1, <3>2, <3>3, <3>4
  <2>5. Is("mail") /\ t.rejected => field.odd = "undeclared"
    BY <2>1, <2>2, <2>4
  <2>6. Sane(t)
    BY <1>6 DEF Emitted
  <2> QED BY <1>10, <2>1, <2>2, <2>4, <2>5, <2>6 DEF Emission, RejectionsAreEarned, Is
<1>15. partial' \subseteq Objects /\ \A o \in Objects \ {item.object} : o \in partial' => o \in partial
  <2>1. partial' \in {partial, partial \cup {item.object}, partial \ {item.object}}
    BY <1>11
  <2>2. item.object \in Objects /\ partial \subseteq Objects
    BY <1>0 DEF Reading, BufferIsNew, TypeOK
  <2> QED BY <2>1, <2>2
<1>16. held' \in {held, [held EXCEPT ![item.object] = item.version]}
  BY <1>11
<1> QED BY <1>0, <1>1, <1>5, <1>10, <1>12, <1>13, <1>14, <1>15, <1>16, TakenKeeps

\* An item that is not delivered: the frame in its place is of no object.
LEMMA PassOverKeeps ==
  ASSUME IInv, run.pc = "reading", NEW item \in run.stream.buffer,
         NEW r \in Runs, run' = r, r.stream = Popped(run.stream, item), r.pc = "reading",
         r.plan = run.plan, run.had_error => r.had_error, r.exhausted = run.exhausted,
         r.staged = run.staged, Emitted(run.out, r.out),
         Is("mail") => r.out.refused = run.out.refused,
         UNCHANGED <<field, feed, cursor, unseen>>, CutStays, faults' \in 0 .. MaxFaults,
         held' \in {held, [held EXCEPT ![item.object] = item.version]},
         partial' \subseteq Objects,
         \A o \in Objects \ {item.object} : o \in partial' => o \in partial,
         r.had_error \/ Resolved(item)
  PROVE  IInv'
<1>1. Emission'
  BY EmissionStays DEF IInv
<1>2. Troubled' \/ Resolved(item)
  BY DEF Troubled
<1>3. Good(r.out) => Good(run.out)
  BY DEF Emitted
<1> QED BY <1>1, <1>2, <1>3, TakenKeeps

LEMMA RefuseKeeps ==
  ASSUME IInv, run.pc = "reading", NEW item \in run.stream.buffer, NEW freezes \in BOOLEAN,
         Refuse(Popped(run.stream, item), freezes),
         UNCHANGED <<field, feed, cursor, unseen, faults>>, CutStays,
         Is("mail") => CanRecord(run.out, field.limits),
         freezes \/ Resolved(item)
  PROVE  IInv'
<1>0. TypeOK /\ Emission /\ run \in Runs /\ faults' \in 0 .. MaxFaults /\ run.had_error \in BOOLEAN
  BY FaultsAreFew, RunIsTyped DEF IInv, TypeOK
<1>1. PICK s : s = Popped(run.stream, item)
  OBVIOUS
<1>2. PICK t : t = WriteDiagnostic(NextSeq(run.out), field.limits)
  OBVIOUS
<1>3. Emitted(run.out, t) /\ t \in Emitters
      /\ (run.out.diagnostics < field.limits.diagnostics => t.refused = run.out.refused)
  <2>1. Sane(run.out) /\ field.limits.diagnostics \in Nat
    BY <1>0, FieldIsTyped DEF Emission
  <2> QED BY <1>2, <2>1, DiagnosticIsEmitted DEF Emitted, Sane
<1>4. Is("mail") => t.refused = run.out.refused
  BY <1>3 DEF CanRecord
<1>5. run' = [run EXCEPT !.stream = s, !.had_error = @ \/ freezes, !.out = t]
      /\ UNCHANGED <<held, partial>>
  BY <1>1, <1>2 DEF Refuse
<1>6. s \in Streams(MaxChanges)
  BY <1>0, <1>1, PoppedFields
<1>7. /\ run' \in Runs /\ run'.stream = s /\ run'.plan = run.plan /\ run'.pc = "reading"
      /\ run'.had_error = (run.had_error \/ freezes) /\ run'.exhausted = run.exhausted
      /\ run'.out = t /\ run'.staged = run.staged
  BY <1>0, <1>3, <1>5, <1>6 DEF Runs
<1>8. partial \subseteq Objects
  BY <1>0 DEF TypeOK
<1> QED BY <1>0, <1>1, <1>3, <1>4, <1>5, <1>7, <1>8, PassOverKeeps

\* A message that only left the folder.
LEMMA LeaveKeeps ==
  ASSUME IInv, run.pc = "reading", NEW item \in run.stream.buffer, item.kind = "leave",
         run' = [run EXCEPT !.stream = Popped(run.stream, item), !.out = Diagnostic(@)],
         UNCHANGED <<field, feed, held, partial, cursor, unseen, faults>>, CutStays
  PROVE  IInv'
<1>0. TypeOK /\ Emission /\ run \in Runs /\ faults' \in 0 .. MaxFaults
  BY FaultsAreFew DEF IInv, TypeOK
<1>1. PICK s : s = Popped(run.stream, item)
  OBVIOUS
<1>2. PICK t : t = Diagnostic(run.out)
  OBVIOUS
<1>3. Emitted(run.out, t) /\ t \in Emitters /\ (Is("mail") => t.refused = run.out.refused)
  <2>1. Sane(run.out) /\ field.limits.diagnostics \in Nat
    BY <1>0, FieldIsTyped DEF Emission
  <2> QED BY <1>2, <2>1, DiagnosticsAreEmitted DEF Emitted, Sane
<1>4. run' = [run EXCEPT !.stream = s, !.out = t]
  BY <1>1, <1>2
<1>5. s \in Streams(MaxChanges)
  BY <1>0, <1>1, PoppedFields
<1>6. /\ run' \in Runs /\ run'.stream = s /\ run'.plan = run.plan /\ run'.pc = "reading"
      /\ run'.had_error = run.had_error /\ run'.exhausted = run.exhausted
      /\ run'.out = t /\ run'.staged = run.staged
  BY <1>0, <1>3, <1>4, <1>5 DEF Runs
<1>7. partial \subseteq Objects /\ Resolved(item)
  BY <1>0 DEF TypeOK, Resolved
<1> QED BY <1>0, <1>1, <1>3, <1>6, <1>7, PassOverKeeps

\* A calendar run that its bound stops: with the token of the page, it loses what
\* is left of it.
LEMMA CutKeeps ==
  ASSUME IInv, run.pc = "reading", NEW item \in run.stream.buffer, NEW s,
         s = Popped(run.stream, item), run' = [run EXCEPT !.stream = s, !.pc = "ending"],
         cut' = (IF s.token = {} \/ run.had_error THEN cut
                 ELSE cut \cup {i.object : i \in run.stream.buffer}),
         UNCHANGED <<field, feed, held, partial, cursor, unseen, faults>>
  PROVE  IInv'
<1>0. /\ TypeOK /\ Emission /\ Reading /\ run \in Runs /\ faults' \in 0 .. MaxFaults
      /\ cut \subseteq Objects
  BY FaultsAreFew DEF IInv, TypeOK
<1>1. s \in Streams(MaxChanges) /\ s.owed = run.stream.owed /\ s.token = run.stream.token
      /\ s.buffer = run.stream.buffer \ {item}
  BY <1>0, PoppedFields
<1>2. /\ run' \in Runs /\ run'.stream = s /\ run'.plan = run.plan /\ run'.pc = "ending"
      /\ run'.had_error = run.had_error /\ run'.exhausted = run.exhausted
      /\ run'.out = run.out /\ run'.staged = run.staged
  BY <1>0, <1>1 DEF Runs
<1>3. \/ Troubled'
      \/ item.object \in cut' /\ Pending' \subseteq cut'
  <2>1. CASE s.token = {} \/ run.had_error
    BY <1>2, <2>1 DEF Troubled
  <2>2. CASE s.token # {} /\ ~ run.had_error
    <3>1. run.stream.owed = {}
      BY <1>0, <1>1, <2>2 DEF Reading, StreamIsTrue
    <3>2. Pending' = {i.object : i \in run.stream.buffer \ {item}}
      BY <1>1, <1>2, <3>1 DEF Pending
    <3> QED BY <2>2, <3>2
  <2> QED BY <2>1, <2>2
<1>4. Emission'
  BY <1>0, <1>2, EmittedAlike, EmissionStays DEF Emission
<1>5. partial \subseteq Objects
  BY <1>0 DEF TypeOK
<1>6. CutStays
  <2>1. \A i \in run.stream.buffer : i.object \in Objects
    BY <1>0 DEF Reading, BufferIsNew
  <2> QED BY <1>0, <2>1 DEF CutStays
<1> QED BY <1>0, <1>2, <1>3, <1>4, <1>5, <1>6, TakenKeeps

\* A message taken without its attachments: the run is in trouble.
LEMMA InPartKeeps ==
  ASSUME IInv, TakeMessageInPart
  PROVE  IInv'
<1>0. /\ TypeOK /\ Emission /\ run \in Runs /\ faults' \in 0 .. MaxFaults /\ Is("mail")
      /\ run.pc = "reading" /\ ~ AtBound
      /\ UNCHANGED <<field, feed, cursor, unseen, cut>>
  BY FaultsAreFew DEF IInv, TakeMessageInPart, TypeOK
<1>1. PICK item \in run.stream.buffer, error \in GraphErrors \ {"InvalidRequest"} :
        /\ run' = AttachmentFailure(WriteRecord(NextSeq(run.out), field.limits),
                                    Popped(run.stream, item), error)
        /\ held' = IF Taken(NextSeq(run.out)) THEN [held EXCEPT ![item.object] = item.version]
                   ELSE held
        /\ partial' = IF Taken(NextSeq(run.out)) THEN partial \cup {item.object} ELSE partial
  BY DEF TakeMessageInPart
<1>2. PICK w : w = WriteRecord(NextSeq(run.out), field.limits)
  OBVIOUS
<1>3. PICK t : t = Diagnostic(w)
  OBVIOUS
<1>4. PICK s : s = Popped(run.stream, item)
  OBVIOUS
<1>5. Emitted(run.out, w) /\ w.refused = run.out.refused
  <2>1. Sane(run.out) /\ field.limits.records \in Nat
    BY <1>0, FieldIsTyped DEF Emission
  <2>2. run.out.records < field.limits.records
    BY <1>0 DEF AtBound, CanRecord
  <2> QED BY <1>2, <2>1, <2>2, RecordIsEmitted
<1>6. Emitted(w, t) /\ t.refused = w.refused
  <2>1. Sane(w) /\ field.limits.diagnostics \in Nat
    BY <1>0, <1>5, FieldIsTyped DEF Emitted
  <2> QED BY <1>0, <1>3, <2>1, DiagnosticsAreEmitted
<1>7. Emitted(run.out, t) /\ t.refused = run.out.refused /\ t \in Emitters
  BY <1>5, <1>6, EmittedAgain DEF Emitted, Sane
<1>8. MailExit(error) \in Exits /\ run.exit \in Exits
  <2>1. MailExit(error) \in Exits
    BY DEF GraphErrors, StatusErrors, MailExit, SourceTrouble, Distrusted, Exits
  <2> QED BY <1>0, <2>1 DEF Runs
<1>9. PICK exit \in Exits : exit = IF run.exit = "Completed" THEN MailExit(error) ELSE run.exit
  BY <1>8
<1>10. s \in Streams(MaxChanges)
  BY <1>0, <1>4, PoppedFields
<1>11. PICK q : q = [run EXCEPT !.stream = s, !.out = t]
  OBVIOUS
<1>12. q.exit = run.exit /\ q \in Runs
  BY <1>0, <1>7, <1>10, <1>11 DEF Runs
<1>13. run' = [q EXCEPT !.had_error = TRUE, !.exit = exit]
  <2>1. run' = Fail(q, MailExit(error))
    BY <1>1, <1>2, <1>3, <1>4, <1>11 DEF AttachmentFailure
  <2> QED BY <1>9, <1>12, <2>1 DEF Fail
<1>14. run' = [run EXCEPT !.stream = s, !.out = t, !.had_error = TRUE, !.exit = exit]
  BY <1>11, <1>13
<1>15. /\ run' \in Runs /\ run'.stream = s /\ run'.plan = run.plan /\ run'.pc = "reading"
       /\ run'.had_error /\ run'.exhausted = run.exhausted
       /\ run'.out = t /\ run'.staged = run.staged
  BY <1>0, <1>7, <1>10, <1>14 DEF Runs
<1>16. /\ partial' \subseteq Objects
       /\ \A o \in Objects \ {item.object} : o \in partial' => o \in partial
       /\ held' \in {held, [held EXCEPT ![item.object] = item.version]}
  <2>1. item.object \in Objects /\ partial \subseteq Objects
    BY DEF IInv, TypeOK, Reading, BufferIsNew
  <2>2. held' \in {held, [held EXCEPT ![item.object] = item.version]}
    BY <1>1
  <2>3. partial' \in {partial, partial \cup {item.object}}
    BY <1>1
  <2> QED BY <2>1, <2>2, <2>3
<1> QED BY <1>0, <1>4, <1>7, <1>15, <1>16, CutUnchanged, PassOverKeeps

\* A contact taken without its photo.
LEMMA WithoutPhotoKeeps ==
  ASSUME IInv, TakeContactWithoutPhoto
  PROVE  IInv'
<1>0. /\ TypeOK /\ faults' \in 0 .. MaxFaults /\ Is("contacts") /\ ~ Is("mail")
      /\ run.pc = "reading" /\ UNCHANGED <<field, feed, cursor, unseen, cut>>
  BY FaultsAreFew DEF IInv, TakeContactWithoutPhoto, Is
<1>1. PICK item \in run.stream.buffer :
        Deliver(item, Popped(run.stream, item), PhotoMissed(item.object))
  BY DEF TakeContactWithoutPhoto
<1>2. PICK attachment : attachment = PhotoMissed(item.object)
  OBVIOUS
<1>3. attachment.staged = 0
  BY <1>2 DEF PhotoMissed
<1> QED BY <1>0, <1>1, <1>2, <1>3, CutUnchanged, DeliverKeeps

LEMMA TakeItemKeeps ==
  ASSUME IInv, TakeItem
  PROVE  IInv'
<1>0. /\ TypeOK /\ run.pc = "reading" /\ (LooksAtBoundFirst => ~ AtBound)
      /\ UNCHANGED <<field, feed, cursor, unseen, faults>>
  BY DEF IInv, TakeItem
<1>1. PICK item \in run.stream.buffer :
        LET s == Popped(run.stream, item)
        IN  IF AtBound
            THEN /\ run' = [run EXCEPT !.stream = s, !.pc = "ending"]
                 /\ cut' = (IF s.token = {} \/ run.had_error THEN cut
                            ELSE cut \cup {i.object : i \in run.stream.buffer})
                 /\ UNCHANGED <<held, partial>>
            ELSE /\ \/ Is("mail") /\ TakeMessage(item, s)
                    \/ Is("calendar") /\ TakeEvent(item, s)
                    \/ Is("contacts") /\ TakeContact(item, s)
                 /\ cut' = {o \in cut : held'[o] = held[o]}
  BY DEF TakeItem
<1>2. PICK s : s = Popped(run.stream, item)
  OBVIOUS
<1>3. CASE AtBound
  BY <1>0, <1>1, <1>2, <1>3, CutKeeps
<1>4. CASE ~ AtBound
  <2>0. Is("mail") => CanRecord(run.out, field.limits)
    BY <1>4 DEF AtBound
  <2>c. CutStays /\ faults' \in 0 .. MaxFaults
    <3>1. cut' = {o \in cut : held'[o] = held[o]} /\ cut \subseteq Objects
      BY <1>0, <1>1, <1>4 DEF TypeOK
    <3>2. CutStays
      BY <3>1 DEF CutStays
    <3> QED BY <1>0, <3>2, FaultsAreFew
  <2>n. NoAttachment.staged = 0 /\ ~ (0 > 0) /\ 0 \in Nat /\ NoAttachment.missing = FALSE
    BY DEF NoAttachment
  <2>1. ASSUME Is("mail"), TakeMessage(item, s)
        PROVE  IInv'
    <3>1. CASE item.kind = "delete"
      <4>1. Deliver(item, s, NoAttachment)
        BY <2>1, <3>1 DEF TakeMessage, IsAuthoritativeDeletion
      <4> QED BY <1>0, <1>2, <2>0, <2>c, <2>n, <4>1, DeliverKeeps
    <3>2. CASE item.kind \notin {"put", "delete"}
      <4>1. run' = [run EXCEPT !.stream = s, !.out = Diagnostic(@)] /\ UNCHANGED <<held, partial>>
        BY <2>1, <3>2 DEF TakeMessage, IsAuthoritativeDeletion
      <4>2. item.kind = "leave"
        <5>1. item \in Items
          BY <1>0, RunIsTyped
        <5> QED BY <3>2, <5>1 DEF Items, Kinds
      <4> QED BY <1>0, <1>2, <2>0, <2>c, <4>1, <4>2, LeaveKeeps
    <3>3. CASE item.kind = "put" /\ MessageMaps(item.object)
      <4>1. PICK attachment : attachment = MessageAttachment(item.object)
        OBVIOUS
      <4>2. Deliver(item, s, attachment)
        BY <2>1, <3>3, <4>1 DEF TakeMessage
      <4>3. attachment.staged \in {0, 1} /\ attachment.missing = FALSE
            /\ (attachment.staged > 0 => Retains(item.object) /\ Oddity(item.object) # "unreadable")
        BY <4>1 DEF MessageAttachment
      <4>4. attachment.staged > 0 /\ run.staged + attachment.staged > field.limits.artifacts
              => field.odd = "undeclared"
        <5> SUFFICES ASSUME attachment.staged > 0,
                            run.staged + attachment.staged > field.limits.artifacts
                     PROVE  field.odd = "undeclared"
          OBVIOUS
        <5>1. run.staged \in Nat /\ field.limits.artifacts \in Nat
          BY <1>0, RunIsTyped, FieldIsTyped
        <5>2. ~ (run.staged < field.limits.artifacts)
          BY <4>3, <5>1
        <5>3. Oddity(item.object) = "undeclared"
          BY <4>3, <5>2 DEF Retains
        <5> QED BY <5>3 DEF Oddity
      <4> QED BY <1>0, <1>2, <2>0, <2>c, <4>2, <4>3, <4>4, DeliverKeeps
    <3>4. CASE item.kind = "put" /\ ~ MessageMaps(item.object)
      <4>1. Refuse(s, FALSE)
        BY <2>1, <3>4 DEF TakeMessage
      <4>2. Resolved(item)
        BY <2>1, <3>4 DEF Resolved
      <4> QED BY <1>0, <1>2, <2>0, <2>c, <4>1, <4>2, RefuseKeeps
    <3> QED BY <3>1, <3>2, <3>3, <3>4
  <2>2. ASSUME Is("calendar"), TakeEvent(item, s)
        PROVE  IInv'
    <3>1. ~ Is("mail")
      BY <2>2 DEF Is
    <3>2. CASE Refuse(s, TRUE)
      BY <1>0, <1>2, <2>0, <2>c, <3>2, RefuseKeeps
    <3>3. CASE Deliver(item, s, NoAttachment)
      BY <1>0, <1>2, <2>0, <2>c, <2>n, <3>1, <3>3, DeliverKeeps
    <3> QED BY <2>2, <3>2, <3>3 DEF TakeEvent
  <2>3. ASSUME Is("contacts"), TakeContact(item, s)
        PROVE  IInv'
    <3>1. ~ Is("mail")
      BY <2>3 DEF Is
    <3>2. CASE Refuse(s, TRUE)
      BY <1>0, <1>2, <2>0, <2>c, <3>2, RefuseKeeps
    <3>3. CASE Deliver(item, s, NoAttachment)
      BY <1>0, <1>2, <2>0, <2>c, <2>n, <3>1, <3>3, DeliverKeeps
    <3>4. CASE Deliver(item, s, Photo(item.object))
      <4>1. PICK attachment : attachment = Photo(item.object)
        OBVIOUS
      <4>2. attachment.staged \in Nat /\ attachment.missing = FALSE
        BY <4>1 DEF Photo
      <4> QED BY <1>0, <1>2, <2>0, <2>c, <3>1, <3>4, <4>1, <4>2, DeliverKeeps
    <3> QED BY <2>3, <3>2, <3>3, <3>4 DEF TakeContact
  <2> QED BY <1>1, <1>2, <1>4, <2>1, <2>2, <2>3
<1> QED BY <1>3, <1>4

-----------------------------------------------------------------------------
(* The theorems *)

LEMMA InitKeeps ==
  ASSUME Init
  PROVE  IInv
<1>1. /\ field \in FieldTypes /\ feed = <<>> /\ held = [o \in Objects |-> 0] /\ partial = {}
      /\ cursor = NoCursor /\ run = Idle /\ unseen = {} /\ cut = {} /\ faults = 0
  BY DEF Init
<1>2. MaxChanges \in Nat /\ MaxFaults \in Nat /\ MaxAttempts \in Nat \ {0} /\ ~ Resumable
  BY <1>1, FieldAssumption, StreamAssumption DEF Resumable
<1>3. Idle \in Runs
  <2>1. NoStream \in Streams(MaxChanges)
    BY <1>2 DEF NoStream, Streams
  <2>2. NewEmitter \in Emitters /\ "Completed" \in Exits
    BY DEF NewEmitter, Emitters, Exits
  <2> QED BY <2>1, <2>2 DEF Idle, Runs
<1>4. TypeOK
  <2>1. feed \in Seq(Changes) /\ Len(feed) = 0
    BY <1>1
  <2>2. 0 \in 0 .. MaxChanges /\ 0 \in 0 .. MaxFaults /\ Len(feed) <= MaxChanges
    BY <1>2, <2>1
  <2>3. held \in [Objects -> 0 .. MaxChanges] /\ partial \subseteq Objects /\ unseen \subseteq Objects
    BY <1>1, <2>2
  <2>4. cursor \in {NoCursor, NoLink} \cup 0 .. MaxChanges
    BY <1>1
  <2>5. cut \subseteq Objects /\ faults \in 0 .. MaxFaults
    BY <1>1, <2>2
  <2> QED BY <1>1, <1>3, <2>1, <2>2, <2>3, <2>4, <2>5 DEF TypeOK
<1>5. VersionsAreReal
  BY <1>1, <1>2 DEF VersionsAreReal
<1>6. /\ run.pc = "idle" /\ run.stream = NoStream /\ run.out = NewEmitter /\ run.staged = 0
  BY <1>1 DEF Idle
<1>7. Reading
  <2>1. /\ NoStream.owed = {} /\ NoStream.buffer = {} /\ NoStream.token = {} /\ ~ NoStream.open
        /\ NoStream.upto = 0
    BY DEF NoStream
  <2> QED BY <1>1, <1>6, <2>1 DEF Reading, StreamIsTrue, OwedIsNew, BufferIsNew
<1>8. Settling
  BY <1>2, <1>6 DEF Settling, DoneIsSettled, EndIsClean, LinkIsSettled
<1>9. Emission
  <2>1. Sane(NewEmitter) /\ ~ NewEmitter.rejected /\ ~ NewEmitter.refused
    BY DEF Sane, NewEmitter, Emitters
  <2>2. ~ (0 > field.limits.artifacts)
    BY <1>4, FieldIsTyped
  <2> QED BY <1>6, <2>1, <2>2 DEF Emission, RejectionsAreEarned
<1> QED BY <1>4, <1>5, <1>7, <1>8, <1>9 DEF IInv

LEMMA NextKeeps ==
  ASSUME IInv, [Next]_vars
  PROVE  IInv'
<1>1. ASSUME NEW o \in Objects, NEW kind \in Kinds, Change(o, kind) PROVE IInv'
  BY <1>1, ChangeKeeps
<1>2. CASE Begin
  BY <1>2, BeginKeeps
<1>3. CASE StopAtBound
  BY <1>3, StopKeeps
<1>4. CASE Fetch
  BY <1>4, FetchKeeps
<1>5. CASE TakeItem
  BY <1>5, TakeItemKeeps
<1>6. CASE EndOfStream
  BY <1>6, EndOfStreamKeeps
<1>7. CASE Finish
  BY <1>7, FinishKeeps
<1>8. CASE RefuseToStart
  BY <1>8, RestKeeps DEF RefuseToStart
<1>9. CASE FetchFails
  BY <1>9, FetchFailsKeeps
<1>10. CASE TakeMessageInPart
  BY <1>10, InPartKeeps
<1>11. CASE SinkFails
  BY <1>11, SinkFailsKeeps
<1>12. CASE FinishWithLongLink
  BY <1>12, LongLinkKeeps
<1>13. CASE Die
  BY <1>13, DieKeeps
<1>14. CASE TakeContactWithoutPhoto
  BY <1>14, WithoutPhotoKeeps
<1>15. CASE UNCHANGED vars
  BY <1>15, RestKeeps DEF vars
<1> QED BY <1>1, <1>2, <1>3, <1>4, <1>5, <1>6, <1>7, <1>8, <1>9, <1>10, <1>11, <1>12, <1>13, <1>14, <1>15
        DEF Next, FieldStep

LEMMA InvariantHolds == Spec => []IInv
<1>1. Init => IInv
  BY InitKeeps
<1>2. IInv /\ [Next]_vars => IInv'
  BY NextKeeps
<1> QED BY <1>1, <1>2, PTL DEF Spec

\* Every variable keeps its type.
THEOREM TypeCorrect == Spec => []TypeOK
<1>1. IInv => TypeOK
  BY DEF IInv
<1> QED BY <1>1, InvariantHolds, PTL

\* The delta link a Field has stored covers nothing that core does not hold
\* (cursor.rs of each Field), but for what a bound left unread of a calendar's
\* last page: the run that offers the link has settled all the rest.
THEOREM LinkNeverLeadsAlways == Spec => []LinkNeverLeads
<1>1. IInv => LinkNeverLeads
  BY DEF IInv, Settling, LinkIsSettled, SettledAt, LinkNeverLeads, LinkCovers
<1> QED BY <1>1, InvariantHolds, PTL

\* A deletion that the stored link covers has reached core, unless the object
\* has changed since, was left unread so, or was gone before an initial
\* enumeration.
THEOREM DeletionsAreReportedAlways == Spec => []DeletionsAreReported
<1>1. IInv => DeletionsAreReported
  BY DEF IInv, Settling, LinkIsSettled, SettledAt, DeletionsAreReported
<1> QED BY <1>1, InvariantHolds, PTL

\* Core rejects a run only for a frame whose number was wasted or for what was
\* staged, and a mail run only for an attachment whose size is not stated.
THEOREM RejectionsAreEarnedAlways == Spec => []RejectionsAreEarned
<1>1. IInv => RejectionsAreEarned
  BY DEF IInv, Emission
<1> QED BY <1>1, InvariantHolds, PTL

-----------------------------------------------------------------------------
(* What removes *)

\* What is held changes only to an item that was read; a mail Field delivers no
\* leave, and no other Field is told of one.
LEMMA HoldingIsOfItems ==
  ASSUME IInv, [Next]_vars, NEW o \in Objects, held'[o] # held[o]
  PROVE  /\ feed' = feed /\ held'[o] \in 1 .. Len(feed) /\ held'[o] >= held[o]
         /\ feed[held'[o]].kind \in {"put", "delete"}
<1>0. /\ TypeOK /\ VersionsAreReal /\ Reading /\ held \in [Objects -> 0 .. MaxChanges]
  BY DEF IInv, TypeOK
<1>1. PICK item \in run.stream.buffer :
        /\ feed' = feed /\ item.kind # "leave"
        /\ held' = [held EXCEPT ![item.object] = item.version]
  <2>1. CASE TakeItem
    <3>1. feed' = feed
      BY <2>1 DEF TakeItem
    <3>2. PICK item \in run.stream.buffer :
            \/ Is("mail") /\ TakeMessage(item, Popped(run.stream, item))
            \/ ~ Is("mail") /\ \E attachment : Deliver(item, Popped(run.stream, item), attachment)
      <4>1. PICK item \in run.stream.buffer :
              \/ UNCHANGED held
              \/ Is("mail") /\ TakeMessage(item, Popped(run.stream, item))
              \/ Is("calendar") /\ TakeEvent(item, Popped(run.stream, item))
              \/ Is("contacts") /\ TakeContact(item, Popped(run.stream, item))
        BY <2>1 DEF TakeItem
      <4>2. Is("calendar") \/ Is("contacts") => ~ Is("mail")
        BY DEF Is
      <4>3. \A freezes : Refuse(Popped(run.stream, item), freezes) => UNCHANGED held
        BY DEF Refuse
      <4> QED BY <4>1, <4>2, <4>3 DEF TakeEvent, TakeContact
    <3>3. PICK attachment : Deliver(item, Popped(run.stream, item), attachment)
      BY <3>2 DEF TakeMessage, Refuse
    <3>4. item.kind # "leave"
      <4>1. CASE Is("mail")
        <5>1. item.kind = "leave" => UNCHANGED held
          BY <3>2, <4>1 DEF TakeMessage, IsAuthoritativeDeletion
        <5> QED BY <5>1
      <4>2. CASE ~ Is("mail")
        <5>1. item.version \in 1 .. Len(feed)
              /\ feed[item.version] = [object |-> item.object, kind |-> item.kind]
          BY <1>0 DEF Reading, BufferIsNew
        <5> QED BY <1>0, <4>2, <5>1 DEF VersionsAreReal
      <4> QED BY <4>1, <4>2
    <3>5. held' = [held EXCEPT ![item.object] = item.version]
      BY <3>3 DEF Deliver, Sends
    <3> QED BY <3>1, <3>4, <3>5
  <2>2. CASE TakeMessageInPart
    BY <2>2 DEF TakeMessageInPart
  <2>5. CASE TakeContactWithoutPhoto
    BY <2>5 DEF TakeContactWithoutPhoto, Deliver, Sends
  <2>3. ASSUME NEW x \in Objects, NEW kind \in Kinds, Change(x, kind) PROVE UNCHANGED held
    BY <2>3 DEF Change
  <2>4. Begin \/ StopAtBound \/ Fetch \/ EndOfStream \/ Finish \/ RefuseToStart \/ FetchFails
          \/ SinkFails \/ FinishWithLongLink \/ Die \/ UNCHANGED vars => UNCHANGED held
    BY DEF Begin, StopAtBound, Fetch, EndOfStream, Finish, RefuseToStart, FetchFails, SinkFails,
           FinishWithLongLink, Die, vars
  <2> QED BY <2>1, <2>2, <2>3, <2>4, <2>5 DEF Next, FieldStep
<1>2. /\ item.object \in Objects /\ item.version \in 1 .. Len(feed)
      /\ feed[item.version] = [object |-> item.object, kind |-> item.kind]
      /\ item.version >= held[item.object]
      /\ item.kind \in Kinds
  <2>1. item \in Items
    BY <1>0, RunIsTyped
  <2> QED BY <1>0, <2>1 DEF Reading, BufferIsNew, Items
<1>3. o = item.object /\ held'[o] = item.version
  BY <1>0, <1>1, <1>2
<1> QED BY <1>1, <1>2, <1>3 DEF Kinds

\* The Notes of an object go only on a deletion of the object itself.
THEOREM OnlyDeletionsRemoveAlways == Spec => OnlyDeletionsRemove
<1> DEFINE Removes == \A o \in Objects :
             Held(o) /\ KindAt(feed', held'[o]) # "put"
               => feed[held'[o]].kind = "delete" /\ held'[o] > held[o]
<1>1. IInv /\ [Next]_vars => [Removes]_vars
  <2> SUFFICES ASSUME IInv, [Next]_vars, NEW o \in Objects, Held(o),
                      KindAt(feed', held'[o]) # "put"
               PROVE  feed[held'[o]].kind = "delete" /\ held'[o] > held[o]
    OBVIOUS
  <2>0. TypeOK /\ held[o] \in 0 .. Len(feed) /\ Len(feed) \in Nat
    BY FeedIsTyped DEF IInv, VersionsAreReal
  <2>1. CASE held'[o] = held[o]
    <3>1. KindAt(feed', held[o]) = KindAt(feed, held[o])
      <4>1. ASSUME NEW x \in Objects, NEW kind \in Kinds, Change(x, kind)
            PROVE  KindAt(feed', held[o]) = KindAt(feed, held[o])
        BY <2>0, <4>1, ChangeOfFeed
      <4>2. Begin \/ StopAtBound \/ Fetch \/ TakeItem \/ EndOfStream \/ Finish \/ RefuseToStart
              \/ FetchFails \/ TakeMessageInPart \/ TakeContactWithoutPhoto \/ SinkFails
              \/ FinishWithLongLink \/ Die \/ UNCHANGED vars => UNCHANGED feed
        BY DEF Begin, StopAtBound, Fetch, TakeItem, EndOfStream, Finish, RefuseToStart, FetchFails,
               TakeMessageInPart, TakeContactWithoutPhoto, SinkFails, FinishWithLongLink, Die, vars
      <4> QED BY <4>1, <4>2 DEF Next, FieldStep
    <3> QED BY <2>1, <3>1 DEF Held
  <2>2. CASE held'[o] # held[o]
    <3>1. /\ feed' = feed /\ held'[o] \in 1 .. Len(feed) /\ held'[o] >= held[o]
          /\ feed[held'[o]].kind \in {"put", "delete"}
      BY <2>2, HoldingIsOfItems
    <3>2. KindAt(feed', held'[o]) = feed[held'[o]].kind
      BY <3>1 DEF KindAt
    <3> QED BY <2>0, <2>2, <3>1, <3>2
  <2> QED BY <2>1, <2>2
<1> QED BY <1>1, InvariantHolds, PTL DEF Spec, OnlyDeletionsRemove
=============================================================================
