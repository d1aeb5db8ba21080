-------------------------- MODULE LocalFieldProofs --------------------------
(***************************************************************************)
(* What the local Field's watermark promises, for every set of paths, every *)
(* limit and every bound on time, contents and faults, provided one run has *)
(* room for every path under the root.  The run local_bound shows that the  *)
(* proviso is needed.                                                       *)
(***************************************************************************)
EXTENDS LocalField, TLAPS, FiniteSetTheorems, WellFoundedInduction

\* limits.max_run_records does not cut a run short.
RoomForAll == Cardinality(Files) <= MaxRunRecords

(***************************************************************************)
(* The inductive invariant.                                                *)
(***************************************************************************)
\* An offered token fits, as the committed one does.
OfferFits ==
    /\ Cardinality(run.offer.at_high_water) <= MaxListed
    /\ run.offer.wide => run.offer.at_high_water = {}

\* Nothing is from the future: times, contents and what core holds of them.
NothingIsAhead ==
    /\ cursor.high_water <= now
    /\ run.offer.high_water <= now
    /\ \A f \in Files : /\ file[f].modified <= now
                        /\ held[f] <= file[f].version
                        /\ Exists(f) => file[f].version > 0
    /\ \A f \in DOMAIN run.entries : run.entries[f] <= file[f].modified

\* A token lists no path that changed last before its watermark.
Listed(c) == \A f \in c.at_high_water : c.high_water <= file[f].modified

\* What a walk has left behind it, it has seen as it still is.
WalkIsTrue ==
    run.pc = "walking" =>
        /\ run.asserted = {}
        /\ ~run.trouble =>
              \A f \in Files : Exists(f) /\ f \notin raced =>
                  \/ f \in run.pending
                  \/ f \in DOMAIN run.entries /\ run.entries[f] = file[f].modified

\* A file that changed after the walk, at or after everything the walk saw.
ChangedSince(f) ==
    /\ Missing(f)
    /\ f \in DOMAIN run.entries => run.entries[f] < file[f].modified
    /\ \A g \in DOMAIN run.entries : run.entries[g] <= file[f].modified

\* What a run still owes is due in it, or has changed since.
DebtIsKnown ==
    run.pc = "sending" =>
        /\ run.due \cap run.asserted = {}
        /\ ~run.trouble =>
              \A f \in Files :
                  /\ Exists(f) /\ f \notin raced
                  /\ Missing(f) \/ (run.mode = "snapshot" /\ f \notin run.asserted)
                  => f \in run.due \/ ChangedSince(f)

\* What the offered token settles, core holds, and a sweep leaves it.
OfferIsTrue ==
    run.pc = "offered" =>
        \A f \in Files :
            /\ Exists(f) /\ f \notin raced
            /\ Missing(f) \/ (run.complete /\ f \notin run.asserted)
            => IsDue(run.offer, f, file[f].modified)

SettledInv ==
    /\ TypeOK /\ OfferFits /\ NothingIsAhead
    /\ Listed(cursor) /\ Listed(run.offer)
    /\ WalkIsTrue /\ DebtIsKnown /\ OfferIsTrue
    /\ SettledFilesAreHeld

\* A path a run that may claim completeness has lost sight of was absent.
AbsenceIsSeen ==
    /\ run.pc = "walking" /\ ~run.trouble =>
          Files \subseteq run.pending \cup DOMAIN run.entries \cup absent
    /\ run.pc = "sending" /\ ~run.trouble /\ run.mode = "snapshot" =>
          Files \subseteq run.due \cup run.asserted \cup absent
    /\ run.pc = "offered" /\ run.complete => Files \subseteq run.asserted \cup absent

GoneInv == SettledInv /\ AbsenceIsSeen

-----------------------------------------------------------------------------
(* Least and greatest *)

LEMMA LeastIn ==
  ASSUME NEW S \in SUBSET Nat, S # {}
  PROVE  Min(S) \in S /\ \A y \in S : Min(S) <= y
<1>1. \E x \in S : \A y \in S : ~ (<<y, x>> \in OpToRel(<, Nat))
  BY WFMin, NatLessThanWellFounded
<1>2. PICK x \in S : \A y \in S : ~ (y < x)
  BY <1>1 DEF OpToRel
<1>3. \A y \in S : x <= y
  BY <1>2
<1>4. \E z \in S : \A y \in S : z <= y
  BY <1>3
<1> QED BY <1>4 DEF Min

LEMMA GreatestIn ==
  ASSUME NEW n \in Nat, NEW S \in SUBSET (0 .. n), S # {}
  PROVE  Max(S) \in S /\ \A y \in S : Max(S) >= y
<1> DEFINE Distances == {n - x : x \in S}
<1>a. \A x \in S : x \in Nat /\ n - x \in Nat
  OBVIOUS
<1>1. Distances \in SUBSET Nat /\ Distances # {}
  BY <1>a
<1>2. PICK d \in Distances : \A e \in Distances : d <= e
  <2> HIDE DEF Distances
  <2> QED BY <1>1, LeastIn
<1>3. PICK x \in S : d = n - x
  BY <1>2
<1>4. ASSUME NEW y \in S PROVE x >= y
  BY <1>2, <1>3, <1>a
<1>5. \E z \in S : \A y \in S : z >= y
  BY <1>4
<1> QED BY <1>5 DEF Max

-----------------------------------------------------------------------------
(* The cursor *)

\* Encoding only drops the list: the token fits and forgets no debt.
LEMMA EncodedIsSafe ==
  ASSUME NEW c \in Cursors
  PROVE  /\ Encoded(c) \in Cursors
         /\ Encoded(c).high_water = c.high_water
         /\ Encoded(c).at_high_water \subseteq c.at_high_water
         /\ Cardinality(Encoded(c).at_high_water) <= MaxListed
         /\ Encoded(c).wide => Encoded(c).at_high_water = {}
         /\ \A f, m : IsDue(c, f, m) => IsDue(Encoded(c), f, m)
<1>1. IsFiniteSet(c.at_high_water) /\ Cardinality(c.at_high_water) \in Nat
  BY FilesAssumption, FS_Subset, FS_CardinalityType DEF Cursors
<1>2. Cardinality({}) = 0 /\ MaxListed \in Nat
  BY FS_EmptySet, BoundsAssumption
<1>3. Widened(c) \in Cursors /\ Widened(c).at_high_water = {} /\ Widened(c).wide
      /\ Widened(c).high_water = c.high_water
      /\ \A f, m : IsDue(c, f, m) => IsDue(Widened(c), f, m)
  BY DEF Widened, Cursors, IsDue
<1>4. CASE c.wide \/ Cardinality(c.at_high_water) > MaxListed
  <2>1. Encoded(c) = Widened(c)
    BY <1>4 DEF Encoded
  <2> QED BY <1>2, <1>3, <2>1
<1>5. CASE ~ (c.wide \/ Cardinality(c.at_high_water) > MaxListed)
  BY <1>1, <1>2, <1>5 DEF Encoded
<1> QED BY <1>4, <1>5

LEMMA WideningIsSafe ==
  ASSUME NEW c \in Cursors
  PROVE  /\ WidenIfNeeded(c) \in Cursors
         /\ WidenIfNeeded(c).high_water = c.high_water
         /\ WidenIfNeeded(c).at_high_water \subseteq c.at_high_water
         /\ \A f, m : IsDue(c, f, m) => IsDue(WidenIfNeeded(c), f, m)
BY DEF WidenIfNeeded, Widened, Cursors, IsDue

\* Advancing never moves back, lists only what it saw or had listed at exactly
\* the watermark, and keeps due a file that is newer than all it saw.
LEMMA AdvancingIsSafe ==
  ASSUME NEW c \in Cursors, NEW S \in SUBSET Files, NEW entries \in [S -> 0 .. MaxTime]
  PROVE  LET advanced == AdvanceCursor(c, entries) IN
         /\ advanced \in Cursors
         /\ advanced.high_water = c.high_water
               \/ \E f \in S : advanced.high_water = entries[f]
         /\ \A f \in advanced.at_high_water :
               \/ f \in c.at_high_water /\ advanced.high_water = c.high_water
               \/ f \in S /\ advanced.high_water = entries[f]
         /\ \A f \in Files, m \in 0 .. MaxTime :
               /\ IsDue(c, f, m)
               /\ f \in S => entries[f] < m
               /\ \A g \in S : entries[g] <= m
               => IsDue(advanced, f, m)
<1> DEFINE advanced == AdvanceCursor(c, entries)
           latest == Max({entries[f] : f \in S})
           atLatest == {f \in S : entries[f] = latest}
           joined == [c EXCEPT !.at_high_water = @ \cup atLatest]
           fresh == [high_water |-> latest, at_high_water |-> atLatest, wide |-> FALSE]
<1>0. MaxTime \in Nat /\ DOMAIN entries = S
  BY BoundsAssumption
<1>1. CASE S = {}
  <2>1. advanced = c
    BY <1>0, <1>1 DEF AdvanceCursor
  <2> QED BY <2>1
<1>2. CASE S # {}
  <2>1. {entries[f] : f \in S} \in SUBSET (0 .. MaxTime) /\ {entries[f] : f \in S} # {}
    BY <1>2
  <2>2. latest \in {entries[f] : f \in S} /\ \A y \in {entries[f] : f \in S} : latest >= y
    BY <2>1, <1>0, GreatestIn
  <2>3. PICK top \in S : entries[top] = latest
    BY <2>2
  <2>4. latest \in 0 .. MaxTime /\ \A f \in S : entries[f] <= latest
    BY <2>1, <2>2
  <2>5. advanced = IF latest < c.high_water THEN c
                   ELSE IF latest = c.high_water THEN WidenIfNeeded(joined)
                   ELSE WidenIfNeeded(fresh)
    BY <1>0, <1>2 DEF AdvanceCursor
  <2>6. joined \in Cursors /\ fresh \in Cursors
    BY <2>4 DEF Cursors
  <2>7. c.high_water \in 0 .. MaxTime
    BY DEF Cursors
  <2>8. ASSUME NEW f \in Files, NEW m \in 0 .. MaxTime, IsDue(c, f, m),
               f \in S => entries[f] < m, \A g \in S : entries[g] <= m
        PROVE  /\ latest = c.high_water => IsDue(joined, f, m)
               /\ latest > c.high_water => IsDue(fresh, f, m)
    <3>1. m >= latest
      BY <2>3, <2>8
    <3>2. m = latest => f \notin atLatest
      BY <2>8, <2>4, <1>0
    <3> QED BY <3>1, <3>2, <2>8, <2>4, <2>7 DEF IsDue, Cursors
  <2> HIDE DEF latest, advanced
  <2>9. CASE latest < c.high_water
    <3>1. advanced = c
      BY <2>5, <2>9
    <3> QED BY <3>1 DEF advanced
  <2>10. CASE latest = c.high_water
    <3>1. advanced = WidenIfNeeded(joined)
      BY <2>5, <2>10, <2>7
    <3>2. joined.high_water = latest /\ joined.at_high_water = c.at_high_water \cup atLatest
      BY <2>10 DEF Cursors
    <3> HIDE DEF joined
    <3> QED BY <3>1, <3>2, <2>6, <2>8, <2>10, <2>3, WideningIsSafe DEF advanced
  <2>11. CASE latest > c.high_water
    <3>1. advanced = WidenIfNeeded(fresh)
      BY <2>5, <2>11, <2>7, <2>4
    <3>2. fresh.high_water = latest /\ fresh.at_high_water = atLatest
      OBVIOUS
    <3> HIDE DEF fresh
    <3> QED BY <3>1, <3>2, <2>6, <2>8, <2>11, <2>3, WideningIsSafe DEF advanced
  <2> QED BY <2>9, <2>10, <2>11, <2>4, <2>7
<1> QED BY <1>1, <1>2

-----------------------------------------------------------------------------
(* The steps of a walk, flattened *)

Examined(f) ==
  \/ /\ Exists(f)
     /\ run' = [run EXCEPT !.pending = @ \ {f},
                           !.entries = [g \in DOMAIN run.entries \cup {f} |->
                              IF g = f THEN file[f].modified ELSE run.entries[g]]]
  \/ run' = [run EXCEPT !.pending = @ \ {f}, !.trouble = TRUE]

\* A walk examines one listed path: it sees it, or it is in trouble.
LEMMA ExamineEffect ==
  ASSUME run \in Runs, Examine
  PROVE  \E f \in run.pending : Examined(f)
<1> DEFINE f == Min(run.pending)
           listed == [run EXCEPT !.pending = @ \ {f}]
           seen == [g \in DOMAIN run.entries \cup {f} |->
                       IF g = f THEN file[f].modified ELSE run.entries[g]]
<1>1. f \in run.pending
  BY LeastIn, FilesAssumption DEF Examine, Runs
<1>2. \/ /\ Exists(f)
         /\ run' = [listed EXCEPT
                       !.entries = [g \in DOMAIN listed.entries \cup {f} |->
                          IF g = f THEN file[f].modified ELSE listed.entries[g]]]
      \/ run' = [listed EXCEPT !.trouble = TRUE]
  BY DEF Examine
<1> HIDE DEF f
<1>3. listed.entries = run.entries
  BY DEF Runs
<1>4. [listed EXCEPT !.entries = seen] = [run EXCEPT !.pending = @ \ {f}, !.entries = seen]
  BY DEF Runs
<1>5. [listed EXCEPT !.trouble = TRUE] = [run EXCEPT !.pending = @ \ {f}, !.trouble = TRUE]
  BY DEF Runs
<1> HIDE DEF listed
<1>6. Examined(f)
  BY <1>2, <1>3, <1>4, <1>5 DEF Examined
<1> QED BY <1>1, <1>6

Sent(f) ==
  /\ Exists(f)
  /\ run' = [run EXCEPT !.due = @ \ {f}, !.asserted = @ \cup {f}]
  /\ held' = [held EXCEPT ![f] = file[f].version]
  /\ raced' = raced \ {f}

\* A run sends one due file as it is now.
LEMMA SendEffect ==
  ASSUME run \in Runs, SendRecord
  PROVE  \E f \in run.due : Sent(f)
<1>1. Min(run.due) \in run.due
  BY LeastIn, FilesAssumption DEF SendRecord, Runs
<1>2. Sent(Min(run.due))
  BY DEF SendRecord, Sent
<1> QED BY <1>1, <1>2

-----------------------------------------------------------------------------
(* Type correctness *)

Typed == TypeOK /\ OfferFits

\* An offered cursor is a token core can commit.
LEMMA NextCursorIsTyped ==
  ASSUME Typed, NEW trouble
  PROVE  /\ NextCursor(trouble, run.entries) \in Cursors
         /\ Cardinality(NextCursor(trouble, run.entries).at_high_water) <= MaxListed
         /\ NextCursor(trouble, run.entries).wide
               => NextCursor(trouble, run.entries).at_high_water = {}
<1>1. PICK S \in SUBSET Files : run.entries \in [S -> 0 .. MaxTime]
  BY DEF Typed, TypeOK, Runs
<1>2. AdvanceCursor(cursor, run.entries) \in Cursors /\ cursor \in Cursors
  BY <1>1, AdvancingIsSafe DEF Typed, TypeOK
<1> QED BY <1>2, EncodedIsSafe DEF NextCursor

LEMMA IdleIsTyped == Idle \in Runs /\ Idle.offer = NoCursor
<1>1. NoCursor \in Cursors
  BY BoundsAssumption DEF NoCursor, Cursors
<1>2. NoEntries \in UNION {[S -> 0 .. MaxTime] : S \in SUBSET Files}
  <2>1. NoEntries \in [{} -> 0 .. MaxTime]
    BY DEF NoEntries
  <2> QED BY <2>1
<1> QED BY <1>1, <1>2 DEF Idle, Runs

LEMMA NoCursorFits == Cardinality(NoCursor.at_high_water) <= MaxListed /\ ~NoCursor.wide
  BY BoundsAssumption, FS_EmptySet DEF NoCursor

LEMMA TypesStart == Init => Typed
<1> SUFFICES ASSUME Init PROVE Typed
  OBVIOUS
<1>1. NoCursor \in Cursors
  BY IdleIsTyped DEF Runs
<1>2. now \in 0 .. MaxTime /\ faults \in 0 .. MaxFaults /\ file \in Root
  BY BoundsAssumption DEF Init
<1>3. held \in [Files -> 0 .. MaxVersion]
  BY BoundsAssumption DEF Init
<1> QED BY <1>1, <1>2, <1>3, IdleIsTyped, NoCursorFits DEF Init, Typed, TypeOK, OfferFits

LEMMA TypesStay == Typed /\ [Next]_vars => Typed'
<1> SUFFICES ASSUME Typed, [Next]_vars PROVE Typed'
  OBVIOUS
<1> USE DEF Typed, TypeOK, OfferFits
<1>1. ASSUME NEW f \in Files, Write(f) PROVE Typed'
  <2> DEFINE written == [present |-> TRUE, version |-> file[f].version + 1, modified |-> now]
  <2>a. file[f].version \in 0 .. MaxVersion /\ file[f].version < MaxVersion
        /\ file' = [file EXCEPT ![f] = written]
    BY <1>1 DEF Write, Root
  <2>b. written \in [present : BOOLEAN, version : 0 .. MaxVersion, modified : 0 .. MaxTime]
    BY <2>a, BoundsAssumption
  <2> HIDE DEF written
  <2>1. file' \in Root
    BY <2>a, <2>b DEF Root
  <2> QED BY <1>1, <2>1 DEF Write
<1>2. ASSUME NEW f \in Files, Remove(f) PROVE Typed'
  <2>1. file' \in Root
    BY <1>2 DEF Remove, Root
  <2> QED BY <1>2, <2>1 DEF Remove
<1>3. CASE Tick
  BY <1>3, BoundsAssumption DEF Tick
<1>4. ASSUME NEW mode \in Modes, Start(mode) PROVE Typed'
  <2>1. mode \in {"incremental", "snapshot"}
    BY BoundsAssumption
  <2>2. run' \in Runs /\ run'.offer = NoCursor
    BY <1>4, <2>1, IdleIsTyped DEF Start, Runs
  <2> QED BY <1>4, <2>2, NoCursorFits DEF Start
<1>5. CASE Examine
  <2>1. PICK f \in run.pending : Examined(f)
    BY <1>5, ExamineEffect
  <2> DEFINE seen == [g \in DOMAIN run.entries \cup {f} |->
                         IF g = f THEN file[f].modified ELSE run.entries[g]]
  <2>2. PICK S \in SUBSET Files : run.entries \in [S -> 0 .. MaxTime]
    BY DEF Runs
  <2>3. seen \in [S \cup {f} -> 0 .. MaxTime] /\ S \cup {f} \in SUBSET Files
    BY <2>2 DEF Root, Runs
  <2>4. seen \in UNION {[D -> 0 .. MaxTime] : D \in SUBSET Files}
    BY <2>3
  <2>5. \/ run' = [run EXCEPT !.pending = @ \ {f}, !.entries = seen]
        \/ run' = [run EXCEPT !.pending = @ \ {f}, !.trouble = TRUE]
    BY <2>1 DEF Examined
  <2> HIDE DEF seen
  <2>6. run \in Runs
    OBVIOUS
  <2>7. run' \in Runs /\ run'.offer = run.offer
    BY ONLY <2>4, <2>5, <2>6 DEF Runs
  <2> QED BY <1>5, <2>7, BoundsAssumption DEF Examine, Fault
<1>6. CASE Plan
  <2>1. DueFiles(run.mode, run.entries) \subseteq Files
    BY DEF DueFiles, Runs
  <2>2. run' \in Runs /\ run'.offer = run.offer
    BY <1>6, <2>1 DEF Plan, Runs
  <2> QED BY <1>6, <2>2 DEF Plan
<1>7. CASE SendRecord
  <2>1. PICK f \in run.due : Sent(f)
    BY <1>7, SendEffect
  <2>2. run' \in Runs /\ run'.offer = run.offer
    BY <2>1 DEF Sent, Runs
  <2>3. held' \in [Files -> 0 .. MaxVersion]
    BY <2>1 DEF Sent, Runs, Root
  <2> QED BY <1>7, <2>1, <2>2, <2>3 DEF SendRecord, Sent
<1>8. CASE SkipRecord
  <2>1. run' \in Runs /\ run'.offer = run.offer
    BY <1>8 DEF SkipRecord, Runs
  <2> QED BY <1>8, <2>1, BoundsAssumption DEF SkipRecord, Fault
<1>9. CASE OfferCheckpoint
  <2>1. run' \in Runs /\ run'.offer = NextCursor(run.trouble, run.entries)
    BY <1>9, IdleIsTyped, NextCursorIsTyped DEF OfferCheckpoint, ClaimsComplete, Runs
  <2> QED BY <1>9, <2>1, NextCursorIsTyped DEF OfferCheckpoint
<1>10. CASE Commit
  <2>1. held' \in [Files -> 0 .. MaxVersion]
    BY <1>10, BoundsAssumption DEF Commit
  <2>2. cursor' \in Cursors
    BY <1>10 DEF Commit, Runs
  <2> QED BY <1>10, <2>1, <2>2, IdleIsTyped, NoCursorFits DEF Commit
<1>11. CASE Interrupt
  BY <1>11, IdleIsTyped, NoCursorFits, BoundsAssumption DEF Interrupt, Fault
<1>12. CASE UNCHANGED vars
  BY <1>12 DEF vars
<1> QED BY <1>1, <1>2, <1>3, <1>4, <1>5, <1>6, <1>7, <1>8, <1>9, <1>10, <1>11, <1>12 DEF Next

\* Every state is well typed, and every token core commits fits the limit and
\* lists nothing once it is wide (cursor.rs, encode; collect.rs, encode_within_limit).
THEOREM TypeCorrect == Spec => []TypeOK
<1>1. Typed => TypeOK
  BY DEF Typed
<1> QED BY <1>1, TypesStart, TypesStay, PTL DEF Spec

-----------------------------------------------------------------------------
(* What the watermark settles *)

\* A run that reached its bound has asserted every path.
LEMMA BoundMeansAll ==
  ASSUME Typed, RoomForAll, BoundReached(run.asserted)
  PROVE  run.asserted = Files
<1>1. run.asserted \in SUBSET Files
  BY DEF Typed, TypeOK, Runs
<1>2. Cardinality(run.asserted) <= Cardinality(Files)
      /\ Cardinality(run.asserted) \in Nat /\ Cardinality(Files) \in Nat
  BY <1>1, FilesAssumption, FS_Subset, FS_CardinalityType
<1>3. Cardinality(run.asserted) = Cardinality(Files)
  BY <1>2, BoundsAssumption DEF RoomForAll, BoundReached
<1> QED BY <1>1, <1>3, FilesAssumption, FS_Subset

LEMMA SettledStarts == Init => SettledInv
<1> SUFFICES ASSUME Init PROVE SettledInv
  OBVIOUS
<1>1. Typed
  BY TypesStart
<1>2. \A f \in Files : /\ file[f].modified = 0 /\ file[f].version \in {0, 1}
                       /\ Exists(f) <=> file[f].version = 1
  BY DEF Init, Exists, Root
<1>3. NothingIsAhead
  BY <1>1, <1>2 DEF Init, NothingIsAhead, NoCursor, Idle, NoEntries
<1>4. Listed(cursor) /\ Listed(run.offer)
  BY DEF Init, Listed, NoCursor, Idle
<1>5. WalkIsTrue /\ DebtIsKnown /\ OfferIsTrue
  BY DEF Init, WalkIsTrue, DebtIsKnown, OfferIsTrue, Idle
<1>6. SettledFilesAreHeld
  BY <1>2 DEF Init, SettledFilesAreHeld, Missing, IsDue, NoCursor
<1> QED BY <1>1, <1>3, <1>4, <1>5, <1>6 DEF SettledInv, Typed

\* A write makes the file due again, unless it raced.
LEMMA WriteSettles ==
  ASSUME SettledInv, NEW f \in Files, Write(f)
  PROVE  /\ NothingIsAhead' /\ Listed(cursor)' /\ Listed(run.offer)'
         /\ WalkIsTrue' /\ DebtIsKnown' /\ OfferIsTrue' /\ SettledFilesAreHeld'
<1> DEFINE written == [present |-> TRUE, version |-> file[f].version + 1, modified |-> now]
<1>1. /\ file' = [file EXCEPT ![f] = written]
      /\ raced' = IF run.pc = "walking" \/ file[f].modified = now THEN raced \cup {f}
                  ELSE raced \ {f}
      /\ now' = now /\ cursor' = cursor /\ held' = held /\ run' = run
  BY DEF Write
<1>2. file \in Root /\ now \in Nat /\ MaxTime \in Nat /\ MaxVersion \in Nat
      /\ held \in [Files -> 0 .. MaxVersion] /\ cursor \in Cursors /\ run \in Runs
  BY BoundsAssumption DEF SettledInv, TypeOK
<1>3. /\ \A g \in Files \ {f} : file'[g] = file[g]
      /\ file'[f] = written
      /\ file[f].modified \in Nat /\ file[f].version \in Nat
  BY <1>1, <1>2 DEF Root
<1>4. \A g \in Files : /\ file'[g].modified \in Nat /\ file[g].modified \in Nat
                       /\ file'[g].modified >= file[g].modified
                       /\ file'[g].modified <= now
                       /\ held[g] \in Nat
  BY <1>2, <1>3 DEF SettledInv, NothingIsAhead, Root
<1>5. DOMAIN run.entries \subseteq Files /\ \A g \in DOMAIN run.entries : run.entries[g] \in Nat
  BY <1>2 DEF Runs
<1>6. /\ cursor.high_water \in Nat /\ cursor.at_high_water \subseteq Files
      /\ run.offer.high_water \in Nat /\ run.offer.at_high_water \subseteq Files
  BY <1>2 DEF Runs, Cursors
<1>7. NothingIsAhead'
  BY <1>1, <1>2, <1>3, <1>4, <1>5 DEF SettledInv, NothingIsAhead, Exists
<1>8. Listed(cursor)' /\ Listed(run.offer)'
  BY <1>1, <1>4, <1>6 DEF SettledInv, Listed
\* An unraced write is later than the file's last change: the token cannot list it.
<1>9. ASSUME f \notin raced'
      PROVE  /\ run.pc # "walking" /\ file[f].modified < now
             /\ Missing(f)'
             /\ IsDue(cursor, f, now) /\ IsDue(run.offer, f, now)
  <2>1. run.pc # "walking" /\ file[f].modified < now
    BY <1>1, <1>4, <1>3, <1>2, <1>9 DEF SettledInv, NothingIsAhead
  <2>2. Missing(f)'
    BY <1>1, <1>3, <1>4 DEF Missing, Exists, SettledInv, NothingIsAhead
  <2>3. IsDue(cursor, f, now) /\ IsDue(run.offer, f, now)
    BY <2>1, <1>2, <1>3, <1>6 DEF SettledInv, NothingIsAhead, Listed, IsDue
  <2> QED BY <2>1, <2>2, <2>3
<1>10. \A g \in Files \ {f} : /\ g \notin raced' => g \notin raced
                              /\ Exists(g)' = Exists(g) /\ Missing(g)' = Missing(g)
                              /\ file'[g].modified = file[g].modified
  BY <1>1, <1>3 DEF Exists, Missing
<1>11. WalkIsTrue'
  BY <1>1, <1>9, <1>10 DEF SettledInv, WalkIsTrue
<1>12. DebtIsKnown'
  <2>1. f \notin raced' => ChangedSince(f)'
    BY <1>1, <1>3, <1>4, <1>5, <1>2, <1>9 DEF SettledInv, NothingIsAhead, ChangedSince
  <2>2. \A g \in Files \ {f} : ChangedSince(g)' = ChangedSince(g)
    BY <1>1, <1>10 DEF ChangedSince
  <2> QED BY <1>1, <1>10, <2>1, <2>2 DEF SettledInv, DebtIsKnown
<1>13. OfferIsTrue'
  BY <1>1, <1>3, <1>9, <1>10 DEF SettledInv, OfferIsTrue
<1>14. SettledFilesAreHeld'
  BY <1>1, <1>3, <1>9, <1>10 DEF SettledInv, SettledFilesAreHeld
<1> QED BY <1>7, <1>8, <1>11, <1>12, <1>13, <1>14

\* A file that is gone owes nothing.
LEMMA RemoveSettles ==
  ASSUME SettledInv, NEW f \in Files, Remove(f)
  PROVE  /\ NothingIsAhead' /\ Listed(cursor)' /\ Listed(run.offer)'
         /\ WalkIsTrue' /\ DebtIsKnown' /\ OfferIsTrue' /\ SettledFilesAreHeld'
<1>1. /\ file' = [file EXCEPT ![f].present = FALSE]
      /\ now' = now /\ cursor' = cursor /\ held' = held /\ run' = run /\ raced' = raced
  BY DEF Remove
<1>2. file \in Root /\ cursor \in Cursors /\ run \in Runs
  BY DEF SettledInv, TypeOK
<1>3. \A g \in Files : /\ file'[g].modified = file[g].modified
                       /\ file'[g].version = file[g].version
                       /\ Exists(g)' => Exists(g)
                       /\ Missing(g)' => Missing(g)
                       /\ Exists(g)' /\ Missing(g) => Missing(g)'
  BY <1>1, <1>2 DEF Root, Exists, Missing
<1>4. /\ DOMAIN run.entries \subseteq Files /\ cursor.at_high_water \subseteq Files
      /\ run.offer.at_high_water \subseteq Files
  BY <1>2 DEF Runs, Cursors
<1>5. NothingIsAhead'
  BY <1>1, <1>3, <1>4 DEF SettledInv, NothingIsAhead
<1>6. Listed(cursor)' /\ Listed(run.offer)'
  BY <1>1, <1>3, <1>4 DEF SettledInv, Listed
<1>7. WalkIsTrue'
  BY <1>1, <1>3 DEF SettledInv, WalkIsTrue
<1>8. DebtIsKnown'
  <2>1. \A g \in Files : Exists(g)' /\ ChangedSince(g) => ChangedSince(g)'
    BY <1>1, <1>3 DEF ChangedSince
  <2> QED BY <1>1, <1>3, <2>1 DEF SettledInv, DebtIsKnown
<1>9. OfferIsTrue' /\ SettledFilesAreHeld'
  BY <1>1, <1>3 DEF SettledInv, OfferIsTrue, SettledFilesAreHeld
<1> QED BY <1>5, <1>6, <1>7, <1>8, <1>9

\* A walk starts with every path that exists still ahead of it.
LEMMA StartSettles ==
  ASSUME SettledInv, NEW mode \in Modes, Start(mode)
  PROVE  /\ NothingIsAhead' /\ Listed(cursor)' /\ Listed(run.offer)'
         /\ WalkIsTrue' /\ DebtIsKnown' /\ OfferIsTrue' /\ SettledFilesAreHeld'
<1>1. /\ run'.pc = "walking" /\ run'.pending = {f \in Files : Exists(f)}
      /\ run'.entries = NoEntries /\ run'.asserted = {} /\ run'.offer = NoCursor
      /\ now' = now /\ file' = file /\ cursor' = cursor /\ held' = held /\ raced' = raced
  BY DEF Start, Idle
<1>2. now \in Nat
  BY BoundsAssumption DEF SettledInv, TypeOK
<1> QED BY <1>1, <1>2
        DEF SettledInv, NothingIsAhead, Listed, WalkIsTrue, DebtIsKnown, OfferIsTrue,
            SettledFilesAreHeld, Missing, Exists, NoCursor, NoEntries

\* What the walk examines, it sees as it is.
LEMMA ExamineSettles ==
  ASSUME SettledInv, Examine
  PROVE  /\ NothingIsAhead' /\ Listed(cursor)' /\ Listed(run.offer)'
         /\ WalkIsTrue' /\ DebtIsKnown' /\ OfferIsTrue' /\ SettledFilesAreHeld'
<1>1. run \in Runs
  BY DEF SettledInv, TypeOK
<1>2. PICK f \in run.pending : Examined(f)
  BY <1>1, ExamineEffect
<1>3. f \in Files /\ run.pc = "walking" /\ file \in Root
  BY <1>1 DEF Runs, Examine, SettledInv, TypeOK
<1>4. /\ run'.pc = "walking" /\ run'.offer = run.offer /\ run'.asserted = run.asserted
      /\ run'.pending = run.pending \ {f}
      /\ UNCHANGED <<now, file, cursor, held, raced>>
  BY <1>1, <1>2, <1>3 DEF Examined, Examine, Runs
<1>5. CASE /\ Exists(f) /\ run'.trouble = run.trouble
           /\ run'.entries = [g \in DOMAIN run.entries \cup {f} |->
                                 IF g = f THEN file[f].modified ELSE run.entries[g]]
  <2>1. NothingIsAhead'
    BY <1>3, <1>4, <1>5 DEF SettledInv, NothingIsAhead, Exists, Root
  <2>2. WalkIsTrue'
    BY <1>3, <1>4, <1>5 DEF SettledInv, WalkIsTrue, Exists
  <2> QED BY <1>4, <2>1, <2>2
          DEF SettledInv, Listed, DebtIsKnown, OfferIsTrue, SettledFilesAreHeld, Missing, Exists
<1>6. CASE run'.trouble /\ run'.entries = run.entries
  BY <1>3, <1>4, <1>6
     DEF SettledInv, NothingIsAhead, Listed, WalkIsTrue, DebtIsKnown, OfferIsTrue,
         SettledFilesAreHeld, Missing, Exists
<1> QED BY <1>1, <1>2, <1>5, <1>6 DEF Examined, Runs

\* What the walk saw and core misses is due: the committed token does not hide it.
LEMMA PlanSettles ==
  ASSUME SettledInv, Plan
  PROVE  /\ NothingIsAhead' /\ Listed(cursor)' /\ Listed(run.offer)'
         /\ WalkIsTrue' /\ DebtIsKnown' /\ OfferIsTrue' /\ SettledFilesAreHeld'
<1>1. run \in Runs
  BY DEF SettledInv, TypeOK
<1>2. /\ run.pc = "walking" /\ run.pending = {} /\ run.asserted = {}
      /\ run'.pc = "sending" /\ run'.due = DueFiles(run.mode, run.entries)
      /\ run'.mode = run.mode /\ run'.asserted = run.asserted /\ run'.offer = run.offer
      /\ run'.entries = run.entries /\ run'.trouble = run.trouble
      /\ UNCHANGED <<now, file, cursor, held, raced>>
  BY <1>1 DEF Plan, Runs, SettledInv, WalkIsTrue
<1>3. NothingIsAhead' /\ Listed(cursor)' /\ Listed(run.offer)' /\ SettledFilesAreHeld'
      /\ WalkIsTrue' /\ OfferIsTrue'
  BY <1>2 DEF SettledInv, NothingIsAhead, Listed, SettledFilesAreHeld, Missing, Exists,
              WalkIsTrue, OfferIsTrue
<1>4. ASSUME NEW f \in Files, ~run.trouble, Exists(f), f \notin raced,
             Missing(f) \/ run.mode = "snapshot"
      PROVE  f \in run'.due
  <2>1. f \in DOMAIN run.entries /\ run.entries[f] = file[f].modified
    BY <1>2, <1>4 DEF SettledInv, WalkIsTrue
  <2> QED BY <1>2, <1>4, <2>1 DEF DueFiles, SettledInv, SettledFilesAreHeld
<1>5. DebtIsKnown'
  BY <1>2, <1>4 DEF DebtIsKnown, Missing, Exists
<1> QED BY <1>3, <1>5

\* What is sent is held as it is now.
LEMMA SendSettles ==
  ASSUME SettledInv, SendRecord
  PROVE  /\ NothingIsAhead' /\ Listed(cursor)' /\ Listed(run.offer)'
         /\ WalkIsTrue' /\ DebtIsKnown' /\ OfferIsTrue' /\ SettledFilesAreHeld'
<1>1. run \in Runs /\ held \in [Files -> 0 .. MaxVersion] /\ file \in Root
  BY DEF SettledInv, TypeOK
<1>2. PICK f \in run.due : Sent(f)
  BY <1>1, SendEffect
<1>3. /\ f \in Files /\ run.pc = "sending" /\ run'.pc = "sending"
      /\ run'.due = run.due \ {f} /\ run'.asserted = run.asserted \cup {f}
      /\ run'.mode = run.mode /\ run'.entries = run.entries
      /\ run'.trouble = run.trouble /\ run'.offer = run.offer
      /\ UNCHANGED <<now, file, cursor>>
      /\ raced' = raced \ {f}
  BY <1>1, <1>2 DEF Sent, SendRecord, Runs
<1>4. /\ held'[f] = file[f].version /\ ~Missing(f)'
      /\ \A g \in Files \ {f} : /\ held'[g] = held[g]
                                /\ Missing(g)' = Missing(g) /\ Exists(g)' = Exists(g)
  BY <1>1, <1>2, <1>3 DEF Sent, Missing, Exists
<1>5. NothingIsAhead'
  BY <1>1, <1>3, <1>4 DEF SettledInv, NothingIsAhead, Exists, Root
<1>6. Listed(cursor)' /\ Listed(run.offer)' /\ WalkIsTrue' /\ OfferIsTrue'
  BY <1>3 DEF SettledInv, Listed, WalkIsTrue, OfferIsTrue
<1>7. SettledFilesAreHeld'
  BY <1>3, <1>4 DEF SettledInv, SettledFilesAreHeld
<1>8. DebtIsKnown'
  <2>1. \A g \in Files \ {f} : ChangedSince(g)' = ChangedSince(g)
    BY <1>3, <1>4 DEF ChangedSince
  <2> QED BY <1>2, <1>3, <1>4, <2>1 DEF SettledInv, DebtIsKnown
<1> QED BY <1>5, <1>6, <1>7, <1>8

\* The token on offer settles only what core holds.
LEMMA OfferSettles ==
  ASSUME RoomForAll, SettledInv, OfferCheckpoint
  PROVE  /\ NothingIsAhead' /\ Listed(cursor)' /\ Listed(run.offer)'
         /\ WalkIsTrue' /\ DebtIsKnown' /\ OfferIsTrue' /\ SettledFilesAreHeld'
<1> DEFINE next == IF run.trouble THEN cursor ELSE AdvanceCursor(cursor, run.entries)
<1>1. /\ run \in Runs /\ cursor \in Cursors /\ now \in Nat /\ MaxTime \in Nat
      /\ file \in Root
  BY BoundsAssumption DEF SettledInv, TypeOK
<1>2. /\ run.pc = "sending" /\ run'.pc = "offered" /\ run'.asserted = run.asserted
      /\ run'.entries = NoEntries /\ run'.offer = Encoded(next)
      /\ run'.complete = (run.mode = "snapshot" /\ ~run.trouble)
      /\ UNCHANGED <<now, file, cursor, held, raced>>
  BY DEF OfferCheckpoint, NextCursor, ClaimsComplete, Idle
<1>3. PICK S \in SUBSET Files : run.entries \in [S -> 0 .. MaxTime]
  BY <1>1 DEF Runs
<1>4. DOMAIN run.entries = S /\ \A g \in S : run.entries[g] <= file[g].modified
  BY <1>3 DEF SettledInv, NothingIsAhead
<1>5. /\ next \in Cursors
      /\ next.high_water <= now
      /\ \A f \in next.at_high_water : next.high_water <= file[f].modified
  <2>1. CASE run.trouble
    BY <1>1, <2>1 DEF SettledInv, NothingIsAhead, Listed
  <2>2. CASE ~run.trouble
    <3> DEFINE advanced == AdvanceCursor(cursor, run.entries)
    <3>1. /\ advanced \in Cursors
          /\ advanced.high_water = cursor.high_water
                \/ \E f \in S : advanced.high_water = run.entries[f]
          /\ \A f \in advanced.at_high_water :
                \/ f \in cursor.at_high_water /\ advanced.high_water = cursor.high_water
                \/ f \in S /\ advanced.high_water = run.entries[f]
      BY <1>1, <1>3, AdvancingIsSafe
    <3>2. \A g \in S : file[g].modified <= now /\ file[g].modified \in Nat
                       /\ run.entries[g] \in Nat
      BY <1>1, <1>3 DEF SettledInv, NothingIsAhead, Root
    <3>3. next = advanced
      BY <2>2
    <3> HIDE DEF advanced, next
    <3>4. next.high_water <= now
      BY <3>1, <3>2, <3>3, <1>4, <1>1 DEF SettledInv, NothingIsAhead
    <3>5. \A f \in next.at_high_water : next.high_water <= file[f].modified
      BY <3>1, <3>3, <1>4 DEF SettledInv, Listed
    <3> QED BY <3>1, <3>3, <3>4, <3>5
  <2> QED BY <2>1, <2>2
<1>6. \A f \in Files, m \in 0 .. MaxTime :
         /\ IsDue(cursor, f, m)
         /\ ~run.trouble => /\ f \in S => run.entries[f] < m
                            /\ \A g \in S : run.entries[g] <= m
         => IsDue(next, f, m)
  BY <1>1, <1>3, AdvancingIsSafe
<1> HIDE DEF next
<1>7. /\ run'.offer.high_water = next.high_water
      /\ run'.offer.at_high_water \subseteq next.at_high_water
      /\ \A f, m : IsDue(next, f, m) => IsDue(run'.offer, f, m)
  BY <1>2, <1>5, EncodedIsSafe
<1>8. NothingIsAhead'
  BY <1>2, <1>5, <1>7 DEF SettledInv, NothingIsAhead, NoEntries, Exists
<1>9. Listed(cursor)' /\ Listed(run.offer)'
  BY <1>2, <1>5, <1>7 DEF SettledInv, Listed
<1>10. run.due = {}
  <2>1. CASE run.due = {}
    BY <2>1
  <2>2. CASE BoundReached(run.asserted)
    <3>1. run.asserted = Files /\ run.due \subseteq Files
      BY <2>2, <1>1, BoundMeansAll DEF SettledInv, Typed, Runs
    <3> QED BY <3>1, <1>2 DEF SettledInv, DebtIsKnown
  <2> QED BY <2>1, <2>2 DEF OfferCheckpoint
<1>11. ASSUME NEW f \in Files, Exists(f), f \notin raced,
              Missing(f) \/ (run'.complete /\ f \notin run.asserted)
       PROVE  IsDue(run'.offer, f, file[f].modified)
  <2>1. file[f].modified \in 0 .. MaxTime
    BY <1>1 DEF Root
  <2>2. CASE run.trouble
    <3>1. Missing(f)
      BY <2>2, <1>11, <1>2
    <3>2. IsDue(cursor, f, file[f].modified)
      BY <3>1, <1>11 DEF SettledInv, SettledFilesAreHeld
    <3> QED BY <3>2, <2>1, <2>2, <1>6, <1>7
  <2>3. CASE ~run.trouble
    <3>1. ChangedSince(f)
      BY <2>3, <1>2, <1>10, <1>11 DEF SettledInv, DebtIsKnown
    <3>2. IsDue(cursor, f, file[f].modified)
      BY <3>1, <1>11 DEF ChangedSince, SettledInv, SettledFilesAreHeld
    <3> QED BY <3>1, <3>2, <2>1, <1>4, <1>6, <1>7 DEF ChangedSince
  <2> QED BY <2>2, <2>3
<1>12. OfferIsTrue'
  BY <1>2, <1>11 DEF OfferIsTrue, Missing, Exists
<1>13. WalkIsTrue' /\ DebtIsKnown' /\ SettledFilesAreHeld'
  BY <1>2 DEF SettledInv, WalkIsTrue, DebtIsKnown, SettledFilesAreHeld, Missing, Exists
<1> QED BY <1>8, <1>9, <1>12, <1>13

\* Committing and sweeping keep the promise the offer made.
LEMMA CommitSettles ==
  ASSUME SettledInv, Commit
  PROVE  /\ NothingIsAhead' /\ Listed(cursor)' /\ Listed(run.offer)'
         /\ WalkIsTrue' /\ DebtIsKnown' /\ OfferIsTrue' /\ SettledFilesAreHeld'
<1>1. /\ run.pc = "offered" /\ cursor' = run.offer /\ run' = Idle
      /\ held' = [f \in Files |-> IF run.complete /\ f \notin run.asserted THEN 0 ELSE held[f]]
      /\ UNCHANGED <<now, file, raced>>
  BY DEF Commit
<1>2. now \in Nat /\ file \in Root /\ held \in [Files -> 0 .. MaxVersion]
  BY BoundsAssumption DEF SettledInv, TypeOK
<1>3. NothingIsAhead'
  BY <1>1, <1>2 DEF SettledInv, NothingIsAhead, Idle, NoCursor, NoEntries, Exists, Root
<1>4. Listed(cursor)' /\ Listed(run.offer)' /\ WalkIsTrue' /\ DebtIsKnown' /\ OfferIsTrue'
  BY <1>1 DEF SettledInv, Listed, WalkIsTrue, DebtIsKnown, OfferIsTrue, Idle, NoCursor
<1>5. SettledFilesAreHeld'
  BY <1>1 DEF SettledInv, OfferIsTrue, SettledFilesAreHeld, Missing, Exists
<1> QED BY <1>3, <1>4, <1>5

LEMMA SettledStays ==
  ASSUME RoomForAll, SettledInv, [Next]_vars
  PROVE  SettledInv'
<1>1. TypeOK' /\ OfferFits'
  BY TypesStay DEF SettledInv, Typed
<1> DEFINE Rest == /\ NothingIsAhead /\ Listed(cursor) /\ Listed(run.offer)
                   /\ WalkIsTrue /\ DebtIsKnown /\ OfferIsTrue /\ SettledFilesAreHeld
<1>2. run \in Runs /\ now \in Nat
  BY BoundsAssumption DEF SettledInv, TypeOK
<1>3. CASE Tick
  <2>1. now' = now + 1 /\ UNCHANGED <<file, cursor, held, run, raced>>
    BY <1>3 DEF Tick
  <2>2. NothingIsAhead'
    <3>1. /\ cursor.high_water \in Nat /\ run.offer.high_water \in Nat
          /\ \A f \in Files : file[f].modified \in Nat
      BY DEF SettledInv, TypeOK, Runs, Cursors, Root
    <3> QED BY <1>2, <2>1, <3>1 DEF SettledInv, NothingIsAhead, Exists
  <2> QED BY <2>1, <2>2, <1>1
          DEF SettledInv, Listed, WalkIsTrue, DebtIsKnown, ChangedSince, OfferIsTrue,
              SettledFilesAreHeld, Missing, Exists
<1>4. CASE SkipRecord
  <2>1. /\ run'.pc = run.pc /\ run.pc = "sending" /\ run'.trouble
        /\ run'.asserted = run.asserted /\ run'.entries = run.entries
        /\ run'.offer = run.offer /\ run'.due \subseteq run.due
        /\ UNCHANGED <<now, file, cursor, held, raced>>
    BY <1>2, <1>4 DEF SkipRecord, Runs
  <2> QED BY <2>1, <1>1
          DEF SettledInv, NothingIsAhead, Listed, WalkIsTrue, DebtIsKnown, OfferIsTrue,
              SettledFilesAreHeld, Missing, Exists
<1>5. CASE Interrupt
  <2>1. run' = Idle /\ UNCHANGED <<now, file, cursor, held, raced>>
    BY <1>5 DEF Interrupt
  <2> QED BY <2>1, <1>1, <1>2
          DEF SettledInv, NothingIsAhead, Listed, WalkIsTrue, DebtIsKnown, OfferIsTrue,
              SettledFilesAreHeld, Missing, Exists, Idle, NoCursor, NoEntries
<1>6. CASE UNCHANGED vars
  BY <1>6, <1>1
     DEF vars, SettledInv, NothingIsAhead, Listed, WalkIsTrue, DebtIsKnown, ChangedSince,
         OfferIsTrue, SettledFilesAreHeld, Missing, Exists
<1>7. Next => Rest' \/ Tick \/ SkipRecord \/ Interrupt
  BY WriteSettles, RemoveSettles, StartSettles, ExamineSettles, PlanSettles, SendSettles,
     OfferSettles, CommitSettles DEF Next
<1> QED BY <1>1, <1>3, <1>4, <1>5, <1>6, <1>7 DEF SettledInv

\* Whatever the committed cursor settles, core holds, for every set of files
\* a run has room for (cursor.rs, is_due and advance; collect.rs, run_walk_mode).
THEOREM SettledAlways ==
  ASSUME RoomForAll
  PROVE  Spec => []SettledFilesAreHeld
<1>1. SettledInv /\ [Next]_vars => SettledInv'
  BY RoomForAll, SettledStays
<1>2. SettledInv => SettledFilesAreHeld
  BY DEF SettledInv
<1> QED BY <1>1, <1>2, SettledStarts, PTL DEF Spec

-----------------------------------------------------------------------------
(* What a sweep removes *)

LEMMA AbsenceStays ==
  ASSUME RoomForAll, GoneInv, [Next]_vars
  PROVE  AbsenceIsSeen'
<1> USE DEF GoneInv, AbsenceIsSeen
<1>1. run \in Runs
  BY DEF SettledInv, TypeOK
<1>2. ASSUME NEW f \in Files, Write(f) PROVE AbsenceIsSeen'
  BY <1>2 DEF Write
<1>3. ASSUME NEW f \in Files, Remove(f) PROVE AbsenceIsSeen'
  BY <1>3 DEF Remove
<1>4. ASSUME NEW mode \in Modes, Start(mode) PROVE AbsenceIsSeen'
  BY <1>4 DEF Start, Idle
<1>5. CASE Examine
  <2>1. PICK f \in run.pending : Examined(f)
    BY <1>1, <1>5, ExamineEffect
  <2>2. /\ run.pc = "walking" /\ run'.pc = "walking" /\ run'.pending = run.pending \ {f}
        /\ absent' = absent
        /\ \/ run'.trouble
           \/ run'.trouble = run.trouble /\ DOMAIN run'.entries = DOMAIN run.entries \cup {f}
    BY <1>1, <1>5, <2>1 DEF Examine, Examined, Runs
  <2> QED BY <2>2
<1>6. CASE Plan
  <2>1. /\ run.pc = "walking" /\ run.pending = {} /\ run'.pc = "sending"
        /\ run'.due = DueFiles(run.mode, run.entries)
        /\ run'.mode = run.mode /\ run'.trouble = run.trouble /\ absent' = absent
    BY <1>1, <1>6 DEF Plan, Runs
  <2> QED BY <2>1 DEF DueFiles
<1>7. CASE SendRecord
  <2>1. PICK f \in run.due : Sent(f)
    BY <1>1, <1>7, SendEffect
  <2>2. /\ run.pc = "sending" /\ run'.pc = "sending"
        /\ run'.due = run.due \ {f} /\ run'.asserted = run.asserted \cup {f}
        /\ run'.mode = run.mode /\ run'.trouble = run.trouble /\ absent' = absent
    BY <1>1, <1>7, <2>1 DEF SendRecord, Sent, Runs
  <2> QED BY <2>2
<1>8. CASE SkipRecord
  <2>1. run'.pc = "sending" /\ run'.trouble
    BY <1>1, <1>8 DEF SkipRecord, Runs
  <2> QED BY <2>1
<1>9. CASE OfferCheckpoint
  <2>1. /\ run.pc = "sending" /\ run'.pc = "offered" /\ run'.asserted = run.asserted
        /\ run'.complete = (run.mode = "snapshot" /\ ~run.trouble) /\ absent' = absent
    BY <1>9 DEF OfferCheckpoint, ClaimsComplete, Idle
  <2>2. run.due = {} \/ run.asserted = Files
    BY <1>9, BoundMeansAll DEF OfferCheckpoint, SettledInv, Typed
  <2> QED BY <2>1, <2>2
<1>10. CASE Tick \/ UNCHANGED vars
  BY <1>10 DEF Tick, vars
<1>11. CASE Commit \/ Interrupt
  BY <1>11 DEF Commit, Interrupt, Idle
<1> QED BY <1>2, <1>3, <1>4, <1>5, <1>6, <1>7, <1>8, <1>9, <1>10, <1>11 DEF Next

\* A snapshot makes core remove only what was absent at some instant of the
\* run, for every set of files a run has room for (collect.rs, the `complete`
\* claim).
THEOREM OnlyGoneFilesAreRemovedAlways ==
  ASSUME RoomForAll
  PROVE  Spec => OnlyGoneFilesAreRemoved
<1> DEFINE A == \A f \in Files : held[f] # 0 /\ held'[f] = 0 => f \in absent
<1>1. Init => GoneInv
  BY SettledStarts DEF GoneInv, AbsenceIsSeen, Init, Idle
<1>2. GoneInv /\ [Next]_vars => GoneInv'
  BY RoomForAll, SettledStays, AbsenceStays DEF GoneInv
<1>3. GoneInv /\ [Next]_vars => [A]_vars
  <2> SUFFICES ASSUME GoneInv, Next PROVE A
    BY DEF GoneInv
  <2>1. held \in [Files -> 0 .. MaxVersion] /\ run \in Runs /\ file \in Root
    BY DEF GoneInv, SettledInv, TypeOK
  <2>2. CASE SendRecord
    <3>1. PICK f \in run.due : Sent(f)
      BY <2>1, <2>2, SendEffect
    <3>2. file[f].version > 0 /\ held' = [held EXCEPT ![f] = file[f].version] /\ f \in Files
      BY <2>1, <3>1 DEF Sent, Runs, GoneInv, SettledInv, NothingIsAhead
    <3> QED BY <2>1, <3>2 DEF Root
  <2>3. CASE Commit
    BY <2>3 DEF Commit, GoneInv, AbsenceIsSeen
  <2>4. SendRecord \/ Commit \/ held' = held
    BY DEF Next, Write, Remove, Tick, Start, Examine, Plan, SkipRecord, OfferCheckpoint,
           Interrupt
  <2> QED BY <2>2, <2>3, <2>4
<1>4. OnlyGoneFilesAreRemoved <=> [][A]_vars
  BY DEF OnlyGoneFilesAreRemoved
<1> HIDE DEF A
<1> QED BY <1>1, <1>2, <1>3, <1>4, PTL DEF Spec
=============================================================================
