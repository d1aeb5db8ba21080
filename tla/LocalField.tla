----------------------------- MODULE LocalField -----------------------------
(***************************************************************************)
(* The local Field: it walks one directory while the files in it go on     *)
(* changing, sends a record for every file its cursor calls due, and       *)
(* offers a cursor that is a modification-time watermark with the paths    *)
(* already reported at exactly that second.  Core, seen from here, holds   *)
(* what it is sent, commits the offered cursor or not, and removes what a  *)
(* complete snapshot did not assert.                                       *)
(*                                                                         *)
(* A file is a number: relative paths are totally ordered and the walk     *)
(* visits and reports them in that order.  Content is a version, 0 when    *)
(* the file does not exist; time is in the whole seconds the Field keeps.  *)
(***************************************************************************)
EXTENDS Naturals, FiniteSets, FiniteSetsExt

CONSTANTS
    Files,          \* relative paths under the configured root
    Modes,          \* the collection modes core asks for
    MaxRunRecords,  \* limits.max_run_records
    MaxTieBreak,    \* MAX_TIE_BREAK_ENTRIES
    MaxListed,      \* how many listed paths fit limits.max_cursor_bytes
    MaxTime,        \* bound: the clock stops here
    MaxVersion,     \* bound: contents a file goes through
    MaxFaults       \* bound: unreadable files and interrupted runs

ASSUME FilesAssumption == Files \subseteq Nat /\ IsFiniteSet(Files)
ASSUME BoundsAssumption ==
    /\ {MaxRunRecords, MaxTieBreak, MaxListed, MaxTime, MaxVersion, MaxFaults} \subseteq Nat
    /\ MaxTime >= 1     \* the clock starts at 1
    /\ Modes \subseteq {"incremental", "snapshot"}

VARIABLES
    now,     \* the wall clock, in seconds
    file,    \* the root: content and modification second of every path
    cursor,  \* the cursor core committed last, decoded
    held,    \* the version core holds of every path, 0 for no Note
    run,     \* the run under way
    faults,  \* faults so far
    raced,   \* history: files whose last change a watermark can hide
    absent   \* history: files that did not exist at some instant of the run

vars == <<now, file, cursor, held, run, faults, raced, absent>>

(***************************************************************************)
(* The cursor.                                                             *)
(***************************************************************************)
Cursors == [high_water : 0..MaxTime, at_high_water : SUBSET Files, wide : BOOLEAN]

NoCursor == [high_water |-> 0, at_high_water |-> {}, wide |-> FALSE]

IsDue(c, f, modified) ==
    \/ modified > c.high_water
    \/ modified = c.high_water /\ (c.wide \/ f \notin c.at_high_water)

Widened(c) == [c EXCEPT !.wide = TRUE, !.at_high_water = {}]

WidenIfNeeded(c) ==
    IF ~c.wide /\ Cardinality(c.at_high_water) > MaxTieBreak THEN Widened(c) ELSE c

\* The token a later run decodes: `wide` hides the list, and so does a list
\* that does not fit.
Encoded(c) == IF c.wide \/ Cardinality(c.at_high_water) > MaxListed THEN Widened(c) ELSE c

\* entries: the modification second observed for every file the walk found
AdvanceCursor(previous, entries) ==
    IF DOMAIN entries = {} THEN previous
    ELSE LET latest == Max({entries[f] : f \in DOMAIN entries})
             atLatest == {f \in DOMAIN entries : entries[f] = latest}
         IN  IF latest < previous.high_water THEN previous
             ELSE IF latest = previous.high_water
             THEN WidenIfNeeded([previous EXCEPT !.at_high_water = @ \cup atLatest])
             ELSE WidenIfNeeded([high_water |-> latest, at_high_water |-> atLatest,
                                 wide |-> FALSE])

(***************************************************************************)
(* The root.  A change is `raced` when it lands while a walk is under way, *)
(* or in the same second as the change before it: those are the changes a  *)
(* watermark in whole seconds can hide.                                    *)
(***************************************************************************)
Root == [Files -> [present : BOOLEAN, version : 0..MaxVersion, modified : 0..MaxTime]]

Exists(f) == file[f].present

Wanted(f) == IF Exists(f) THEN file[f].version ELSE 0

Write(f) ==
    /\ file[f].version < MaxVersion
    /\ file' = [file EXCEPT ![f] = [present |-> TRUE, version |-> @.version + 1,
                                    modified |-> now]]
    /\ raced' = IF run.pc = "walking" \/ file[f].modified = now THEN raced \cup {f}
                ELSE raced \ {f}
    /\ UNCHANGED <<now, cursor, held, run, faults, absent>>

Remove(f) ==
    /\ Exists(f)
    /\ file' = [file EXCEPT ![f].present = FALSE]
    /\ absent' = IF run.pc = "idle" THEN absent ELSE absent \cup {f}
    /\ UNCHANGED <<now, cursor, held, run, faults, raced>>

Tick ==
    /\ now < MaxTime
    /\ now' = now + 1
    /\ UNCHANGED <<file, cursor, held, run, faults, raced, absent>>

(***************************************************************************)
(* A run of the Field.                                                     *)
(***************************************************************************)
NoEntries == [f \in {} |-> 0]

Idle == [pc |-> "idle", mode |-> "incremental", pending |-> {}, entries |-> NoEntries,
         trouble |-> FALSE, due |-> {}, asserted |-> {},
         offer |-> NoCursor, complete |-> FALSE]

\* The listing of the directory is one read; its children are examined later.
Start(mode) ==
    /\ run.pc = "idle"
    /\ run' = [Idle EXCEPT !.pc = "walking", !.mode = mode, !.pending = {f \in Files : Exists(f)}]
    /\ absent' = {f \in Files : ~Exists(f)}
    /\ UNCHANGED <<now, file, cursor, held, faults, raced>>

Fault == faults < MaxFaults /\ faults' = faults + 1

\* symlink_metadata of the next listed child, in name order.
Examine ==
    /\ run.pc = "walking" /\ run.pending # {}
    /\ LET f == Min(run.pending)
           listed == [run EXCEPT !.pending = @ \ {f}]
       IN  \/ /\ Exists(f)
              /\ run' = [listed EXCEPT
                            !.entries = [g \in DOMAIN @ \cup {f} |->
                                            IF g = f THEN file[f].modified ELSE @[g]]]
              /\ UNCHANGED faults
           \/ /\ ~Exists(f)
              /\ run' = [listed EXCEPT !.trouble = TRUE]
              /\ UNCHANGED faults
           \/ /\ Fault
              /\ run' = [listed EXCEPT !.trouble = TRUE]
    /\ UNCHANGED <<now, file, cursor, held, raced, absent>>

\* mutant: a snapshot trusts the cursor too
DueFilesInEveryMode(mode, entries) == {f \in DOMAIN entries : IsDue(cursor, f, entries[f])}

\* The files this run owes core a record of.
DueFiles(mode, entries) ==
    {f \in DOMAIN entries : mode = "snapshot" \/ IsDue(cursor, f, entries[f])}

Plan ==
    /\ run.pc = "walking" /\ run.pending = {}
    /\ run' = [run EXCEPT !.pc = "sending", !.due = DueFiles(run.mode, run.entries)]
    /\ UNCHANGED <<now, file, cursor, held, faults, raced, absent>>

BoundReached(asserted) == Cardinality(asserted) >= MaxRunRecords

\* The record carries what the file holds now, not what it held when walked.
SendRecord ==
    /\ run.pc = "sending" /\ run.due # {} /\ ~BoundReached(run.asserted)
    /\ LET f == Min(run.due)
       IN  /\ Exists(f)
           /\ run' = [run EXCEPT !.due = @ \ {f}, !.asserted = @ \cup {f}]
           /\ held' = [held EXCEPT ![f] = file[f].version]
           /\ raced' = raced \ {f}
    /\ UNCHANGED <<now, file, cursor, faults, absent>>

\* `build` could not examine, read or stage the file: a diagnostic instead.
SkipRecord ==
    /\ run.pc = "sending" /\ run.due # {} /\ ~BoundReached(run.asserted)
    /\ LET f == Min(run.due)
       IN  /\ \/ ~Exists(f) /\ UNCHANGED faults
              \/ Fault
           /\ run' = [run EXCEPT !.due = @ \ {f}, !.trouble = TRUE]
    /\ UNCHANGED <<now, file, cursor, held, raced, absent>>

\* mutant: the watermark moves past what could not be read
NextCursorDespiteTrouble(trouble, entries) == Encoded(AdvanceCursor(cursor, entries))

\* is_complete, new_state and the encoded token of run_walk_mode.
NextCursor(trouble, entries) ==
    Encoded(IF trouble THEN cursor ELSE AdvanceCursor(cursor, entries))

\* mutant: every snapshot claims to be complete
ClaimsCompleteAnyway(mode, trouble) == mode = "snapshot"

ClaimsComplete(mode, trouble) == mode = "snapshot" /\ ~trouble

OfferCheckpoint ==
    /\ run.pc = "sending" /\ (run.due = {} \/ BoundReached(run.asserted))
    /\ run' = [Idle EXCEPT !.pc = "offered", !.asserted = run.asserted,
                           !.offer = NextCursor(run.trouble, run.entries),
                           !.complete = ClaimsComplete(run.mode, run.trouble)]
    /\ UNCHANGED <<now, file, cursor, held, faults, raced, absent>>

(***************************************************************************)
(* Core: SyncRun.tla models it.  It stores a record as it reads it, then   *)
(* commits the offered cursor and sweeps, or gives up anywhere before.     *)
(***************************************************************************)
Commit ==
    /\ run.pc = "offered"
    /\ cursor' = run.offer
    /\ held' = [f \in Files |-> IF run.complete /\ f \notin run.asserted THEN 0 ELSE held[f]]
    /\ run' = Idle
    /\ absent' = {}
    /\ UNCHANGED <<now, file, faults, raced>>

Interrupt ==
    /\ run.pc # "idle" /\ Fault
    /\ run' = Idle
    /\ absent' = {}
    /\ UNCHANGED <<now, file, cursor, held, raced>>

Init ==
    /\ now = 1
    /\ file \in {root \in Root : \A f \in Files :
                    root[f] = [present |-> root[f].version = 1,
                               version |-> root[f].version % 2, modified |-> 0]}
    /\ cursor = NoCursor
    /\ held = [f \in Files |-> 0]
    /\ run = Idle
    /\ faults = 0
    /\ raced = {}
    /\ absent = {}

Next ==
    \/ \E f \in Files : Write(f) \/ Remove(f)
    \/ Tick
    \/ \E mode \in Modes : Start(mode)
    \/ Examine \/ Plan \/ SendRecord \/ SkipRecord \/ OfferCheckpoint
    \/ Commit \/ Interrupt

Spec == Init /\ [][Next]_vars

\* A run that started goes on, and the operator keeps asking for runs.
FairSpec ==
    /\ Spec
    /\ WF_vars(Examine \/ Plan \/ SendRecord \/ SkipRecord \/ OfferCheckpoint \/ Commit)
    /\ \A mode \in Modes : SF_vars(Start(mode))

(***************************************************************************)
(* Properties.                                                             *)
(***************************************************************************)
Runs ==
    [pc : {"idle", "walking", "sending", "offered"}, mode : {"incremental", "snapshot"},
     pending : SUBSET Files, entries : UNION {[S -> 0..MaxTime] : S \in SUBSET Files},
     trouble : BOOLEAN, due : SUBSET Files, asserted : SUBSET Files,
     offer : Cursors, complete : BOOLEAN]

\* Types, and the shape of a committed token: it fits, and a wide one lists
\* nothing (cursor.rs, encode; collect.rs, encode_within_limit).
TypeOK ==
    /\ now \in 0..MaxTime
    /\ file \in Root
    /\ cursor \in Cursors
    /\ Cardinality(cursor.at_high_water) <= MaxListed
    /\ cursor.wide => cursor.at_high_water = {}
    /\ held \in [Files -> 0..MaxVersion]
    /\ run \in Runs
    /\ faults \in 0..MaxFaults
    /\ raced \subseteq Files /\ absent \subseteq Files

\* A file core does not hold as it is now.
Missing(f) == Exists(f) /\ held[f] # file[f].version

\* Whatever the committed cursor settles, core holds: a file core does not hold
\* as it is now is due in the next run, unless its last change was one a
\* watermark in whole seconds can hide (cursor.rs, is_due and advance).
SettledFilesAreHeld ==
    \A f \in Files : Missing(f) /\ f \notin raced => IsDue(cursor, f, file[f].modified)

\* A snapshot never makes core remove the Note of a file that was under the
\* root during the whole run (collect.rs, the `complete` claim).
OnlyGoneFilesAreRemoved ==
    [][\A f \in Files : held[f] # 0 /\ held'[f] = 0 => f \in absent]_vars

\* Once the root is quiet, snapshots bring core to exactly what it holds, the
\* raced changes included: the recovery cursor.rs names.
EventuallyMirrored == <>[](\A f \in Files : held[f] = Wanted(f))
=============================================================================
