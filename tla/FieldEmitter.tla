---------------------------- MODULE FieldEmitter ----------------------------
(***************************************************************************)
(* How a Field numbers, counts and writes its frames, and how core takes   *)
(* them.  An emitter is a record; `last_seq` and `rejected` are core's     *)
(* side of the same run, as CollectSession keeps them: a frame whose       *)
(* sequence number is not the next one rejects the run.                    *)
(*                                                                         *)
(* Two disciplines share the SDK's emitter.  The calendar and the contacts *)
(* Field take a number and then ask the emitter to write; the mail Field   *)
(* checks every count before it takes a number.                            *)
(***************************************************************************)
EXTENDS Naturals

Emitters ==
    [seq : Nat, records : Nat, diagnostics : Nat, write_failed : BOOLEAN,
     last_seq : Nat, rejected : BOOLEAN, refused : BOOLEAN]

\* refused: history, a frame was dropped after its number had been taken
NewEmitter == [seq |-> 0, records |-> 0, diagnostics |-> 0, write_failed |-> FALSE,
               last_seq |-> 0, rejected |-> FALSE, refused |-> FALSE]

NextSeq(e) == [e EXCEPT !.seq = @ + 1]

\* Core takes the frame that is being written.
Taken(e) == ~e.write_failed /\ ~e.rejected /\ e.seq = e.last_seq + 1

Write(e) ==
    IF e.write_failed \/ e.rejected THEN e
    ELSE IF Taken(e) THEN [e EXCEPT !.last_seq = @ + 1] ELSE [e EXCEPT !.rejected = TRUE]

\* A frame over the frame limit, or a sink that is gone: nothing is written
\* for the rest of the run.
WriteFails(e) == [e EXCEPT !.write_failed = TRUE]

\* Core rejects the frame for what it says, and takes nothing more.
Rejected(e) == [e EXCEPT !.rejected = TRUE]

WriteRecord(e, limits) ==
    IF e.records >= limits.records THEN [e EXCEPT !.refused = TRUE]
    ELSE IF e.write_failed THEN e
    ELSE [Write(e) EXCEPT !.records = @ + 1]

RecordTaken(e, limits) == e.records < limits.records /\ Taken(e)

WriteDiagnostic(e, limits) ==
    IF e.diagnostics >= limits.diagnostics THEN [e EXCEPT !.refused = TRUE]
    ELSE IF e.write_failed THEN e
    ELSE [Write(e) EXCEPT !.diagnostics = @ + 1]

(***************************************************************************)
(* The two disciplines.                                                    *)
(***************************************************************************)
\* The number first, the count afterwards.
DiagnosticNumberedFirst(e, limits) == WriteDiagnostic(NextSeq(e), limits)

\* The count first: at the bound no number is taken.
DiagnosticCountedFirst(e, limits) ==
    IF e.diagnostics >= limits.diagnostics THEN e ELSE WriteDiagnostic(NextSeq(e), limits)

\* mutant: a reserved number may turn out to need a diagnostic past the bound
CanRecordByRecords(e, limits) == e.records < limits.records

\* A number may be reserved only where a record and a diagnostic both still fit.
CanRecord(e, limits) == e.records < limits.records /\ e.diagnostics < limits.diagnostics
=============================================================================
