--------------------------- MODULE CollectSession ---------------------------
(***************************************************************************)
(* One collect run seen from core's side: the protocol state machine of    *)
(* crates/fieldnotes-field-protocol/src/session.rs.                        *)
(*                                                                         *)
(* A session is a record whose fields carry the names of the Rust struct.  *)
(* Every method is an operator from a session to the session it leaves     *)
(* behind, so that a caller (SessionHost, SyncRun) composes a method with  *)
(* its own step.  Option<T> is a set with at most one member.              *)
(***************************************************************************)
EXTENDS Integers, FiniteSets

CONSTANTS
  SourceKeys,            \* portable (source_scope, source_identity) pairs
  Upserts, Deletions,    \* payloads of records, by their `change`
  Unseen,                \* no payload of this key has been seen in this run
  Scopes,                \* snapshot scopes
  Cursors,               \* opaque cursor strings
  MaxRunRecords,         \* limits.max_run_records
  MaxRunDiagnostics,     \* limits.max_run_diagnostics
  MaxRunArtifactBytes    \* limits.max_run_artifact_bytes

ASSUME PayloadAssumption ==
  /\ Upserts \cap Deletions = {}
  /\ Unseen \notin Upserts \cup Deletions

ASSUME LimitAssumption ==
  /\ MaxRunRecords \in Nat
  /\ MaxRunDiagnostics \in Nat
  /\ MaxRunArtifactBytes \in Nat

Payloads == Upserts \cup Deletions
Claims   == [scope : Scopes, state : {"complete", "partial"}]
Offers   == [seq : Nat, cursor : Cursors, covers : Nat, is_final : BOOLEAN]

\* What the process ended as: exit code zero, another exit code, or anything
\* that is not an exit (signal, terminated by core, wall clock, idle bound).
Exits    == {"zero", "nonzero", "killed"}

\* The part of the manifest the session consults.
Manifests == [tombstones : BOOLEAN, snapshots : BOOLEAN, version_ordering : BOOLEAN]

\* The part of the collect request the session keeps.  A request names a
\* snapshot scope exactly when its mode is snapshot.
Requests ==
  [mode : {"incremental"}, scope : {{}}, windowed : BOOLEAN]
  \cup [mode : {"snapshot"}, scope : {{x} : x \in Scopes}, windowed : BOOLEAN]

Sessions ==
  [ manifest : Manifests, request : Requests,
    last_seq : Nat, record_count : Nat, diagnostic_count : Nat,
    records_by_seq : SUBSET Nat, durable_seqs : SUBSET Nat,
    committed : SUBSET Offers, last_committed_coverage : Nat,
    last_checkpoint_coverage : Nat, pending_offer : SUBSET Offers,
    seen_keys : [SourceKeys -> Payloads \cup {Unseen}],
    error_diagnostic : BOOLEAN, rejected : BOOLEAN,
    final_checkpoint_seq : SUBSET Nat, final_claim : SUBSET Claims,
    final_claim_committed : BOOLEAN, staged_bytes : Nat ]

\* `current_state` is what `with_current_state` seeds; core's own runs seed
\* nothing (NothingSeen), the conformance kit seeds the previous run's state.
NothingSeen == [k \in SourceKeys |-> Unseen]

NewSession(manifest, request, current_state) ==
  [ manifest |-> manifest, request |-> request,
    last_seq |-> 0, record_count |-> 0, diagnostic_count |-> 0,
    records_by_seq |-> {}, durable_seqs |-> {},
    committed |-> {}, last_committed_coverage |-> 0,
    last_checkpoint_coverage |-> 0, pending_offer |-> {},
    seen_keys |-> current_state,
    error_diagnostic |-> FALSE, rejected |-> FALSE,
    final_checkpoint_seq |-> {}, final_claim |-> {},
    final_claim_committed |-> FALSE, staged_bytes |-> 0 ]

-----------------------------------------------------------------------------
(* Accepting events *)

\* Fail(s): `fail` and `note_rejection`; no further checkpoint is committed.
NoteRejection(s) == [s EXCEPT !.rejected = TRUE]

\* Mutant of InOrder: only a repeat or a regression is refused, a gap is not.
InOrderButGaps(s, event) ==
  /\ event.own_run
  /\ s.final_checkpoint_seq = {}
  /\ event.seq > s.last_seq

\* check_run_id, check_not_after_final and advance_seq.
InOrder(s, event) ==
  /\ event.own_run
  /\ s.final_checkpoint_seq = {}
  /\ event.seq = s.last_seq + 1

Advance(s, event) == [s EXCEPT !.last_seq = event.seq]

\* The key was seen with another payload and the Field declares no order.
Divergent(s, key, payload) ==
  s.seen_keys[key] \notin {Unseen, payload} /\ ~ s.manifest.version_ordering

\* `well_formed` stands for the checks of a record's own content: object kind,
\* note type, body, properties and the number of its artifacts.
RecordAdmissible(s, record) ==
  /\ s.record_count + 1 <= MaxRunRecords
  /\ record.well_formed
  /\ record.payload \in Deletions => s.manifest.tombstones
  /\ ~ Divergent(s, record.key, record.payload)

\* The disposition core gives a record it accepts.
Disposition(s, record) ==
  IF s.seen_keys[record.key] = record.payload THEN "no_change"
  ELSE IF record.payload \in Upserts          THEN "upsert"
  ELSE "delete"

\* Mutant of AcceptRecord: a key keeps the first payload it was seen with.
AcceptRecordKeepingFirst(s, record) ==
  IF ~ InOrder(s, record)               THEN NoteRejection(s)
  ELSE IF ~ RecordAdmissible(s, record) THEN NoteRejection(Advance(s, record))
  ELSE [Advance(s, record) EXCEPT
          !.seen_keys[record.key] = IF @ = Unseen THEN record.payload ELSE @,
          !.record_count   = @ + 1,
          !.records_by_seq = @ \cup {record.seq}]

AcceptRecord(s, record) ==
  IF ~ InOrder(s, record)                     THEN NoteRejection(s)
  ELSE IF ~ RecordAdmissible(s, record)       THEN NoteRejection(Advance(s, record))
  ELSE [Advance(s, record) EXCEPT
          !.seen_keys[record.key] = record.payload,
          !.record_count   = @ + 1,
          !.records_by_seq = @ \cup {record.seq}]

\* The records between the last checkpoint's coverage and this one's.
NewlyCovered(s, covers) ==
  {seq \in s.records_by_seq : s.last_checkpoint_coverage < seq /\ seq <= covers}

\* A completeness claim belongs to a snapshot run, about the requested scope.
ClaimAdmissible(s, claim) ==
  s.request.mode = "snapshot" /\ s.request.scope = {claim.scope}

\* `well_formed` stands for the cursor's size and its format version.
CheckpointAdmissible(s, checkpoint) ==
  /\ checkpoint.covers < checkpoint.seq
  /\ checkpoint.covers >= s.last_checkpoint_coverage
  /\ checkpoint.records_covered = Cardinality(NewlyCovered(s, checkpoint.covers))
  /\ checkpoint.well_formed
  /\ \A claim \in checkpoint.claim : ClaimAdmissible(s, claim)

\* Mutant of OfferOf: coverage read as an exclusive bound.
OfferOfExclusive(checkpoint) ==
  [seq |-> checkpoint.seq, cursor |-> checkpoint.cursor,
   covers |-> checkpoint.covers - 1, is_final |-> checkpoint.is_final]

OfferOf(checkpoint) ==
  [seq |-> checkpoint.seq, cursor |-> checkpoint.cursor,
   covers |-> checkpoint.covers, is_final |-> checkpoint.is_final]

\* Mutant of FinalClaim: the run's first claim is never withdrawn.
FinalClaimFirst(s, checkpoint) ==
  IF s.final_claim = {} THEN checkpoint.claim ELSE s.final_claim

\* A claim replaces the one before it; a checkpoint without one keeps it.
FinalClaim(s, checkpoint) ==
  IF checkpoint.claim = {} THEN s.final_claim ELSE checkpoint.claim

AcceptCheckpoint(s, checkpoint) ==
  IF ~ InOrder(s, checkpoint)                   THEN NoteRejection(s)
  ELSE IF ~ CheckpointAdmissible(s, checkpoint) THEN NoteRejection(Advance(s, checkpoint))
  ELSE [Advance(s, checkpoint) EXCEPT
          !.final_claim = FinalClaim(s, checkpoint),
          !.last_checkpoint_coverage = checkpoint.covers,
          !.final_checkpoint_seq = IF checkpoint.is_final THEN {checkpoint.seq} ELSE @,
          !.pending_offer = {OfferOf(checkpoint)}]

AcceptDiagnostic(s, diagnostic) ==
  IF ~ InOrder(s, diagnostic)                       THEN NoteRejection(s)
  ELSE IF s.diagnostic_count + 1 > MaxRunDiagnostics THEN NoteRejection(Advance(s, diagnostic))
  ELSE [Advance(s, diagnostic) EXCEPT
          !.diagnostic_count = @ + 1,
          !.error_diagnostic = IF diagnostic.severity = "error" THEN TRUE ELSE @]

\* `accept`: a failed run consumes nothing, and an offer is decided before the
\* next event is taken.
Accept(s, event) ==
  IF s.rejected                THEN s
  ELSE IF s.pending_offer # {} THEN NoteRejection(s)
  ELSE CASE event.type = "record"     -> AcceptRecord(s, event)
         [] event.type = "checkpoint" -> AcceptCheckpoint(s, event)
         [] event.type = "diagnostic" -> AcceptDiagnostic(s, event)
         [] event.type = "manifest"   -> NoteRejection(s)

\* The event was taken: it did not fail the run.
Accepted(s, event) == ~ Accept(s, event).rejected

-----------------------------------------------------------------------------
(* Artifacts, durability and commitment *)

\* `resolvable`: every reference names bytes core can verify and may retain.
\* `bytes`: what the record stages that core does not store already.
ResolveArtifacts(s, resolvable, bytes) ==
  IF ~ resolvable                                  THEN NoteRejection(s)
  ELSE IF s.staged_bytes + bytes > MaxRunArtifactBytes
         THEN [NoteRejection(s) EXCEPT !.staged_bytes = @ + bytes]
  ELSE [s EXCEPT !.staged_bytes = @ + bytes]

RecordDurable(s, seq) == [s EXCEPT !.durable_seqs = @ \cup {seq}]

\* Mutant of Undurable: the record at the coverage itself is not looked at.
UndurableBelow(s, covers) ==
  {seq \in s.records_by_seq : seq < covers} \ s.durable_seqs

Undurable(s, covers) ==
  {seq \in s.records_by_seq : seq <= covers} \ s.durable_seqs

\* Mutant of CommitVerdict: any offer the caller holds will do.
CommitVerdictOfAnyOffer(s, offer) ==
  IF s.rejected                                    THEN "run_has_rejected_record"
  ELSE IF Undurable(s, offer.covers) # {}          THEN "records_not_durable"
  ELSE IF offer.covers < s.last_committed_coverage THEN "not_monotonic"
  ELSE "committed"

\* Mutant of CommitVerdict: a rejected run still settles its pending offer.
CommitVerdictAfterRejection(s, offer) ==
  IF s.pending_offer # {offer}                     THEN "unknown_offer"
  ELSE IF Undurable(s, offer.covers) # {}          THEN "records_not_durable"
  ELSE IF offer.covers < s.last_committed_coverage THEN "not_monotonic"
  ELSE "committed"

\* Why `commit` refuses an offer, or "committed".
CommitVerdict(s, offer) ==
  IF s.pending_offer # {offer}                            THEN "unknown_offer"
  ELSE IF s.rejected                                      THEN "run_has_rejected_record"
  ELSE IF Undurable(s, offer.covers) # {}                 THEN "records_not_durable"
  ELSE IF offer.covers < s.last_committed_coverage        THEN "not_monotonic"
  ELSE "committed"

\* Mutant of Commit: committing the final checkpoint does not commit its claim.
CommitWithoutClaim(s, offer) ==
  IF CommitVerdict(s, offer) = "committed"
    THEN [s EXCEPT !.last_committed_coverage = offer.covers,
                   !.committed = {offer}, !.pending_offer = {}]
  ELSE s

Commit(s, offer) ==
  LET verdict == CommitVerdict(s, offer) IN
  IF verdict = "committed"
    THEN [s EXCEPT !.last_committed_coverage = offer.covers,
                   !.committed = {offer},
                   !.final_claim_committed = @ \/ s.final_checkpoint_seq = {offer.seq},
                   !.pending_offer = {}]
  ELSE IF verdict = "run_has_rejected_record"
    THEN [s EXCEPT !.pending_offer = {}]
  ELSE s

Withhold(s, offer) ==
  IF s.pending_offer = {offer} THEN [s EXCEPT !.pending_offer = {}] ELSE s

-----------------------------------------------------------------------------
(* Finishing *)

\* The run claimed the whole of the requested scope.
ClaimsCompleteness(s) ==
  \E claim \in s.final_claim : claim.state = "complete" /\ s.request.scope = {claim.scope}

SnapshotOk(s) == s.request.mode = "snapshot" => ClaimsCompleteness(s)

Outcome(s, exit) ==
  IF s.rejected \/ exit = "killed"                                  THEN "failed"
  ELSE IF exit = "zero" /\ ~ s.error_diagnostic /\ SnapshotOk(s)    THEN "complete"
  ELSE IF s.committed # {} \/ s.record_count > 0                    THEN "partial"
  ELSE "failed"

\* Mutant of RefusalGrounds: a windowed run is as good as another.
RefusalGroundsButWindow(s, exit) ==
  [ authority_not_declared |-> ~ s.manifest.snapshots,
    not_snapshot_mode      |-> s.request.mode # "snapshot" \/ s.request.scope = {},
    no_completeness_claim  |-> ~ ClaimsCompleteness(s),
    claim_not_committed    |-> ~ s.final_claim_committed,
    error_diagnostic       |-> s.error_diagnostic,
    non_zero_exit          |-> exit # "zero",
    protocol_violation     |-> s.rejected ]

\* What each reason to refuse deletion by absence says of the run.
RefusalGrounds(s, exit) ==
  [ authority_not_declared |-> ~ s.manifest.snapshots,
    not_snapshot_mode      |-> s.request.mode # "snapshot" \/ s.request.scope = {},
    no_completeness_claim  |-> s.final_claim = {},
    claim_is_partial       |-> \E claim \in s.final_claim : claim.state # "complete",
    claim_scope_mismatch   |-> \E claim \in s.final_claim : s.request.scope # {claim.scope},
    claim_not_final        |-> s.final_claim # {} /\ s.final_checkpoint_seq = {},
    claim_not_committed    |-> s.final_claim # {} /\ ~ s.final_claim_committed,
    error_diagnostic       |-> s.error_diagnostic,
    non_zero_exit          |-> exit # "zero",
    protocol_violation     |-> s.rejected,
    windowed_run           |-> s.request.windowed ]

\* Each reason is sufficient on its own.
DeletionRefusals(s, exit) ==
  LET grounds == RefusalGrounds(s, exit) IN {reason \in DOMAIN grounds : grounds[reason]}

DeletionAuthorized(s, exit) == DeletionRefusals(s, exit) = {}
=============================================================================
