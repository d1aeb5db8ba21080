----------------------------- MODULE SessionHost ----------------------------
(***************************************************************************)
(* A collect session under an arbitrary Field and an arbitrary caller: the *)
(* Field sends any frame, well formed or not, and core's side calls the    *)
(* session's methods in any order Rust lets it.  `history` remembers what  *)
(* was accepted and committed; the session itself never reads it.  `finish` *)
(* reads the session and changes nothing, so its answers (Outcome,         *)
(* DeletionAuthorized) are properties of every state.                      *)
(***************************************************************************)
EXTENDS CollectSession, FiniteSetsExt

CONSTANTS
  MaxSeq,      \* bound: the Field's frames have sequence numbers up to MaxSeq
  Runs,        \* <<manifest, request>> of the runs that may start
  Seeds,       \* the states `with_current_state` may seed
  Sizes        \* bytes one record's artifacts may stage

ASSUME BoundAssumption ==
  MaxSeq \in Nat /\ Sizes \subseteq Nat /\ Runs \subseteq Manifests \X Requests

ASSUME SeedAssumption == Seeds \subseteq [SourceKeys -> Payloads \cup {Unseen}]

VARIABLES
  session,     \* the session record
  history      \* accepted records and checkpoints, offers commit accepted

vars == <<session, history>>

Histories ==
  [ records : SUBSET [seq : Nat, key : SourceKeys, payload : Payloads],
    checkpoints : SUBSET
      [type : {"checkpoint"}, own_run : {TRUE}, seq : Nat, well_formed : {TRUE},
       cursor : Cursors, covers : Nat, records_covered : Nat, is_final : BOOLEAN,
       claim : SUBSET Claims],
    committed : SUBSET Offers ]

NoHistory == [records |-> {}, checkpoints |-> {}, committed |-> {}]

Init ==
  /\ \E run \in Runs, seed \in Seeds : session = NewSession(run[1], run[2], seed)
  /\ history = NoHistory

-----------------------------------------------------------------------------
(* Frames of the Field *)

NextSeq == {session.last_seq + 1}

RecordFrames ==
  [type : {"record"}, own_run : {TRUE}, seq : NextSeq, well_formed : {TRUE},
   key : SourceKeys, payload : Payloads]

CheckpointFrames ==
  [type : {"checkpoint"}, own_run : {TRUE}, seq : NextSeq, well_formed : {TRUE},
   cursor : Cursors, covers : 0 .. session.last_seq + 1,
   records_covered : 0 .. session.record_count, is_final : BOOLEAN,
   claim : {{}} \cup {{claim} : claim \in Claims}]

DiagnosticFrames ==
  [type : {"diagnostic"}, own_run : {TRUE}, seq : NextSeq, severity : {"info", "error"}]

\* What can be wrong with a frame whatever its body says.
Defective(frame) ==
  { [frame EXCEPT !.own_run = FALSE], [frame EXCEPT !.seq = @ - 1],
    [frame EXCEPT !.seq = @ + 1], [frame EXCEPT !.well_formed = FALSE] }

WholeFrames == session.last_seq < MaxSeq

\* A frame of each type that the session takes, or refuses for what it says.
RecordFrame ==
  /\ WholeFrames
  /\ \E e \in RecordFrames :
       /\ session' = Accept(session, e)
       /\ history' = IF session'.rejected THEN history
                     ELSE [history EXCEPT !.records = @ \cup
                            {[seq |-> e.seq, key |-> e.key, payload |-> e.payload]}]

CheckpointFrame ==
  /\ WholeFrames
  /\ \E e \in CheckpointFrames :
       /\ session' = Accept(session, e)
       /\ history' = IF session'.rejected THEN history
                     ELSE [history EXCEPT !.checkpoints = @ \cup {e}]

DiagnosticFrame ==
  /\ WholeFrames
  /\ \E e \in DiagnosticFrames : session' = Accept(session, e)
  /\ UNCHANGED history

\* A frame of another run, out of sequence or malformed.
DefectiveFrame ==
  /\ \E frame \in RecordFrames : \E e \in Defective(frame) : session' = Accept(session, e)
  /\ UNCHANGED history

\* A manifest frame belongs to another run; a frame that does not decode never
\* reaches `accept`, and the caller notes the rejection.
ManifestFrame ==
  /\ session' = Accept(session, [type |-> "manifest"])
  /\ UNCHANGED history

UndecodableFrame ==
  /\ session' = NoteRejection(session)
  /\ UNCHANGED history

-----------------------------------------------------------------------------
(* Calls of core's side *)

\* Resolve the artifacts of the record accepted last.
Resolve ==
  /\ ~ session.rejected /\ session.last_seq \in session.records_by_seq
  /\ \E resolvable \in BOOLEAN, bytes \in Sizes :
       session' = ResolveArtifacts(session, resolvable, bytes)
  /\ UNCHANGED history

\* Any accepted record becomes durable, in any order.
MarkDurable ==
  /\ \E r \in history.records : session' = RecordDurable(session, r.seq)
  /\ UNCHANGED history

\* The caller commits or withholds an offer it holds, the pending one or a
\* stale one.
HeldOffers == {OfferOf(c) : c \in history.checkpoints}

CommitOffer ==
  /\ \E offer \in HeldOffers :
       /\ session' = Commit(session, offer)
       /\ history' = IF CommitVerdict(session, offer) = "committed"
                       THEN [history EXCEPT !.committed = @ \cup {offer}]
                       ELSE history

WithholdOffer ==
  /\ \E offer \in HeldOffers : session' = Withhold(session, offer)
  /\ UNCHANGED history

Next ==
  \/ RecordFrame \/ CheckpointFrame \/ DiagnosticFrame
  \/ DefectiveFrame \/ ManifestFrame \/ UndecodableFrame
  \/ Resolve \/ MarkDurable \/ CommitOffer \/ WithholdOffer

Spec == Init /\ [][Next]_vars
-----------------------------------------------------------------------------
(* Properties *)

\* Every component has its type.
TypeOK == session \in Sessions /\ history \in Histories

\* A committed cursor never leads: every record core accepted at or below its
\* coverage is durable, in whatever order events arrive and writes complete
\* (`commit`, first_undurable_through).
CommittedCursorIsDurable ==
  \A c \in session.committed, r \in history.records :
    r.seq <= c.covers => r.seq \in session.durable_seqs

\* A run that rejected a frame commits no further checkpoint, even the offer
\* that was pending when the rejection came (`accept`, `commit`).
RejectedRunCommitsNothing ==
  [][session.rejected => session'.committed = session.committed]_vars

\* Within a run the committed cursor only moves forward: a stale offer the
\* caller still holds cannot put an older cursor back (`commit`).
CommitNeverRegresses ==
  [][\A c \in session.committed, d \in session'.committed :
       c.covers <= d.covers /\ c.seq <= d.seq]_vars

\* While nothing is rejected the accepted events are exactly the sequence
\* numbers 1..last_seq: no frame is lost, repeated or skipped unnoticed
\* (`advance_seq`).
NoFrameIsMissing ==
  ~ session.rejected =>
    Cardinality(history.records) + Cardinality(history.checkpoints)
      + session.diagnostic_count = session.last_seq

\* What the session compares a record with is what the Field asserted last for
\* that key, so "no_change" never swallows a change (`accept_record`).
LastAssertionRules ==
  \A r \in history.records :
    (\A q \in history.records : q.key = r.key => q.seq <= r.seq)
      => session.seen_keys[r.key] = r.payload

\* The claims made last, and the checkpoint that closed the run.
LastClaims ==
  {c \in history.checkpoints :
     c.claim # {} /\ \A d \in history.checkpoints : d.claim # {} => d.seq <= c.seq}

FinalCheckpoints == {c \in history.checkpoints : c.is_final}

\* Deletion by absence is earned: a clean, complete and unwindowed snapshot
\* whose last claim covers the requested scope, and whose final checkpoint, the
\* last of all its frames, was itself committed (`finish`).  The claim is the
\* final checkpoint's own or, where that makes none, the last one before it:
\* ClaimIsFinal is what the documents say instead.
AuthorizationIsEarned ==
  \A exit \in Exits : DeletionAuthorized(session, exit) =>
    /\ Outcome(session, exit) = "complete" /\ ~ session.request.windowed
    /\ session.manifest.snapshots /\ session.request.mode = "snapshot"
    /\ LastClaims # {}
    /\ \A c \in LastClaims : \A claim \in c.claim :
         claim.state = "complete" /\ session.request.scope = {claim.scope}
    /\ \E c \in FinalCheckpoints :
         c.seq = session.last_seq /\ OfferOf(c) \in history.committed

\* A run may delete by absence only on a claim that its final checkpoint
\* carries (ClaimNotFinal, and the third condition of A2 section 10).  The code
\* keeps the claim of an earlier checkpoint (`accept_checkpoint`).
ClaimIsFinal ==
  \A exit \in Exits : DeletionAuthorized(session, exit) =>
    \A c \in FinalCheckpoints : c.claim # {}

=============================================================================
