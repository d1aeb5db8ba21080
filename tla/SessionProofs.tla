---------------------------- MODULE SessionProofs ---------------------------
(***************************************************************************)
(* Theorems about SessionHost: what a collect session keeps for every set  *)
(* of keys, payloads, scopes and cursors, every limit and every length of  *)
(* a run, under any Field and any caller: first what a state says, then    *)
(* what relates the session to the whole history of its run.               *)
(***************************************************************************)
EXTENDS SessionHost, TLAPS, FiniteSetTheorems

-----------------------------------------------------------------------------
(* The methods of a session keep its type *)

\* An event whose fields have their types, whatever it claims.
IsEvent(e) ==
  /\ e.type \in {"record", "checkpoint", "diagnostic", "manifest"}
  /\ e.type = "record" => e.key \in SourceKeys /\ e.payload \in Payloads
  /\ e.type = "checkpoint" =>
       /\ e.cursor \in Cursors /\ e.covers \in Nat /\ e.is_final \in BOOLEAN
       /\ e.claim \in SUBSET Claims

\* Rejecting and advancing only touch `rejected` and `last_seq`.
LEMMA RejectionType ==
  ASSUME NEW s \in Sessions
  PROVE  NoteRejection(s) \in Sessions
  BY DEF Sessions, NoteRejection

LEMMA AdvanceType ==
  ASSUME NEW s \in Sessions, NEW e, InOrder(s, e)
  PROVE  e.seq \in Nat /\ Advance(s, e) \in Sessions
  BY DEF Sessions, InOrder, Advance

LEMMA AcceptRecordType ==
  ASSUME NEW s \in Sessions, NEW e, e.key \in SourceKeys, e.payload \in Payloads
  PROVE  AcceptRecord(s, e) \in Sessions
<1>1. CASE ~ InOrder(s, e)
  BY <1>1, RejectionType DEF AcceptRecord
<1>2. CASE InOrder(s, e) /\ ~ RecordAdmissible(s, e)
  BY <1>2, AdvanceType, RejectionType DEF AcceptRecord
<1>3. CASE InOrder(s, e) /\ RecordAdmissible(s, e)
  <2>1. PICK t \in Sessions : t = Advance(s, e)
    BY <1>3, AdvanceType
  <2>2. /\ [t.seen_keys EXCEPT ![e.key] = e.payload] \in [SourceKeys -> Payloads \cup {Unseen}]
        /\ t.record_count + 1 \in Nat
        /\ t.records_by_seq \cup {e.seq} \in SUBSET Nat
    BY <1>3, AdvanceType DEF Sessions
  <2>3. AcceptRecord(s, e) =
          [t EXCEPT !.seen_keys[e.key] = e.payload,
                    !.record_count   = @ + 1,
                    !.records_by_seq = @ \cup {e.seq}]
    BY <1>3, <2>1 DEF AcceptRecord
  <2> QED BY <2>2, <2>3 DEF Sessions
<1> QED BY <1>1, <1>2, <1>3

LEMMA AcceptCheckpointType ==
  ASSUME NEW s \in Sessions, NEW e, IsEvent(e), e.type = "checkpoint"
  PROVE  AcceptCheckpoint(s, e) \in Sessions
<1>1. CASE ~ InOrder(s, e)
  BY <1>1, RejectionType DEF AcceptCheckpoint
<1>2. CASE InOrder(s, e) /\ ~ CheckpointAdmissible(s, e)
  BY <1>2, AdvanceType, RejectionType DEF AcceptCheckpoint
<1>3. CASE InOrder(s, e) /\ CheckpointAdmissible(s, e)
  <2>1. PICK t \in Sessions : t = Advance(s, e)
    BY <1>3, AdvanceType
  <2>2. e.seq \in Nat /\ OfferOf(e) \in Offers
    BY <1>3, AdvanceType DEF IsEvent, OfferOf, Offers
  <2>3. FinalClaim(s, e) \in SUBSET Claims
    BY DEF IsEvent, FinalClaim, Sessions
  <2>4. AcceptCheckpoint(s, e) =
          [t EXCEPT !.final_claim = FinalClaim(s, e),
                    !.last_checkpoint_coverage = e.covers,
                    !.final_checkpoint_seq = IF e.is_final THEN {e.seq} ELSE @,
                    !.pending_offer = {OfferOf(e)}]
    BY <1>3, <2>1 DEF AcceptCheckpoint
  <2>5. (IF e.is_final THEN {e.seq} ELSE t.final_checkpoint_seq) \in SUBSET Nat
    BY <2>2 DEF Sessions
  <2>6. e.covers \in Nat /\ {OfferOf(e)} \in SUBSET Offers
    BY <2>2 DEF IsEvent
  <2> QED BY <2>3, <2>4, <2>5, <2>6 DEF Sessions
<1> QED BY <1>1, <1>2, <1>3

LEMMA AcceptDiagnosticType ==
  ASSUME NEW s \in Sessions, NEW e
  PROVE  AcceptDiagnostic(s, e) \in Sessions
<1>1. CASE ~ InOrder(s, e)
  BY <1>1, RejectionType DEF AcceptDiagnostic
<1>2. CASE InOrder(s, e)
  <2>1. PICK t \in Sessions : t = Advance(s, e)
    BY <1>2, AdvanceType
  <2>2. NoteRejection(t) \in Sessions
    BY RejectionType
  <2>3. t.diagnostic_count + 1 \in Nat
    BY DEF Sessions
  <2>4. [t EXCEPT !.diagnostic_count = @ + 1,
                  !.error_diagnostic = IF e.severity = "error" THEN TRUE ELSE @] \in Sessions
    <3>1. [t EXCEPT !.diagnostic_count = @ + 1, !.error_diagnostic = TRUE] \in Sessions
      BY <2>3 DEF Sessions
    <3>2. [t EXCEPT !.diagnostic_count = @ + 1, !.error_diagnostic = @] \in Sessions
      BY <2>3 DEF Sessions
    <3> QED BY <3>1, <3>2
  <2> QED BY <1>2, <2>1, <2>2, <2>4 DEF AcceptDiagnostic
<1> QED BY <1>1, <1>2

\* Whatever event arrives, `accept` leaves a session.
LEMMA AcceptType ==
  ASSUME NEW s \in Sessions, NEW e, IsEvent(e)
  PROVE  Accept(s, e) \in Sessions
<1>1. CASE s.rejected \/ s.pending_offer # {} \/ e.type = "manifest"
  BY <1>1, RejectionType DEF Accept
<1>2. CASE ~ s.rejected /\ s.pending_offer = {} /\ e.type = "record"
  BY <1>2, AcceptRecordType DEF Accept, IsEvent
<1>3. CASE ~ s.rejected /\ s.pending_offer = {} /\ e.type = "checkpoint"
  BY <1>3, AcceptCheckpointType DEF Accept
<1>4. CASE ~ s.rejected /\ s.pending_offer = {} /\ e.type = "diagnostic"
  BY <1>4, AcceptDiagnosticType DEF Accept
<1> QED BY <1>1, <1>2, <1>3, <1>4 DEF IsEvent

LEMMA CallTypes ==
  ASSUME NEW s \in Sessions
  PROVE  /\ \A resolvable \in BOOLEAN, bytes \in Nat :
              ResolveArtifacts(s, resolvable, bytes) \in Sessions
         /\ \A seq \in Nat : RecordDurable(s, seq) \in Sessions
         /\ \A offer \in Offers : Commit(s, offer) \in Sessions /\ Withhold(s, offer) \in Sessions
<1>1. ASSUME NEW resolvable \in BOOLEAN, NEW bytes \in Nat
      PROVE  ResolveArtifacts(s, resolvable, bytes) \in Sessions
  <2>1. [s EXCEPT !.staged_bytes = @ + bytes] \in Sessions
    BY DEF Sessions
  <2>2. [NoteRejection(s) EXCEPT !.staged_bytes = @ + bytes] \in Sessions
    BY RejectionType DEF Sessions
  <2> QED BY <2>1, <2>2, RejectionType DEF ResolveArtifacts
<1>2. ASSUME NEW seq \in Nat
      PROVE  RecordDurable(s, seq) \in Sessions
  BY DEF RecordDurable, Sessions
<1>3. ASSUME NEW offer \in Offers
      PROVE  Commit(s, offer) \in Sessions
  <2>1. [s EXCEPT !.pending_offer = {}] \in Sessions
    BY DEF Sessions
  <2>2. [s EXCEPT !.last_committed_coverage = offer.covers,
                  !.committed = {offer},
                  !.final_claim_committed = @ \/ s.final_checkpoint_seq = {offer.seq},
                  !.pending_offer = {}] \in Sessions
    BY DEF Sessions, Offers
  <2> QED BY <2>1, <2>2 DEF Commit
<1>4. ASSUME NEW offer \in Offers
      PROVE  Withhold(s, offer) \in Sessions
  BY DEF Withhold, Sessions
<1> QED BY <1>1, <1>2, <1>3, <1>4
-----------------------------------------------------------------------------
(* What the methods leave alone *)

\* `accept` never touches what is durable or committed, keeps every record it
\* took, and only ever makes the checkpoint it just took the pending offer.
LEMMA AcceptEffect ==
  ASSUME NEW s \in Sessions, NEW e, IsEvent(e), NEW t, t = Accept(s, e)
  PROVE  /\ t.durable_seqs = s.durable_seqs /\ t.committed = s.committed
         /\ t.last_committed_coverage = s.last_committed_coverage
         /\ s.records_by_seq \subseteq t.records_by_seq
         /\ s.last_seq <= t.last_seq
         /\ \/ t.pending_offer = s.pending_offer
            \/ /\ e.type = "checkpoint" /\ t.pending_offer = {OfferOf(e)}
               /\ e.seq = s.last_seq + 1 /\ t.last_seq = e.seq /\ e.covers < e.seq
<1>1. CASE s.rejected \/ s.pending_offer # {} \/ e.type = "manifest" \/ ~ InOrder(s, e)
  <2>1. t \in {s, NoteRejection(s)}
    BY <1>1 DEF Accept, AcceptRecord, AcceptCheckpoint, AcceptDiagnostic, IsEvent
  <2> QED BY <2>1 DEF NoteRejection, Sessions
<1>2. CASE ~ (s.rejected \/ s.pending_offer # {} \/ e.type = "manifest" \/ ~ InOrder(s, e))
  <2>1. PICK u \in Sessions : u = Advance(s, e)
    BY <1>2, AdvanceType
  <2>2. /\ u.durable_seqs = s.durable_seqs /\ u.committed = s.committed
        /\ u.last_committed_coverage = s.last_committed_coverage
        /\ u.records_by_seq = s.records_by_seq /\ u.pending_offer = s.pending_offer
        /\ u.last_seq = e.seq /\ e.seq = s.last_seq + 1 /\ s.last_seq < u.last_seq
    BY <1>2, <2>1 DEF Advance, InOrder, Sessions
  <2>3. CASE t = NoteRejection(u)
    BY <2>2, <2>3 DEF NoteRejection, Sessions
  <2>4. CASE e.type = "record" /\ t # NoteRejection(u)
    <3>1. t = [u EXCEPT !.seen_keys[e.key] = e.payload, !.record_count = @ + 1,
                        !.records_by_seq = @ \cup {e.seq}]
      BY <1>2, <2>1, <2>4 DEF Accept, AcceptRecord
    <3> QED BY <2>2, <3>1 DEF Sessions
  <2>5. CASE e.type = "checkpoint" /\ t # NoteRejection(u)
    <3>1. e.covers < e.seq
      BY <1>2, <2>1, <2>5 DEF Accept, AcceptCheckpoint, CheckpointAdmissible
    <3>2. t = [u EXCEPT !.final_claim = FinalClaim(s, e),
                        !.last_checkpoint_coverage = e.covers,
                        !.final_checkpoint_seq = IF e.is_final THEN {e.seq} ELSE @,
                        !.pending_offer = {OfferOf(e)}]
      BY <1>2, <2>1, <2>5 DEF Accept, AcceptCheckpoint
    <3> QED BY <2>2, <2>5, <3>1, <3>2 DEF Sessions
  <2>6. CASE e.type = "diagnostic" /\ t # NoteRejection(u)
    <3>1. t = [u EXCEPT !.diagnostic_count = @ + 1,
                        !.error_diagnostic = IF e.severity = "error" THEN TRUE ELSE @]
      BY <1>2, <2>1, <2>6 DEF Accept, AcceptDiagnostic
    <3> QED BY <2>2, <3>1 DEF Sessions
  <2> QED BY <1>2, <2>3, <2>4, <2>5, <2>6 DEF IsEvent
<1> QED BY <1>1, <1>2

\* A record the session takes is the next frame, and it is remembered.
LEMMA AcceptedRecord ==
  ASSUME NEW s \in Sessions, NEW e, IsEvent(e), e.type = "record",
         NEW t, t = Accept(s, e), ~ t.rejected
  PROVE  /\ ~ s.rejected
         /\ e.seq = s.last_seq + 1 /\ t.last_seq = e.seq
         /\ t.records_by_seq = s.records_by_seq \cup {e.seq}
         /\ t.seen_keys = [s.seen_keys EXCEPT ![e.key] = e.payload]
         /\ t.diagnostic_count = s.diagnostic_count
<1>1. ~ s.rejected /\ s.pending_offer = {}
  BY DEF Accept, NoteRejection, Sessions
<1>2. t = AcceptRecord(s, e)
  BY <1>1 DEF Accept
<1>3. InOrder(s, e)
  BY <1>2 DEF AcceptRecord, NoteRejection, Sessions
<1>4. PICK u \in Sessions : u = Advance(s, e)
  BY <1>3, AdvanceType
<1>5. RecordAdmissible(s, e)
  BY <1>2, <1>3, <1>4 DEF AcceptRecord, NoteRejection, Sessions
<1>6. t = [u EXCEPT !.seen_keys[e.key] = e.payload, !.record_count = @ + 1,
                    !.records_by_seq = @ \cup {e.seq}]
  BY <1>2, <1>3, <1>4, <1>5 DEF AcceptRecord
<1>7. /\ u.records_by_seq = s.records_by_seq /\ u.seen_keys = s.seen_keys
      /\ u.last_seq = e.seq /\ e.seq = s.last_seq + 1
      /\ u.diagnostic_count = s.diagnostic_count
  BY <1>3, <1>4 DEF Advance, InOrder, Sessions
<1> QED BY <1>1, <1>6, <1>7 DEF Sessions

-----------------------------------------------------------------------------
(* The invariant *)

\* The offers of a session: at most one is committed, it covers no more than
\* has arrived, and what is pending was offered after it.
OffersInOrder(s) ==
  /\ \A o \in s.committed \cup s.pending_offer : o.covers <= s.last_seq /\ o.seq <= s.last_seq
  /\ \A c \in s.committed : c.covers <= s.last_committed_coverage
  /\ \A c, d \in s.committed : c = d
  /\ \A c \in s.committed, o \in s.pending_offer : c.seq <= o.seq

\* Every record of the history has arrived and is known to the session.
RecordsKnown ==
  \A r \in history.records : r.seq \in session.records_by_seq /\ r.seq <= session.last_seq

IInv ==
  TypeOK /\ OffersInOrder(session) /\ RecordsKnown /\ CommittedCursorIsDurable

LEMMA InitIInv == Init => IInv
<1> SUFFICES ASSUME Init PROVE IInv
  OBVIOUS
<1>1. PICK run \in Runs, seed \in Seeds : session = NewSession(run[1], run[2], seed)
  BY DEF Init
<1>2. run[1] \in Manifests /\ run[2] \in Requests
  BY BoundAssumption
<1>3. seed \in [SourceKeys -> Payloads \cup {Unseen}]
  BY SeedAssumption
<1>4. session \in Sessions
  BY <1>1, <1>2, <1>3 DEF NewSession, Sessions
<1>5. session.committed = {} /\ session.pending_offer = {}
  BY <1>1 DEF NewSession
<1> QED BY <1>4, <1>5 DEF Init, NoHistory, IInv, TypeOK, HeldOffers, OffersInOrder,
                         RecordsKnown, CommittedCursorIsDurable, Histories

\* A frame keeps the invariant when the history gains no record.
LEMMA FrameIInv ==
  ASSUME IInv, NEW e, IsEvent(e), session' = Accept(session, e),
         history'.records = history.records, history' \in Histories
  PROVE  IInv'
<1>1. session \in Sessions
  BY DEF IInv, TypeOK
<1>2. session' \in Sessions
  BY <1>1, AcceptType
<1>3. /\ session'.durable_seqs = session.durable_seqs
      /\ session'.committed = session.committed
      /\ session'.last_committed_coverage = session.last_committed_coverage
      /\ session.records_by_seq \subseteq session'.records_by_seq
      /\ session.last_seq <= session'.last_seq
      /\ \/ session'.pending_offer = session.pending_offer
         \/ /\ e.type = "checkpoint" /\ session'.pending_offer = {OfferOf(e)}
            /\ e.seq = session.last_seq + 1 /\ session'.last_seq = e.seq /\ e.covers < e.seq
  BY <1>1, AcceptEffect
<1>4. TypeOK'
  BY <1>2 DEF IInv, TypeOK
<1>5. OffersInOrder(session')
  <2>1. CASE session'.pending_offer = session.pending_offer
    BY <1>1, <1>2, <1>3, <2>1 DEF IInv, OffersInOrder, Sessions, Offers
  <2>2. CASE session'.pending_offer # session.pending_offer
    <3>1. OfferOf(e).seq = session'.last_seq /\ OfferOf(e).covers < session'.last_seq
      BY <1>3, <2>2 DEF OfferOf
    <3>2. e.covers \in Nat
      BY <1>3, <2>2 DEF IsEvent
    <3> QED BY <1>1, <1>2, <1>3, <2>2, <3>1, <3>2 DEF IInv, OffersInOrder, Sessions, Offers, OfferOf
  <2> QED BY <2>1, <2>2
<1>6. RecordsKnown'
  BY <1>1, <1>2, <1>3 DEF IInv, TypeOK, RecordsKnown, Sessions
<1>7. CommittedCursorIsDurable'
  BY <1>3 DEF IInv, CommittedCursorIsDurable
<1> QED BY <1>4, <1>5, <1>6, <1>7 DEF IInv

\* Every frame the Field can send is an event.
LEMMA FramesAreEvents ==
  ASSUME session \in Sessions
  PROVE  /\ \A e \in RecordFrames \cup CheckpointFrames \cup DiagnosticFrames : IsEvent(e)
         /\ \A frame \in RecordFrames : \A e \in Defective(frame) : IsEvent(e) /\ e.type = "record"
<1>1. \A e \in RecordFrames : IsEvent(e)
  BY DEF RecordFrames, IsEvent
<1>2. \A e \in CheckpointFrames : IsEvent(e)
  <2> SUFFICES ASSUME NEW e \in CheckpointFrames PROVE IsEvent(e)
    OBVIOUS
  <2>1. e.covers \in Nat
    BY DEF CheckpointFrames, Sessions
  <2>2. e.claim \in SUBSET Claims
    BY DEF CheckpointFrames
  <2> QED BY <2>1, <2>2 DEF CheckpointFrames, IsEvent
<1>3. \A e \in DiagnosticFrames : IsEvent(e)
  BY DEF DiagnosticFrames, IsEvent
<1>4. ASSUME NEW frame \in RecordFrames, NEW e \in Defective(frame)
      PROVE  IsEvent(e) /\ e.type = "record"
  <2>1. e.type = "record" /\ e.key = frame.key /\ e.payload = frame.payload
    BY DEF Defective, RecordFrames
  <2> QED BY <2>1 DEF RecordFrames, IsEvent
<1> QED BY <1>1, <1>2, <1>3, <1>4

\* A record the session takes enters the history, above every committed cursor.
LEMMA RecordFrameIInv ==
  ASSUME IInv, RecordFrame
  PROVE  IInv'
<1>1. session \in Sessions
  BY DEF IInv, TypeOK
<1>2. PICK e \in RecordFrames :
        /\ session' = Accept(session, e)
        /\ history' = IF session'.rejected THEN history
                      ELSE [history EXCEPT !.records = @ \cup
                             {[seq |-> e.seq, key |-> e.key, payload |-> e.payload]}]
  BY DEF RecordFrame
<1>3. IsEvent(e) /\ e.type = "record"
  BY <1>1, FramesAreEvents DEF RecordFrames
<1>4. CASE session'.rejected
  BY <1>2, <1>3, <1>4, FrameIInv DEF IInv, TypeOK
<1>5. CASE ~ session'.rejected
  <2> DEFINE r == [seq |-> e.seq, key |-> e.key, payload |-> e.payload]
  <2>1. session' \in Sessions
    BY <1>1, <1>2, <1>3, AcceptType
  <2>2. /\ e.seq = session.last_seq + 1 /\ session'.last_seq = e.seq
        /\ session'.records_by_seq = session.records_by_seq \cup {e.seq}
    BY <1>1, <1>2, <1>3, <1>5, AcceptedRecord
  <2>3. /\ session'.durable_seqs = session.durable_seqs
        /\ session'.committed = session.committed
        /\ session'.last_committed_coverage = session.last_committed_coverage
        /\ session'.pending_offer = session.pending_offer
    BY <1>1, <1>2, <1>3, AcceptEffect
  <2>4. history'.records = history.records \cup {r}
    BY <1>2, <1>5 DEF IInv, TypeOK, Histories
  <2>5. TypeOK'
    <3>1. r \in [seq : Nat, key : SourceKeys, payload : Payloads]
      BY <1>1, <1>3, <2>2 DEF IsEvent, Sessions
    <3> QED BY <1>2, <1>5, <2>1, <3>1 DEF IInv, TypeOK, Histories
  <2>6. OffersInOrder(session')
    BY <1>1, <2>1, <2>2, <2>3 DEF IInv, OffersInOrder, Sessions, Offers
  <2>7. RecordsKnown'
    BY <1>1, <2>2, <2>4 DEF IInv, TypeOK, RecordsKnown, Sessions
  <2>8. CommittedCursorIsDurable'
    \* A committed offer covers at most last_seq, and the record is after that.
    BY <1>1, <2>2, <2>3, <2>4
       DEF IInv, OffersInOrder, CommittedCursorIsDurable, Sessions, Offers
  <2> QED BY <2>5, <2>6, <2>7, <2>8 DEF IInv
<1> QED BY <1>4, <1>5

LEMMA CheckpointFrameIInv ==
  ASSUME IInv, CheckpointFrame
  PROVE  IInv'
<1>1. session \in Sessions /\ history \in Histories
  BY DEF IInv, TypeOK
<1>2. PICK e \in CheckpointFrames :
        /\ session' = Accept(session, e)
        /\ history' = IF session'.rejected THEN history
                      ELSE [history EXCEPT !.checkpoints = @ \cup {e}]
  BY DEF CheckpointFrame
<1>3. IsEvent(e)
  BY <1>1, FramesAreEvents
<1>4. e \in [type : {"checkpoint"}, own_run : {TRUE}, seq : Nat, well_formed : {TRUE},
             cursor : Cursors, covers : Nat, records_covered : Nat, is_final : BOOLEAN,
             claim : SUBSET Claims]
  <2>1. session.last_seq + 1 \in Nat /\ 0 .. session.last_seq + 1 \subseteq Nat
        /\ 0 .. session.record_count \subseteq Nat
    BY <1>1 DEF Sessions
  <2>2. e.claim \in SUBSET Claims
    BY DEF CheckpointFrames
  <2> QED BY <2>1, <2>2 DEF CheckpointFrames, NextSeq
<1>5. history' \in Histories /\ history'.records = history.records
  BY <1>1, <1>2, <1>4 DEF Histories
<1> QED BY <1>2, <1>3, <1>5, FrameIInv

\* Frames that leave no trace in the history.
LEMMA OtherFramesIInv ==
  ASSUME IInv, DiagnosticFrame \/ DefectiveFrame \/ ManifestFrame \/ UndecodableFrame
  PROVE  IInv'
<1>1. session \in Sessions /\ history \in Histories
  BY DEF IInv, TypeOK
<1>2. CASE DiagnosticFrame \/ DefectiveFrame \/ ManifestFrame
  <2>1. PICK e : IsEvent(e) /\ session' = Accept(session, e)
    <3>1. CASE DiagnosticFrame
      BY <1>1, <3>1, FramesAreEvents DEF DiagnosticFrame
    <3>2. CASE DefectiveFrame
      BY <1>1, <3>2, FramesAreEvents DEF DefectiveFrame
    <3>3. CASE ManifestFrame
      BY <3>3 DEF ManifestFrame, IsEvent
    <3> QED BY <1>2, <3>1, <3>2, <3>3
  <2>2. history' = history
    BY <1>2 DEF DiagnosticFrame, DefectiveFrame, ManifestFrame
  <2> QED BY <1>1, <2>1, <2>2, FrameIInv
<1>3. CASE UndecodableFrame
  <2>1. session' = NoteRejection(session) /\ history' = history
    BY <1>3 DEF UndecodableFrame
  <2>2. session' \in Sessions
    BY <1>1, <2>1, RejectionType
  <2> QED BY <1>1, <2>1, <2>2
          DEF NoteRejection, IInv, TypeOK, OffersInOrder, RecordsKnown,
              CommittedCursorIsDurable, Sessions
<1> QED BY <1>2, <1>3

\* Resolving artifacts and marking a record durable only add.
LEMMA ResolveAndMarkIInv ==
  ASSUME IInv, Resolve \/ MarkDurable
  PROVE  IInv'
<1>1. session \in Sessions /\ history \in Histories
  BY DEF IInv, TypeOK
<1>2. history' = history
  BY DEF Resolve, MarkDurable
<1>3. session' \in Sessions
  <2>1. CASE Resolve
    BY <1>1, <2>1, CallTypes, BoundAssumption DEF Resolve
  <2>2. CASE MarkDurable
    BY <1>1, <2>2, CallTypes DEF MarkDurable, Histories
  <2> QED BY <2>1, <2>2
<1>4. /\ session.durable_seqs \subseteq session'.durable_seqs
      /\ session'.committed = session.committed
      /\ session'.last_committed_coverage = session.last_committed_coverage
      /\ session'.pending_offer = session.pending_offer
      /\ session'.records_by_seq = session.records_by_seq
      /\ session'.last_seq = session.last_seq
  BY <1>1 DEF Resolve, MarkDurable, ResolveArtifacts, RecordDurable, NoteRejection, Sessions
<1> QED BY <1>1, <1>2, <1>3, <1>4
        DEF IInv, TypeOK, OffersInOrder, RecordsKnown, CommittedCursorIsDurable

LEMMA HeldOffersType ==
  ASSUME history \in Histories
  PROVE  HeldOffers \subseteq Offers
<1> SUFFICES ASSUME NEW c \in history.checkpoints PROVE OfferOf(c) \in Offers
  BY DEF HeldOffers
<1>1. c.seq \in Nat /\ c.cursor \in Cursors /\ c.covers \in Nat /\ c.is_final \in BOOLEAN
  BY DEF Histories
<1> QED BY <1>1 DEF OfferOf, Offers

\* `commit` commits the pending offer, and only when nothing it covers is
\* undurable; `withhold` only drops it.
LEMMA CommitIInv ==
  ASSUME IInv, CommitOffer \/ WithholdOffer
  PROVE  IInv'
<1>1. session \in Sessions /\ history \in Histories
  BY DEF IInv, TypeOK
<1>2. HeldOffers \subseteq Offers
  BY <1>1, HeldOffersType
<1>3. PICK offer \in HeldOffers :
        \/ /\ session' = Commit(session, offer)
           /\ history' = IF CommitVerdict(session, offer) = "committed"
                           THEN [history EXCEPT !.committed = @ \cup {offer}]
                           ELSE history
        \/ session' = Withhold(session, offer) /\ history' = history
  BY DEF CommitOffer, WithholdOffer
<1>4. TypeOK'
  <2>1. session' \in Sessions
    BY <1>1, <1>2, <1>3, CallTypes
  <2>2. history' \in Histories
    <3>1. history.committed \cup {offer} \subseteq Offers
      BY <1>1, <1>2 DEF Histories
    <3> QED BY <1>1, <1>3, <3>1 DEF Histories
  <2> QED BY <2>1, <2>2 DEF TypeOK
<1>5. history'.records = history.records
  BY <1>1, <1>3 DEF Histories
<1>6. /\ session'.durable_seqs = session.durable_seqs
      /\ session'.records_by_seq = session.records_by_seq
      /\ session'.last_seq = session.last_seq
  BY <1>1, <1>3 DEF Commit, Withhold, Sessions
<1>7. CASE session'.committed = {offer} /\ session'.pending_offer = {}
           /\ session'.last_committed_coverage = offer.covers
           /\ session.pending_offer = {offer} /\ Undurable(session, offer.covers) = {}
  <2>1. offer \in Offers /\ offer.covers <= session.last_seq /\ offer.seq <= session.last_seq
    BY <1>2, <1>7 DEF IInv, OffersInOrder
  <2>2. OffersInOrder(session')
    BY <1>6, <1>7, <2>1 DEF OffersInOrder, Offers
  <2>3. CommittedCursorIsDurable'
    BY <1>5, <1>6, <1>7 DEF IInv, RecordsKnown, CommittedCursorIsDurable, Undurable
  <2> QED BY <1>4, <1>5, <1>6, <2>2, <2>3 DEF IInv, RecordsKnown
<1>8. CASE session'.committed = session.committed
           /\ session'.last_committed_coverage = session.last_committed_coverage
           /\ session'.pending_offer \subseteq session.pending_offer
  BY <1>4, <1>5, <1>6, <1>8
     DEF IInv, OffersInOrder, RecordsKnown, CommittedCursorIsDurable
<1>9. \/ /\ session'.committed = {offer} /\ session'.pending_offer = {}
         /\ session'.last_committed_coverage = offer.covers
         /\ session.pending_offer = {offer} /\ Undurable(session, offer.covers) = {}
      \/ /\ session'.committed = session.committed
         /\ session'.last_committed_coverage = session.last_committed_coverage
         /\ session'.pending_offer \subseteq session.pending_offer
  BY <1>1, <1>3 DEF Commit, CommitVerdict, Withhold, Sessions
<1> QED BY <1>7, <1>8, <1>9

LEMMA NextIInv == IInv /\ [Next]_vars => IInv'
<1> SUFFICES ASSUME IInv, [Next]_vars PROVE IInv'
  OBVIOUS
<1>1. CASE RecordFrame
  BY <1>1, RecordFrameIInv
<1>2. CASE CheckpointFrame
  BY <1>2, CheckpointFrameIInv
<1>3. CASE DiagnosticFrame \/ DefectiveFrame \/ ManifestFrame \/ UndecodableFrame
  BY <1>3, OtherFramesIInv
<1>4. CASE Resolve \/ MarkDurable
  BY <1>4, ResolveAndMarkIInv
<1>5. CASE CommitOffer \/ WithholdOffer
  BY <1>5, CommitIInv
<1>6. CASE UNCHANGED vars
  BY <1>6 DEF vars, IInv, TypeOK, OffersInOrder, RecordsKnown, CommittedCursorIsDurable
<1> QED BY <1>1, <1>2, <1>3, <1>4, <1>5, <1>6 DEF Next

LEMMA InvariantHolds == Spec => []IInv
  BY InitIInv, NextIInv, PTL DEF Spec

-----------------------------------------------------------------------------
(* The theorems *)

\* The session and the history always have their types: no arithmetic of
\* sequence numbers, coverages or counters leaves its range.
THEOREM TypeCorrect == Spec => []TypeOK
<1>1. IInv => TypeOK
  BY DEF IInv
<1> QED BY <1>1, InvariantHolds, PTL

\* However many records a run has and whatever the Field sends, a committed
\* cursor never covers a record that is not durable.
THEOREM CursorIsDurable == Spec => []CommittedCursorIsDurable
<1>1. IInv => CommittedCursorIsDurable
  BY DEF IInv
<1> QED BY <1>1, InvariantHolds, PTL

\* The committed offer changes in one way only: `commit` takes the pending offer
\* of a run without a rejection, at or beyond the coverage committed before.
LEMMA OnlyCommitCommits ==
  ASSUME IInv, [Next]_vars
  PROVE  \/ session'.committed = session.committed
         \/ \E offer \in session.pending_offer :
              /\ session'.committed = {offer} /\ ~ session.rejected
              /\ session.last_committed_coverage <= offer.covers
<1>1. session \in Sessions /\ history \in Histories
  BY DEF IInv, TypeOK
<1>2. ASSUME NEW e, IsEvent(e), session' = Accept(session, e)
      PROVE  session'.committed = session.committed
  BY <1>1, <1>2, AcceptEffect
<1>3. CASE RecordFrame
  BY <1>1, <1>2, <1>3, FramesAreEvents DEF RecordFrame
<1>4. CASE CheckpointFrame
  BY <1>1, <1>2, <1>4, FramesAreEvents DEF CheckpointFrame
<1>5. CASE DiagnosticFrame
  BY <1>1, <1>2, <1>5, FramesAreEvents DEF DiagnosticFrame
<1>6. CASE DefectiveFrame
  BY <1>1, <1>2, <1>6, FramesAreEvents DEF DefectiveFrame
<1>7. CASE ManifestFrame
  BY <1>2, <1>7 DEF ManifestFrame, IsEvent
<1>8. CASE UndecodableFrame \/ Resolve \/ MarkDurable \/ WithholdOffer \/ UNCHANGED vars
  BY <1>1, <1>8 DEF UndecodableFrame, Resolve, MarkDurable, WithholdOffer, vars, NoteRejection,
                    ResolveArtifacts, RecordDurable, Withhold, Sessions
<1>9. CASE CommitOffer
  <2>1. PICK offer \in HeldOffers : session' = Commit(session, offer)
    BY <1>9 DEF CommitOffer
  <2>2. offer \in Offers
    BY <1>1, HeldOffersType
  <2>3. CASE CommitVerdict(session, offer) = "committed"
    <3>1. /\ session.pending_offer = {offer} /\ ~ session.rejected
          /\ ~ offer.covers < session.last_committed_coverage
      BY <2>3 DEF CommitVerdict
    <3>2. session'.committed = {offer}
      BY <1>1, <2>1, <2>3 DEF Commit, Sessions
    <3> QED BY <1>1, <2>2, <3>1, <3>2 DEF Sessions, Offers
  <2>4. CASE CommitVerdict(session, offer) # "committed"
    BY <1>1, <2>1, <2>4 DEF Commit, Sessions
  <2> QED BY <2>3, <2>4
<1> QED BY <1>3, <1>4, <1>5, <1>6, <1>7, <1>8, <1>9 DEF Next

\* Once a run has rejected a frame its committed cursor stays what it is, even
\* if an offer was pending.
THEOREM RejectionIsFinal == Spec => RejectedRunCommitsNothing
<1>1. IInv /\ [Next]_vars => [session.rejected => session'.committed = session.committed]_vars
  BY OnlyCommitCommits
<1> QED BY <1>1, InvariantHolds, PTL DEF Spec, RejectedRunCommitsNothing

\* No order of offers, commits and withholds puts an older cursor back.
THEOREM CursorIsMonotonic == Spec => CommitNeverRegresses
<1> DEFINE Forward == \A c \in session.committed, d \in session'.committed :
                        c.covers <= d.covers /\ c.seq <= d.seq
<1>1. ASSUME IInv, [Next]_vars PROVE Forward
  <2>1. session \in Sessions /\ OffersInOrder(session)
    BY <1>1 DEF IInv, TypeOK
  <2>2. CASE session'.committed = session.committed
    BY <2>1, <2>2 DEF OffersInOrder, Sessions, Offers
  <2>3. CASE \E offer \in session.pending_offer :
               /\ session'.committed = {offer}
               /\ session.last_committed_coverage <= offer.covers
    BY <2>1, <2>3 DEF OffersInOrder, Sessions, Offers
  <2> QED BY <1>1, <2>2, <2>3, OnlyCommitCommits
<1> QED BY <1>1, InvariantHolds, PTL DEF Spec, CommitNeverRegresses

-----------------------------------------------------------------------------
(* What an accepted frame does *)

\* A frame that is refused leaves the session as it was, but for the rejection
\* and perhaps the sequence number.
LEMMA RefusedFrame ==
  ASSUME NEW s \in Sessions, NEW e, IsEvent(e), NEW t, t = Accept(s, e), t.rejected
  PROVE  /\ t.seen_keys = s.seen_keys
         /\ t.final_claim = s.final_claim
         /\ t.final_claim_committed = s.final_claim_committed
         /\ t.final_checkpoint_seq = s.final_checkpoint_seq
         /\ t.pending_offer = s.pending_offer
         /\ t.manifest = s.manifest /\ t.request = s.request
<1>1. CASE s.rejected \/ s.pending_offer # {} \/ e.type = "manifest" \/ ~ InOrder(s, e)
  <2>1. t \in {s, NoteRejection(s)}
    BY <1>1 DEF Accept, AcceptRecord, AcceptCheckpoint, AcceptDiagnostic, IsEvent
  <2> QED BY <2>1 DEF NoteRejection, Sessions
<1>2. CASE ~ (s.rejected \/ s.pending_offer # {} \/ e.type = "manifest" \/ ~ InOrder(s, e))
  <2>1. PICK u \in Sessions : u = Advance(s, e)
    BY <1>2, AdvanceType
  <2>2. ~ u.rejected
    BY <1>2, <2>1 DEF Advance, Sessions
  <2>3. t = NoteRejection(u)
    BY <1>2, <2>1, <2>2
       DEF Accept, AcceptRecord, AcceptCheckpoint, AcceptDiagnostic, IsEvent, Sessions
  <2> QED BY <2>1, <2>3 DEF Advance, NoteRejection, Sessions
<1> QED BY <1>1, <1>2

\* What every accepted frame has in common: it is the next one.
LEMMA AcceptedFrame ==
  ASSUME NEW s \in Sessions, NEW e, IsEvent(e), NEW t, t = Accept(s, e), ~ t.rejected
  PROVE  /\ ~ s.rejected /\ s.pending_offer = {} /\ InOrder(s, e)
         /\ s.final_checkpoint_seq = {} /\ e.seq = s.last_seq + 1 /\ t.last_seq = e.seq
         /\ t.final_claim_committed = s.final_claim_committed
         /\ t.manifest = s.manifest /\ t.request = s.request
<1>1. ~ s.rejected /\ s.pending_offer = {} /\ e.type # "manifest"
  BY DEF Accept, NoteRejection, Sessions
<1>2. InOrder(s, e)
  BY <1>1 DEF Accept, AcceptRecord, AcceptCheckpoint, AcceptDiagnostic, NoteRejection,
              IsEvent, Sessions
<1>3. PICK u \in Sessions : u = Advance(s, e)
  BY <1>2, AdvanceType
<1>4. /\ u.last_seq = e.seq /\ u.final_claim_committed = s.final_claim_committed
      /\ u.manifest = s.manifest /\ u.request = s.request
  BY <1>3 DEF Advance, Sessions
<1>5. t # NoteRejection(u)
  BY <1>3 DEF NoteRejection, Sessions
<1>6. \/ t = [u EXCEPT !.seen_keys[e.key] = e.payload, !.record_count = @ + 1,
                       !.records_by_seq = @ \cup {e.seq}]
      \/ t = [u EXCEPT !.final_claim = FinalClaim(s, e),
                       !.last_checkpoint_coverage = e.covers,
                       !.final_checkpoint_seq = IF e.is_final THEN {e.seq} ELSE @,
                       !.pending_offer = {OfferOf(e)}]
      \/ t = [u EXCEPT !.diagnostic_count = @ + 1,
                       !.error_diagnostic = IF e.severity = "error" THEN TRUE ELSE @]
  BY <1>1, <1>2, <1>3, <1>5
     DEF Accept, AcceptRecord, AcceptCheckpoint, AcceptDiagnostic, IsEvent
<1> QED BY <1>1, <1>2, <1>4, <1>6 DEF InOrder, Sessions

LEMMA AcceptedCheckpoint ==
  ASSUME NEW s \in Sessions, NEW e, IsEvent(e), e.type = "checkpoint",
         NEW t, t = Accept(s, e), ~ t.rejected
  PROVE  /\ t.final_claim = FinalClaim(s, e)
         /\ t.final_checkpoint_seq = IF e.is_final THEN {e.seq} ELSE {}
         /\ t.pending_offer = {OfferOf(e)}
         /\ t.seen_keys = s.seen_keys /\ t.diagnostic_count = s.diagnostic_count
<1>1. ~ s.rejected /\ s.pending_offer = {} /\ InOrder(s, e) /\ s.final_checkpoint_seq = {}
  BY AcceptedFrame
<1>2. PICK u \in Sessions : u = Advance(s, e)
  BY <1>1, AdvanceType
<1>3. t # NoteRejection(u)
  BY <1>2 DEF NoteRejection, Sessions
<1>4. t = [u EXCEPT !.final_claim = FinalClaim(s, e),
                    !.last_checkpoint_coverage = e.covers,
                    !.final_checkpoint_seq = IF e.is_final THEN {e.seq} ELSE @,
                    !.pending_offer = {OfferOf(e)}]
  BY <1>1, <1>2, <1>3 DEF Accept, AcceptCheckpoint
<1>5. /\ u.final_checkpoint_seq = {} /\ u.seen_keys = s.seen_keys
      /\ u.diagnostic_count = s.diagnostic_count
  BY <1>1, <1>2 DEF Advance, Sessions
<1> QED BY <1>4, <1>5 DEF Sessions

LEMMA AcceptedDiagnostic ==
  ASSUME NEW s \in Sessions, NEW e, IsEvent(e), e.type = "diagnostic",
         NEW t, t = Accept(s, e), ~ t.rejected
  PROVE  /\ t.diagnostic_count = s.diagnostic_count + 1
         /\ t.seen_keys = s.seen_keys /\ t.final_claim = s.final_claim
         /\ t.final_checkpoint_seq = {} /\ t.pending_offer = {}
<1>1. ~ s.rejected /\ s.pending_offer = {} /\ InOrder(s, e) /\ s.final_checkpoint_seq = {}
  BY AcceptedFrame
<1>2. PICK u \in Sessions : u = Advance(s, e)
  BY <1>1, AdvanceType
<1>3. t # NoteRejection(u)
  BY <1>2 DEF NoteRejection, Sessions
<1>4. t = [u EXCEPT !.diagnostic_count = @ + 1,
                    !.error_diagnostic = IF e.severity = "error" THEN TRUE ELSE @]
  BY <1>1, <1>2, <1>3 DEF Accept, AcceptDiagnostic
<1>5. /\ u.final_checkpoint_seq = {} /\ u.seen_keys = s.seen_keys /\ u.pending_offer = {}
      /\ u.diagnostic_count = s.diagnostic_count /\ u.final_claim = s.final_claim
  BY <1>1, <1>2 DEF Advance, Sessions
<1> QED BY <1>4, <1>5 DEF Sessions

LEMMA AcceptedRecordClaims ==
  ASSUME NEW s \in Sessions, NEW e, IsEvent(e), e.type = "record",
         NEW t, t = Accept(s, e), ~ t.rejected
  PROVE  /\ t.final_claim = s.final_claim
         /\ t.final_checkpoint_seq = {} /\ t.pending_offer = {}
<1>1. ~ s.rejected /\ s.pending_offer = {} /\ InOrder(s, e) /\ s.final_checkpoint_seq = {}
  BY AcceptedFrame
<1>2. PICK u \in Sessions : u = Advance(s, e)
  BY <1>1, AdvanceType
<1>3. t # NoteRejection(u)
  BY <1>2 DEF NoteRejection, Sessions
<1>4. t = [u EXCEPT !.seen_keys[e.key] = e.payload, !.record_count = @ + 1,
                    !.records_by_seq = @ \cup {e.seq}]
  BY <1>1, <1>2, <1>3 DEF Accept, AcceptRecord
<1>5. /\ u.final_checkpoint_seq = {} /\ u.pending_offer = {}
      /\ u.final_claim = s.final_claim
  BY <1>1, <1>2 DEF Advance, Sessions
<1> QED BY <1>4, <1>5 DEF Sessions

\* A defective frame is always refused.
LEMMA DefectIsRefused ==
  ASSUME session \in Sessions, NEW frame \in RecordFrames, NEW e \in Defective(frame)
  PROVE  Accept(session, e).rejected
<1>1. IsEvent(e) /\ e.type = "record"
  BY FramesAreEvents
<1>2. e.own_run = FALSE \/ e.seq # session.last_seq + 1 \/ e.well_formed = FALSE
  BY DEF Defective, RecordFrames, NextSeq, Sessions
<1> SUFFICES ASSUME NEW t, t = Accept(session, e), ~ t.rejected PROVE FALSE
  OBVIOUS
<1>3. ~ session.rejected /\ session.pending_offer = {} /\ InOrder(session, e)
  BY <1>1, AcceptedFrame
<1>4. ~ RecordAdmissible(session, e)
  BY <1>2, <1>3 DEF InOrder, RecordAdmissible
<1>5. t = NoteRejection(Advance(session, e))
  BY <1>1, <1>3, <1>4 DEF Accept, AcceptRecord
<1> QED BY <1>3, <1>5, AdvanceType DEF NoteRejection, Sessions

-----------------------------------------------------------------------------
(* No frame is missing, and the last assertion rules *)

\* The history is finite and none of it lies after the last frame.
HistoryBounded ==
  /\ IsFiniteSet(history.records) /\ IsFiniteSet(history.checkpoints)
  /\ \A r \in history.records : r.seq <= session.last_seq
  /\ \A c \in history.checkpoints : c.seq <= session.last_seq

FInv == IInv /\ HistoryBounded /\ NoFrameIsMissing /\ LastAssertionRules

LEMMA HistoryTypes ==
  ASSUME history \in Histories
  PROVE  /\ \A r \in history.records : r.seq \in Nat /\ r.key \in SourceKeys
         /\ \A c \in history.checkpoints : c.seq \in Nat
<1>1. /\ history.records \subseteq [seq : Nat, key : SourceKeys, payload : Payloads]
      /\ \A c \in history.checkpoints : c.seq \in Nat
  BY DEF Histories
<1> QED BY <1>1

LEMMA InitFInv == Init => FInv
<1> SUFFICES ASSUME Init PROVE FInv
  OBVIOUS
<1>1. history = NoHistory /\ session.last_seq = 0 /\ session.diagnostic_count = 0
  BY DEF Init, NewSession
<1>2. IsFiniteSet(history.records) /\ Cardinality(history.records) = 0
      /\ IsFiniteSet(history.checkpoints) /\ Cardinality(history.checkpoints) = 0
  BY <1>1, FS_EmptySet DEF NoHistory
<1> QED BY <1>1, <1>2, InitIInv
        DEF FInv, HistoryBounded, NoFrameIsMissing, LastAssertionRules, NoHistory

\* A step that adds nothing to the history keeps what it says, if the session
\* has taken no frame or is rejected.
LEMMA QuietStep ==
  ASSUME FInv, IInv', session.last_seq <= session'.last_seq,
         session'.seen_keys = session.seen_keys,
         history'.records = history.records, history'.checkpoints = history.checkpoints,
         \/ session'.rejected
         \/ /\ ~ session.rejected /\ session'.last_seq = session.last_seq
            /\ session'.diagnostic_count = session.diagnostic_count
  PROVE  FInv'
<1>1. session \in Sessions /\ session' \in Sessions /\ history \in Histories
  BY DEF FInv, IInv, TypeOK
<1>2. HistoryBounded'
  BY <1>1, HistoryTypes DEF FInv, HistoryBounded, Sessions
<1>3. NoFrameIsMissing'
  BY DEF FInv, NoFrameIsMissing
<1>4. LastAssertionRules'
  BY DEF FInv, LastAssertionRules
<1> QED BY <1>2, <1>3, <1>4 DEF FInv

LEMMA RecordFrameFInv ==
  ASSUME FInv, IInv', RecordFrame
  PROVE  FInv'
<1>1. session \in Sessions /\ session' \in Sessions /\ history \in Histories
  BY DEF FInv, IInv, TypeOK
<1>2. PICK e \in RecordFrames :
        /\ session' = Accept(session, e)
        /\ history' = IF session'.rejected THEN history
                      ELSE [history EXCEPT !.records = @ \cup
                             {[seq |-> e.seq, key |-> e.key, payload |-> e.payload]}]
  BY DEF RecordFrame
<1>3. IsEvent(e) /\ e.type = "record"
  BY <1>1, FramesAreEvents DEF RecordFrames
<1>4. CASE session'.rejected
  <2>1. session.last_seq <= session'.last_seq /\ session'.seen_keys = session.seen_keys
    BY <1>1, <1>2, <1>3, <1>4, AcceptEffect, RefusedFrame
  <2> QED BY <1>2, <1>4, <2>1, QuietStep
<1>5. CASE ~ session'.rejected
  <2> DEFINE r == [seq |-> e.seq, key |-> e.key, payload |-> e.payload]
  <2>1. /\ ~ session.rejected
        /\ e.seq = session.last_seq + 1 /\ session'.last_seq = e.seq
        /\ session'.seen_keys = [session.seen_keys EXCEPT ![e.key] = e.payload]
        /\ session'.diagnostic_count = session.diagnostic_count
    BY <1>1, <1>2, <1>3, <1>5, AcceptedRecord
  <2>2. history'.records = history.records \cup {r}
        /\ history'.checkpoints = history.checkpoints
    BY <1>1, <1>2, <1>5 DEF Histories
  <2>3. \A q \in history.records : q.seq \in Nat /\ q.key \in SourceKeys /\ q.seq < e.seq
    BY <1>1, <2>1, HistoryTypes DEF FInv, HistoryBounded, Sessions
  <2>4. HistoryBounded'
    <3>1. IsFiniteSet(history'.records)
      BY <2>2, FS_AddElement DEF FInv, HistoryBounded
    <3>2. \A q \in history'.records : q.seq <= session'.last_seq
      BY <1>1, <2>1, <2>2, <2>3 DEF Sessions
    <3>3. \A c \in history'.checkpoints : c.seq <= session'.last_seq
      BY <1>1, <2>1, <2>2, HistoryTypes DEF FInv, HistoryBounded, Sessions
    <3> QED BY <2>2, <3>1, <3>2, <3>3 DEF FInv, HistoryBounded
  <2>5. NoFrameIsMissing'
    <3>1. r \notin history.records
      BY <1>1, <2>1, <2>3 DEF Sessions
    <3>2. Cardinality(history'.records) = Cardinality(history.records) + 1
      BY <2>2, <3>1, FS_AddElement DEF FInv, HistoryBounded
    <3>3. Cardinality(history.records) \in Nat /\ Cardinality(history.checkpoints) \in Nat
      BY FS_CardinalityType DEF FInv, HistoryBounded
    <3> QED BY <1>1, <2>1, <2>2, <3>2, <3>3 DEF FInv, NoFrameIsMissing, Sessions
  <2>6. LastAssertionRules'
    <3> SUFFICES ASSUME NEW q \in history'.records,
                        \A p \in history'.records : p.key = q.key => p.seq <= q.seq
                 PROVE  session'.seen_keys[q.key] = q.payload
      BY DEF LastAssertionRules
    <3>1. CASE q = r
      BY <1>1, <1>3, <2>1, <3>1 DEF IsEvent, Sessions
    <3>2. CASE q # r
      <4>0. q \in history.records /\ r \in history'.records
        BY <2>2, <3>2
      <4>1. q \in history.records /\ q.key # e.key
        <5>1. ~ e.seq <= q.seq
          BY <1>1, <2>1, <2>3, <4>0 DEF Sessions
        <5>2. r.key = e.key /\ r.seq = e.seq
          OBVIOUS
        <5> HIDE DEF r
        <5> QED BY <4>0, <5>1, <5>2
      <4>2. session.seen_keys[q.key] = q.payload
        BY <2>2, <4>1 DEF FInv, LastAssertionRules
      <4> QED BY <1>1, <2>1, <2>3, <4>1, <4>2 DEF Sessions
    <3> QED BY <3>1, <3>2
  <2> QED BY <2>4, <2>5, <2>6 DEF FInv
<1> QED BY <1>4, <1>5

LEMMA CheckpointFrameFInv ==
  ASSUME FInv, IInv', CheckpointFrame
  PROVE  FInv'
<1>1. session \in Sessions /\ session' \in Sessions /\ history \in Histories
  BY DEF FInv, IInv, TypeOK
<1>2. PICK e \in CheckpointFrames :
        /\ session' = Accept(session, e)
        /\ history' = IF session'.rejected THEN history
                      ELSE [history EXCEPT !.checkpoints = @ \cup {e}]
  BY DEF CheckpointFrame
<1>3. IsEvent(e) /\ e.type = "checkpoint"
  BY <1>1, FramesAreEvents DEF CheckpointFrames
<1>4. CASE session'.rejected
  <2>1. session.last_seq <= session'.last_seq /\ session'.seen_keys = session.seen_keys
    BY <1>1, <1>2, <1>3, <1>4, AcceptEffect, RefusedFrame
  <2> QED BY <1>2, <1>4, <2>1, QuietStep
<1>5. CASE ~ session'.rejected
  <2>1. /\ ~ session.rejected
        /\ e.seq = session.last_seq + 1 /\ session'.last_seq = e.seq
        /\ session'.seen_keys = session.seen_keys
        /\ session'.diagnostic_count = session.diagnostic_count
    <3>1. ~ session.rejected /\ e.seq = session.last_seq + 1 /\ session'.last_seq = e.seq
      BY <1>1, <1>2, <1>3, <1>5, AcceptedFrame
    <3>2. /\ session'.seen_keys = session.seen_keys
          /\ session'.diagnostic_count = session.diagnostic_count
      BY <1>1, <1>2, <1>3, <1>5, AcceptedCheckpoint
    <3> QED BY <3>1, <3>2
  <2>2. history'.records = history.records
        /\ history'.checkpoints = history.checkpoints \cup {e}
    BY <1>1, <1>2, <1>5 DEF Histories
  <2>3. \A c \in history.checkpoints : c.seq \in Nat /\ c.seq < e.seq
    BY <1>1, <2>1, HistoryTypes DEF FInv, HistoryBounded, Sessions
  <2>4. HistoryBounded'
    <3>1. IsFiniteSet(history'.checkpoints)
      BY <2>2, FS_AddElement DEF FInv, HistoryBounded
    <3>2. \A c \in history'.checkpoints : c.seq <= session'.last_seq
      BY <1>1, <2>1, <2>2, <2>3 DEF Sessions
    <3>3. \A r \in history'.records : r.seq <= session'.last_seq
      BY <1>1, <2>1, <2>2, HistoryTypes DEF FInv, HistoryBounded, Sessions
    <3> QED BY <2>2, <3>1, <3>2, <3>3 DEF FInv, HistoryBounded
  <2>5. NoFrameIsMissing'
    <3>1. e \notin history.checkpoints
      BY <1>1, <2>1, <2>3 DEF Sessions
    <3>2. Cardinality(history'.checkpoints) = Cardinality(history.checkpoints) + 1
      BY <2>2, <3>1, FS_AddElement DEF FInv, HistoryBounded
    <3>3. Cardinality(history.records) \in Nat /\ Cardinality(history.checkpoints) \in Nat
      BY FS_CardinalityType DEF FInv, HistoryBounded
    <3> QED BY <1>1, <2>1, <2>2, <3>2, <3>3 DEF FInv, NoFrameIsMissing, Sessions
  <2>6. LastAssertionRules'
    BY <2>1, <2>2 DEF FInv, LastAssertionRules
  <2> QED BY <2>4, <2>5, <2>6 DEF FInv
<1> QED BY <1>4, <1>5

LEMMA DiagnosticFrameFInv ==
  ASSUME FInv, IInv', DiagnosticFrame
  PROVE  FInv'
<1>1. session \in Sessions /\ session' \in Sessions /\ history \in Histories
  BY DEF FInv, IInv, TypeOK
<1>2. PICK e \in DiagnosticFrames : session' = Accept(session, e)
  BY DEF DiagnosticFrame
<1>3. IsEvent(e) /\ e.type = "diagnostic" /\ history' = history
  BY <1>1, FramesAreEvents DEF DiagnosticFrames, DiagnosticFrame
<1>4. session.last_seq <= session'.last_seq
  BY <1>1, <1>2, <1>3, AcceptEffect
<1>5. CASE session'.rejected
  BY <1>1, <1>2, <1>3, <1>4, <1>5, RefusedFrame, QuietStep
<1>6. CASE ~ session'.rejected
  <2>1. /\ ~ session.rejected
        /\ session'.last_seq = session.last_seq + 1
        /\ session'.diagnostic_count = session.diagnostic_count + 1
        /\ session'.seen_keys = session.seen_keys
    BY <1>1, <1>2, <1>3, <1>6, AcceptedFrame, AcceptedDiagnostic
  <2>2. HistoryBounded'
    BY <1>1, <1>3, <1>4, HistoryTypes DEF FInv, HistoryBounded, Sessions
  <2>3. NoFrameIsMissing'
    <3>1. Cardinality(history.records) \in Nat /\ Cardinality(history.checkpoints) \in Nat
      BY FS_CardinalityType DEF FInv, HistoryBounded
    <3> QED BY <1>1, <1>3, <2>1, <3>1 DEF FInv, NoFrameIsMissing, Sessions
  <2> QED BY <1>3, <2>1, <2>2, <2>3 DEF FInv, LastAssertionRules
<1> QED BY <1>5, <1>6

LEMMA NextFInv == FInv /\ [Next]_vars => FInv'
<1> SUFFICES ASSUME FInv, [Next]_vars PROVE FInv'
  OBVIOUS
<1>1. IInv'
  BY NextIInv DEF FInv
<1>2. session \in Sessions /\ history \in Histories
  BY DEF FInv, IInv, TypeOK
<1>3. CASE RecordFrame
  BY <1>1, <1>3, RecordFrameFInv
<1>4. CASE CheckpointFrame
  BY <1>1, <1>4, CheckpointFrameFInv
<1>5. CASE DiagnosticFrame
  BY <1>1, <1>5, DiagnosticFrameFInv
<1>6. CASE DefectiveFrame
  <2>0. PICK frame \in RecordFrames : \E e \in Defective(frame) : session' = Accept(session, e)
    BY <1>6 DEF DefectiveFrame
  <2>1. PICK e \in Defective(frame) : session' = Accept(session, e)
    BY <2>0
  <2>2. IsEvent(e) /\ session'.rejected /\ history' = history
    BY <1>2, <1>6, <2>1, FramesAreEvents, DefectIsRefused DEF DefectiveFrame
  <2> QED BY <1>1, <1>2, <2>1, <2>2, AcceptEffect, RefusedFrame, QuietStep
<1>7. CASE ManifestFrame
  <2>1. PICK e : e = [type |-> "manifest"]
    OBVIOUS
  <2>2. IsEvent(e) /\ session' = Accept(session, e) /\ history' = history
    BY <1>7, <2>1 DEF IsEvent, ManifestFrame
  <2>3. session'.rejected
    BY <1>2, <2>1, <2>2 DEF Accept, NoteRejection, Sessions
  <2> QED BY <1>1, <1>2, <2>2, <2>3, AcceptEffect, RefusedFrame, QuietStep
<1>8. CASE UndecodableFrame \/ Resolve \/ MarkDurable \/ WithholdOffer \/ CommitOffer
  <2>1. /\ session'.last_seq = session.last_seq /\ session'.seen_keys = session.seen_keys
        /\ session'.diagnostic_count = session.diagnostic_count
        /\ session.rejected => session'.rejected
    BY <1>2, <1>8 DEF UndecodableFrame, Resolve, MarkDurable, WithholdOffer, CommitOffer,
       NoteRejection, ResolveArtifacts, RecordDurable, Withhold, Commit, Sessions
  <2>2. history'.records = history.records /\ history'.checkpoints = history.checkpoints
    BY <1>2, <1>8 DEF UndecodableFrame, Resolve, MarkDurable, WithholdOffer, CommitOffer,
       Histories
  <2>3. session.last_seq <= session'.last_seq
    BY <1>2, <2>1 DEF Sessions
  <2> QED BY <1>1, <2>1, <2>2, <2>3, QuietStep
<1>9. CASE UNCHANGED vars
  BY <1>1, <1>9 DEF vars, FInv, HistoryBounded, NoFrameIsMissing, LastAssertionRules
<1> QED BY <1>3, <1>4, <1>5, <1>6, <1>7, <1>8, <1>9 DEF Next

LEMMA HistoryInvariantHolds == Spec => []FInv
  BY InitFInv, NextFInv, PTL DEF Spec

\* Without a rejection the accepted frames are exactly 1..last_seq, for a run
\* of any length.
THEOREM FramesAreContiguous == Spec => []NoFrameIsMissing
<1>1. FInv => NoFrameIsMissing
  BY DEF FInv
<1> QED BY <1>1, HistoryInvariantHolds, PTL

\* The payload a record is compared with is the last one accepted for its key,
\* so what is called "no_change" is what the Field asserted last.
THEOREM LastAssertionIsRemembered == Spec => []LastAssertionRules
<1>1. FInv => LastAssertionRules
  BY DEF FInv
<1> QED BY <1>1, HistoryInvariantHolds, PTL

-----------------------------------------------------------------------------
(* What an authorization to delete rests on *)

\* The run was closed by c, the last frame it took.
ClosedBy(c) ==
  /\ c.is_final /\ session.final_checkpoint_seq = {c.seq}
  /\ ~ session.rejected => c.seq = session.last_seq

\* The session's claim is the last one made, and the flag that its checkpoint
\* was committed is raised by the offer of the checkpoint that closed the run.
ClaimsTracked ==
  /\ \A c \in LastClaims : c.claim = session.final_claim
  /\ session.final_claim # {} => LastClaims # {}
  /\ \A o \in session.pending_offer :
       session.final_checkpoint_seq = {o.seq} =>
         \E c \in history.checkpoints : ClosedBy(c) /\ o = OfferOf(c)
  /\ session.final_claim_committed =>
       \E c \in history.checkpoints : ClosedBy(c) /\ OfferOf(c) \in history.committed

AInv == FInv /\ ClaimsTracked

LEMMA InitAInv == Init => AInv
<1> SUFFICES ASSUME Init PROVE AInv
  OBVIOUS
<1>1. /\ history = NoHistory /\ session.final_claim = {} /\ session.pending_offer = {}
      /\ ~ session.final_claim_committed
  BY DEF Init, NewSession
<1> QED BY <1>1, InitFInv DEF AInv, ClaimsTracked, LastClaims, NoHistory

LEMMA QuietClaims ==
  ASSUME ClaimsTracked,
         session'.final_claim = session.final_claim,
         session'.final_checkpoint_seq = session.final_checkpoint_seq,
         session'.pending_offer \subseteq session.pending_offer,
         session'.final_claim_committed = session.final_claim_committed,
         ~ session'.rejected => ~ session.rejected /\ session'.last_seq = session.last_seq,
         history'.checkpoints = history.checkpoints,
         history'.committed = history.committed
  PROVE  ClaimsTracked'
<1>1. LastClaims' = LastClaims
  BY DEF LastClaims
<1>2. \A c : ClosedBy(c) => ClosedBy(c)'
  BY DEF ClosedBy
<1> QED BY <1>1, <1>2 DEF ClaimsTracked

\* A refused frame, or one that makes no offer.
LEMMA FrameClaims ==
  ASSUME AInv, NEW e, IsEvent(e), session' = Accept(session, e),
         session'.rejected \/ e.type # "checkpoint",
         history'.checkpoints = history.checkpoints, history'.committed = history.committed
  PROVE  ClaimsTracked'
<1>1. session \in Sessions /\ ClaimsTracked
  BY DEF AInv, FInv, IInv, TypeOK
<1>2. CASE session'.rejected
  BY <1>1, <1>2, RefusedFrame, QuietClaims
<1>3. CASE ~ session'.rejected /\ e.type \in {"record", "diagnostic"}
  <2>1. /\ session.final_checkpoint_seq = {} /\ session.pending_offer = {}
        /\ session'.final_claim_committed = session.final_claim_committed
    BY <1>1, <1>3, AcceptedFrame
  <2>2. /\ session'.final_claim = session.final_claim
        /\ session'.final_checkpoint_seq = {} /\ session'.pending_offer = {}
    <3>1. CASE e.type = "diagnostic"
      BY <1>1, <1>3, <3>1, AcceptedDiagnostic
    <3>2. CASE e.type = "record"
      BY <1>1, <1>3, <2>1, <3>2, AcceptedRecordClaims
    <3> QED BY <1>3, <3>1, <3>2
  <2>3. LastClaims' = LastClaims
    BY DEF LastClaims
  <2>4. ~ session.final_claim_committed
    BY <1>1, <2>1 DEF ClaimsTracked, ClosedBy
  <2> QED BY <1>1, <2>1, <2>2, <2>3, <2>4 DEF ClaimsTracked
<1>4. CASE ~ session'.rejected /\ e.type = "manifest"
  BY <1>1, <1>4 DEF Accept, NoteRejection, Sessions
<1> QED BY <1>2, <1>3, <1>4 DEF IsEvent

\* A checkpoint the session takes makes the last claim, or leaves it.
LEMMA CheckpointClaims ==
  ASSUME AInv, CheckpointFrame
  PROVE  ClaimsTracked'
<1>1. session \in Sessions /\ history \in Histories /\ ClaimsTracked /\ HistoryBounded
  BY DEF AInv, FInv, IInv, TypeOK
<1>2. PICK e \in CheckpointFrames :
        /\ session' = Accept(session, e)
        /\ history' = IF session'.rejected THEN history
                      ELSE [history EXCEPT !.checkpoints = @ \cup {e}]
  BY DEF CheckpointFrame
<1>3. IsEvent(e) /\ e.type = "checkpoint"
  BY <1>1, FramesAreEvents DEF CheckpointFrames
<1>4. CASE session'.rejected
  BY <1>2, <1>3, <1>4, FrameClaims
<1>5. CASE ~ session'.rejected
  <2>1. /\ e.seq = session.last_seq + 1 /\ session.final_checkpoint_seq = {}
        /\ session'.final_claim_committed = session.final_claim_committed
    BY <1>1, <1>2, <1>3, <1>5, AcceptedFrame
  <2>2. /\ session'.final_claim = FinalClaim(session, e)
        /\ session'.final_checkpoint_seq = IF e.is_final THEN {e.seq} ELSE {}
        /\ session'.pending_offer = {OfferOf(e)}
    BY <1>1, <1>2, <1>3, <1>5, AcceptedCheckpoint
  <2>3. /\ history'.checkpoints = history.checkpoints \cup {e}
        /\ history'.committed = history.committed
    BY <1>1, <1>2, <1>5 DEF Histories
  <2>4. \A c \in history.checkpoints : c.seq \in Nat /\ c.seq < e.seq
    BY <1>1, <2>1, HistoryTypes DEF HistoryBounded, Sessions
  <2>5. e.seq \in Nat
    BY <1>1, <2>1 DEF Sessions
  <2>6. \A o \in session'.pending_offer :
          session'.final_checkpoint_seq = {o.seq} =>
            \E c \in history'.checkpoints : ClosedBy(c)' /\ o = OfferOf(c)
    <3>1. session'.last_seq = e.seq
      BY <1>1, <1>2, <1>3, <1>5, AcceptedFrame
    <3>2. session'.final_checkpoint_seq = {e.seq} => ClosedBy(e)'
      BY <2>2, <3>1 DEF ClosedBy
    <3> QED BY <2>2, <2>3, <3>2 DEF OfferOf
  <2>7. /\ \A c \in LastClaims' : c.claim = session'.final_claim
        /\ session'.final_claim # {} => LastClaims' # {}
    <3>1. CASE e.claim = {}
      <4>1. LastClaims' = LastClaims
        BY <2>3, <3>1 DEF LastClaims
      <4> QED BY <1>1, <2>2, <3>1, <4>1 DEF ClaimsTracked, FinalClaim
    <3>2. CASE e.claim # {}
      <4>1. LastClaims' = {e}
        <5>1. e \in LastClaims'
          BY <2>3, <2>4, <2>5, <3>2 DEF LastClaims
        <5>2. \A c \in history.checkpoints : ~ e.seq <= c.seq
          BY <2>4, <2>5
        <5>3. \A c \in LastClaims' : c = e
          BY <2>3, <3>2, <5>2 DEF LastClaims
        <5> QED BY <5>1, <5>3
      <4> QED BY <2>2, <3>2, <4>1 DEF FinalClaim
    <3> QED BY <3>1, <3>2
  <2>8. ~ session'.final_claim_committed
    BY <1>1, <2>1 DEF ClaimsTracked, ClosedBy
  <2> QED BY <2>6, <2>7, <2>8 DEF ClaimsTracked
<1> QED BY <1>4, <1>5

LEMMA NextAInv == AInv /\ [Next]_vars => AInv'
<1> SUFFICES ASSUME AInv, [Next]_vars PROVE AInv'
  OBVIOUS
<1>1. FInv'
  BY NextFInv DEF AInv
<1>2. session \in Sessions /\ history \in Histories /\ ClaimsTracked
  BY DEF AInv, FInv, IInv, TypeOK
<1> SUFFICES ClaimsTracked'
  BY <1>1 DEF AInv
<1>3. CASE RecordFrame
  <2>1. PICK e \in RecordFrames :
          /\ session' = Accept(session, e)
          /\ history' = IF session'.rejected THEN history
                        ELSE [history EXCEPT !.records = @ \cup
                               {[seq |-> e.seq, key |-> e.key, payload |-> e.payload]}]
    BY <1>3 DEF RecordFrame
  <2>2. history'.checkpoints = history.checkpoints /\ history'.committed = history.committed
    BY <1>2, <2>1 DEF Histories
  <2>3. IsEvent(e) /\ e.type # "checkpoint"
    BY <1>2, FramesAreEvents DEF RecordFrames
  <2> QED BY <2>1, <2>2, <2>3, FrameClaims
<1>4. CASE CheckpointFrame
  BY <1>4, CheckpointClaims
<1>5. CASE DiagnosticFrame
  <2>1. PICK e \in DiagnosticFrames : session' = Accept(session, e) /\ history' = history
    BY <1>5 DEF DiagnosticFrame
  <2>2. IsEvent(e) /\ e.type # "checkpoint"
    BY <1>2, FramesAreEvents DEF DiagnosticFrames
  <2> QED BY <2>1, <2>2, FrameClaims
<1>6. CASE DefectiveFrame
  <2>0. PICK frame \in RecordFrames : \E e \in Defective(frame) : session' = Accept(session, e)
    BY <1>6 DEF DefectiveFrame
  <2>1. PICK e \in Defective(frame) : session' = Accept(session, e)
    BY <2>0
  <2>2. IsEvent(e) /\ e.type # "checkpoint" /\ history' = history
    BY <1>2, <1>6, FramesAreEvents DEF DefectiveFrame
  <2> QED BY <2>1, <2>2, FrameClaims
<1>7. CASE ManifestFrame
  <2>1. PICK e : e = [type |-> "manifest"]
    OBVIOUS
  <2>2. IsEvent(e) /\ e.type # "checkpoint" /\ session' = Accept(session, e) /\ history' = history
    BY <1>7, <2>1 DEF IsEvent, ManifestFrame
  <2> QED BY <2>2, FrameClaims
<1>8. CASE UndecodableFrame \/ Resolve \/ MarkDurable \/ WithholdOffer \/ UNCHANGED vars
  <2>1. /\ session'.final_claim = session.final_claim
        /\ session'.final_checkpoint_seq = session.final_checkpoint_seq
        /\ session'.pending_offer \subseteq session.pending_offer
        /\ session'.final_claim_committed = session.final_claim_committed
        /\ ~ session'.rejected => ~ session.rejected /\ session'.last_seq = session.last_seq
    BY <1>2, <1>8 DEF UndecodableFrame, Resolve, MarkDurable, WithholdOffer, vars,
       NoteRejection, ResolveArtifacts, RecordDurable, Withhold, Sessions
  <2>2. history' = history
    BY <1>8 DEF UndecodableFrame, Resolve, MarkDurable, WithholdOffer, vars
  <2> QED BY <1>2, <2>1, <2>2, QuietClaims
<1>9. CASE CommitOffer
  <2>1. PICK offer \in HeldOffers :
          /\ session' = Commit(session, offer)
          /\ history' = IF CommitVerdict(session, offer) = "committed"
                          THEN [history EXCEPT !.committed = @ \cup {offer}]
                          ELSE history
    BY <1>9 DEF CommitOffer
  <2>2. CASE CommitVerdict(session, offer) = "committed"
    <3>1. session.pending_offer = {offer}
      BY <2>2 DEF CommitVerdict
    <3>2. /\ session'.final_claim = session.final_claim /\ session'.pending_offer = {}
          /\ session'.final_checkpoint_seq = session.final_checkpoint_seq
          /\ session'.rejected = session.rejected /\ session'.last_seq = session.last_seq
          /\ session'.final_claim_committed =>
               session.final_claim_committed \/ session.final_checkpoint_seq = {offer.seq}
      BY <1>2, <2>1, <2>2 DEF Commit, Sessions
    <3>3. /\ history'.checkpoints = history.checkpoints
          /\ history'.committed = history.committed \cup {offer}
      BY <1>2, <2>1, <2>2 DEF Histories
    <3>4. \A c : ClosedBy(c) => ClosedBy(c)'
      BY <3>2 DEF ClosedBy
    <3>5. session'.final_claim_committed =>
            \E c \in history.checkpoints : ClosedBy(c) /\ OfferOf(c) \in history'.committed
      BY <1>2, <3>1, <3>2, <3>3 DEF ClaimsTracked
    <3>6. session'.final_claim_committed =>
            \E c \in history'.checkpoints : ClosedBy(c)' /\ OfferOf(c) \in history'.committed
      BY <3>3, <3>4, <3>5
    <3>7. LastClaims' = LastClaims
      BY <3>3 DEF LastClaims
    <3> QED BY <1>2, <3>2, <3>6, <3>7 DEF ClaimsTracked
  <2>3. CASE CommitVerdict(session, offer) # "committed"
    <3>1. /\ session'.final_claim = session.final_claim
          /\ session'.final_checkpoint_seq = session.final_checkpoint_seq
          /\ session'.pending_offer \subseteq session.pending_offer
          /\ session'.final_claim_committed = session.final_claim_committed
          /\ session'.rejected = session.rejected /\ session'.last_seq = session.last_seq
      BY <1>2, <2>1, <2>3 DEF Commit, Sessions
    <3> QED BY <1>2, <2>1, <2>3, <3>1, QuietClaims
  <2> QED BY <2>2, <2>3
<1> QED BY <1>3, <1>4, <1>5, <1>6, <1>7, <1>8, <1>9 DEF Next

\* No grounds to refuse are left when deletion is authorized.
LEMMA NoGrounds ==
  ASSUME NEW s \in Sessions, NEW exit, DeletionAuthorized(s, exit)
  PROVE  /\ s.manifest.snapshots /\ s.request.mode = "snapshot"
         /\ s.final_claim # {} /\ s.final_claim_committed
         /\ \A claim \in s.final_claim :
              claim.state = "complete" /\ s.request.scope = {claim.scope}
         /\ ~ s.error_diagnostic /\ exit = "zero" /\ ~ s.rejected /\ ~ s.request.windowed
<1> DEFINE g == RefusalGrounds(s, exit)
<1>1. \A reason \in DOMAIN g : ~ g[reason]
  BY DEF DeletionAuthorized, DeletionRefusals
<1>2. DOMAIN g = { "authority_not_declared", "not_snapshot_mode", "no_completeness_claim",
                   "claim_is_partial", "claim_scope_mismatch", "claim_not_final",
                   "claim_not_committed", "error_diagnostic", "non_zero_exit",
                   "protocol_violation", "windowed_run" }
  BY DEF RefusalGrounds
<1>3. /\ ~ g.authority_not_declared /\ ~ g.not_snapshot_mode /\ ~ g.no_completeness_claim
      /\ ~ g.claim_is_partial /\ ~ g.claim_scope_mismatch /\ ~ g.claim_not_committed
      /\ ~ g.error_diagnostic /\ ~ g.non_zero_exit /\ ~ g.protocol_violation
      /\ ~ g.windowed_run
  BY <1>1, <1>2
<1> QED BY <1>3 DEF RefusalGrounds

LEMMA AuthorizationFollows == AInv => AuthorizationIsEarned
<1> SUFFICES ASSUME AInv, NEW exit \in Exits, DeletionAuthorized(session, exit)
             PROVE  /\ Outcome(session, exit) = "complete" /\ ~ session.request.windowed
                    /\ session.manifest.snapshots /\ session.request.mode = "snapshot"
                    /\ LastClaims # {}
                    /\ \A c \in LastClaims : \A claim \in c.claim :
                         claim.state = "complete" /\ session.request.scope = {claim.scope}
                    /\ \E c \in FinalCheckpoints :
                         c.seq = session.last_seq /\ OfferOf(c) \in history.committed
  BY DEF AuthorizationIsEarned
<1>1. session \in Sessions /\ ClaimsTracked
  BY DEF AInv, FInv, IInv, TypeOK
<1>2. /\ session.manifest.snapshots /\ session.request.mode = "snapshot"
      /\ session.final_claim # {} /\ session.final_claim_committed
      /\ \A claim \in session.final_claim :
           claim.state = "complete" /\ session.request.scope = {claim.scope}
      /\ ~ session.error_diagnostic /\ exit = "zero" /\ ~ session.rejected
      /\ ~ session.request.windowed
  BY <1>1, NoGrounds
<1>3. SnapshotOk(session)
  BY <1>2 DEF SnapshotOk, ClaimsCompleteness
<1>4. Outcome(session, exit) = "complete"
  BY <1>2, <1>3 DEF Outcome
<1>5. \E c \in FinalCheckpoints :
        c.seq = session.last_seq /\ OfferOf(c) \in history.committed
  BY <1>1, <1>2 DEF ClaimsTracked, ClosedBy, FinalCheckpoints
<1> QED BY <1>1, <1>2, <1>4, <1>5 DEF ClaimsTracked

\* A run that is authorized to delete by absence was unwindowed, clean and
\* complete, its last claim was of all it was asked for, and its final
\* checkpoint, after which it took nothing, was itself committed.
THEOREM DeletionIsEarned == Spec => []AuthorizationIsEarned
<1>1. Spec => []AInv
  BY InitAInv, NextAInv, PTL DEF Spec
<1> QED BY <1>1, AuthorizationFollows, PTL
=============================================================================
