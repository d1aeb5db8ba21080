--------------------------- MODULE SyncRunProofs ----------------------------
(***************************************************************************)
(* Theorems about SyncRun: what every sequence of runs keeps, for every    *)
(* set of keys, times and artifacts, every Field, every length of the log  *)
(* and every number of faults of every kind.  First what needs no proviso: *)
(* the types, and that a Note goes only for a deletion.  Then what the     *)
(* notebook survives: artifacts before the Notes that reference them,      *)
(* Notes before the cursor that accounts for them, in whatever a kill, a   *)
(* failed write or a power loss leaves; one Note of one ID for each        *)
(* object; and that the runs implement SyncContract.                       *)
(***************************************************************************)
EXTENDS SyncRun, SyncContract, TLAPS, FiniteSetTheorems, WellFoundedInduction

-----------------------------------------------------------------------------
(* The log: the version of a key at a position *)

\* A bounded set of numbers has a greatest one: its distances from the bound
\* have a least one.
LEMMA HasGreatest ==
  ASSUME NEW n \in Nat, NEW S \in SUBSET (0 .. n), S # {}
  PROVE  \E x \in S : \A y \in S : x >= y
<1> DEFINE Distances == {n - x : x \in S}
<1>a. \A x \in S : x \in Nat /\ n - x \in Nat
  OBVIOUS
<1>1. Distances \subseteq Nat /\ Distances # {}
  BY <1>a
<1>2. \E d \in Distances : \A e \in Distances : ~ (<<e, d>> \in OpToRel(<, Nat))
  BY <1>1, WFMin, NatLessThanWellFounded
<1>3. PICK d \in Distances : \A e \in Distances : ~ (e < d)
  BY <1>1, <1>2 DEF OpToRel
<1>4. PICK x \in S : d = n - x
  BY <1>3
<1>5. ASSUME NEW y \in S PROVE x >= y
  <2>1. ~ (n - y < n - x)
    BY <1>3, <1>4
  <2>2. x \in Int /\ y \in Int
    OBVIOUS
  <2> HIDE DEF Distances
  <2> QED BY ONLY <2>1, <2>2
<1> QED BY <1>5

\* The version of a key at `p` is its last change up to `p`, or 0.
LEMMA VersionIsLast ==
  ASSUME NEW k, NEW p \in Nat
  PROVE  /\ VersionAt(k, p) \in 0 .. p
         /\ VersionAt(k, p) > 0 => log[VersionAt(k, p)].key = k
         /\ \A v \in 1 .. p : log[v].key = k => v <= VersionAt(k, p)
<1> DEFINE S == {0} \cup {v \in 1 .. p : log[v].key = k}
<1>1. S \in SUBSET (0 .. p) /\ S # {}
  OBVIOUS
<1>2. \E x \in S : \A y \in S : x >= y
  BY <1>1, HasGreatest
<1>3. Max(S) \in S /\ \A y \in S : Max(S) >= y
  BY <1>2 DEF Max
<1>4. VersionAt(k, p) = Max(S)
  BY DEF VersionAt
<1> QED BY <1>1, <1>3, <1>4

\* Later positions know of later versions.
LEMMA VersionGrows ==
  ASSUME NEW k, NEW p \in Nat, NEW q \in Nat, p <= q
  PROVE  VersionAt(k, p) <= VersionAt(k, q)
<1>1. CASE VersionAt(k, p) = 0
  BY <1>1, VersionIsLast
<1>2. CASE VersionAt(k, p) > 0
  <2>1. VersionAt(k, p) \in 1 .. q /\ log[VersionAt(k, p)].key = k
    BY <1>2, VersionIsLast
  <2> QED BY <2>1, VersionIsLast
<1> QED BY <1>1, <1>2, VersionIsLast

\* A live version that is no longer live was deleted since.
LEMMA NotLiveIsDeleted ==
  ASSUME log \in Seq(Changes), NEW k, NEW v \in 1 .. Len(log), IsUpsert(v), log[v].key = k,
         NEW p \in v .. Len(log), ~ LiveAt(k, p)
  PROVE  DeletedSince(k, v)
<1> DEFINE d == VersionAt(k, p)
<1>1. /\ d \in 0 .. p /\ (d > 0 => log[d].key = k)
      /\ \A w \in 1 .. p : log[w].key = k => w <= d
  BY VersionIsLast
<1>2. ~ IsUpsert(d)
  BY DEF LiveAt
<1> HIDE DEF d
<1>3. d >= v /\ d \in 1 .. Len(log)
  BY <1>1
<1>4. log[d] \in Changes
  BY <1>3
<1>5. IsDelete(d)
  BY <1>2, <1>3, <1>4 DEF IsUpsert, IsDelete, Changes
<1>6. d # v
  BY <1>2
<1> QED BY <1>1, <1>3, <1>5, <1>6 DEF DeletedSince

-----------------------------------------------------------------------------
(* The log: a change leaves what came before it *)

\* What was said of the positions of a log stays said of the longer one.
LEMMA ChangeKeepsThePast ==
  ASSUME log \in Seq(Changes), NEW c \in Changes, log' = Append(log, c)
  PROVE  /\ log' \in Seq(Changes) /\ Len(log') = Len(log) + 1
         /\ \A v \in 1 .. Len(log) : log'[v] = log[v]
         /\ \A v \in 0 .. Len(log) : /\ IsUpsert(v)' <=> IsUpsert(v)
                                     /\ IsDelete(v)' <=> IsDelete(v)
         /\ \A k, p : p \in 0 .. Len(log) => /\ VersionAt(k, p)' = VersionAt(k, p)
                                             /\ LiveAt(k, p)' <=> LiveAt(k, p)
         /\ \A k, v : v \in Nat /\ DeletedSince(k, v) => DeletedSince(k, v)'
         /\ \A k, p : p \in Nat /\ LiveSince(k, p)' => LiveSince(k, p)
<1>1. /\ log' \in Seq(Changes) /\ Len(log') = Len(log) + 1 /\ Len(log) \in Nat
      /\ \A v \in 1 .. Len(log) : log'[v] = log[v]
  OBVIOUS
<1>2. \A v \in 0 .. Len(log) : /\ IsUpsert(v)' <=> IsUpsert(v)
                               /\ IsDelete(v)' <=> IsDelete(v)
  BY <1>1 DEF IsUpsert, IsDelete
<1>3. ASSUME NEW k, NEW p \in 0 .. Len(log)
      PROVE  /\ VersionAt(k, p)' = VersionAt(k, p)
             /\ LiveAt(k, p)' <=> LiveAt(k, p)
  <2>1. {w \in 1 .. p : log'[w].key = k} = {w \in 1 .. p : log[w].key = k}
    BY <1>1
  <2>2. VersionAt(k, p)' = VersionAt(k, p)
    BY <2>1 DEF VersionAt
  <2>3. VersionAt(k, p) \in 0 .. Len(log)
    BY VersionIsLast, <1>1
  <2> QED BY <1>2, <2>2, <2>3 DEF LiveAt
<1>4. ASSUME NEW k, NEW v \in Nat, DeletedSince(k, v) PROVE DeletedSince(k, v)'
  BY <1>1, <1>2, <1>4 DEF DeletedSince
<1>5. ASSUME NEW k, NEW p \in Nat, LiveSince(k, p)' PROVE LiveSince(k, p)
  BY <1>1, <1>3, <1>5 DEF LiveSince
<1> QED BY <1>1, <1>2, <1>3, <1>4, <1>5

-----------------------------------------------------------------------------
(* What SyncContract guarantees *)

\* The mark speaks only for changes that have happened.
ContractInv ==
  /\ log \in Seq(Changes) /\ accountable \subseteq Keys
  /\ shelf \in [Keys -> Nat] /\ mark \in 0 .. Len(log)
  /\ MarkNeverLeads

LEMMA ContractStarts == ContractInit => ContractInv
<1> SUFFICES ASSUME ContractInit PROVE ContractInv
  OBVIOUS
<1> USE DEF ContractInit, UpstreamInit
<1>1. ASSUME NEW k \in accountable PROVE Shows(k, mark)
  <2>1. VersionAt(k, 0) = 0
    BY VersionIsLast
  <2> QED BY <2>1 DEF Shows, IsUpsert, IsDelete
<1> QED BY <1>1 DEF ContractInv, MarkNeverLeads

\* What the shelf shows stays shown when something happens upstream.
LEMMA UpstreamKeeps ==
  ASSUME ContractInv, UpstreamStep, UNCHANGED <<accountable, tombstones>>
  PROVE  ContractInv'
<1>1. PICK c \in Changes : log' = Append(log, c)
  BY DEF UpstreamStep, Change, ChangeWithin
<1> USE DEF ContractInv, UpstreamStep
<1>2. /\ log' \in Seq(Changes) /\ Len(log') = Len(log) + 1
      /\ \A v \in 1 .. Len(log) : log'[v] = log[v]
  BY <1>1
<1>3. ASSUME NEW k \in accountable PROVE Shows(k, mark)'
  <2> DEFINE v == VersionAt(k, mark)
  <2>1. {w \in 1 .. mark : log'[w].key = k} = {w \in 1 .. mark : log[w].key = k}
    BY <1>2
  <2>2. VersionAt(k, mark)' = v
    BY <2>1 DEF VersionAt
  <2>3. v \in 0 .. mark
    BY VersionIsLast
  <2>4. (IsUpsert(v) <=> IsUpsert(v)') /\ (IsDelete(v) <=> IsDelete(v)')
    BY <1>2, <2>2, <2>3 DEF IsUpsert, IsDelete
  <2>5. DeletedSince(k, v) => DeletedSince(k, v)'
    BY <1>2, <2>2, <2>3 DEF DeletedSince, IsDelete
  <2>6. Shows(k, mark)
    BY <1>3 DEF MarkNeverLeads
  <2> HIDE DEF v
  <2> QED BY <2>2, <2>4, <2>5, <2>6 DEF Shows, v
<1> QED BY <1>2, <1>3 DEF MarkNeverLeads

\* An object is shelved at no version the mark has passed.
LEMMA ShelveKeeps ==
  ASSUME ContractInv, Shelve, UNCHANGED <<accountable, tombstones>>
  PROVE  ContractInv'
<1> USE DEF ContractInv
<1>1. PICK k \in Keys, p \in mark .. Len(log) :
        /\ LiveAt(k, p) /\ VersionAt(k, p) > shelf[k]
        /\ shelf' = [shelf EXCEPT ![k] = VersionAt(k, p)]
        /\ UNCHANGED <<log, mark>>
  BY DEF Shelve
<1>2. VersionAt(k, p) \in Nat /\ VersionAt(k, mark) \in Nat /\ VersionAt(k, mark) <= VersionAt(k, p)
  BY <1>1, VersionIsLast, VersionGrows
<1>3. ASSUME NEW j \in accountable PROVE Shows(j, mark)'
  <2>1. Shows(j, mark)
    BY <1>3 DEF MarkNeverLeads
  <2>2. CASE j # k
    BY <1>1, <2>1, <2>2 DEF Shows, VersionAt, IsUpsert, IsDelete, DeletedSince
  <2>3. CASE j = k
    <3>1. shelf'[k] = VersionAt(k, p)
      BY <1>1
    <3>2. IsDelete(VersionAt(k, mark)) => VersionAt(k, mark) # VersionAt(k, p)
      BY <1>1 DEF LiveAt, IsUpsert, IsDelete
    <3> QED BY <1>1, <1>2, <2>1, <2>3, <3>1, <3>2 DEF Shows, VersionAt, IsUpsert, IsDelete, DeletedSince
  <2> QED BY <2>2, <2>3
<1> QED BY <1>1, <1>2, <1>3 DEF MarkNeverLeads

\* What leaves the shelf was deleted after the version the mark knows of.
LEMMA UnshelveKeeps ==
  ASSUME ContractInv, Unshelve, UNCHANGED <<accountable, tombstones>>
  PROVE  ContractInv'
<1> USE DEF ContractInv
<1>1. PICK k \in Keys :
        /\ shelf[k] > 0 /\ DeletedSince(k, shelf[k])
        /\ shelf' = [shelf EXCEPT ![k] = 0]
        /\ UNCHANGED <<log, mark>>
  BY DEF Unshelve
<1>2. ASSUME NEW j \in accountable PROVE Shows(j, mark)'
  <2>1. Shows(j, mark) /\ VersionAt(j, mark) \in Nat
    BY <1>2, VersionIsLast DEF MarkNeverLeads
  <2>2. CASE j # k
    BY <1>1, <2>1, <2>2 DEF Shows, VersionAt, IsUpsert, IsDelete, DeletedSince
  <2>3. CASE j = k
    <3>1. shelf[k] >= VersionAt(k, mark) => DeletedSince(k, VersionAt(k, mark))
      BY <1>1, <2>1, <2>3 DEF DeletedSince
    <3>2. shelf'[k] = 0
      BY <1>1
    <3> QED BY <1>1, <2>1, <2>3, <3>1, <3>2 DEF Shows, VersionAt, IsUpsert, IsDelete, DeletedSince
  <2> QED BY <2>2, <2>3
<1> QED BY <1>1, <1>2 DEF MarkNeverLeads

LEMMA AdvanceKeeps ==
  ASSUME ContractInv, AdvanceMark, UNCHANGED <<accountable, tombstones>>
  PROVE  ContractInv'
<1>1. PICK p \in mark .. Len(log) :
        (\A k \in accountable : Shows(k, p)) /\ mark' = p /\ UNCHANGED <<log, shelf>>
  BY DEF AdvanceMark
<1>2. ASSUME NEW k \in accountable PROVE Shows(k, mark)'
  BY <1>1, <1>2 DEF Shows, VersionAt, IsUpsert, IsDelete, DeletedSince
<1> QED BY <1>1, <1>2 DEF ContractInv, MarkNeverLeads

\* A mark at the beginning speaks for nothing.
LEMMA RewindKeeps ==
  ASSUME ContractInv, Rewind, UNCHANGED <<accountable, tombstones>>
  PROVE  ContractInv'
<1> USE DEF Rewind
<1>1. ASSUME NEW k \in accountable PROVE Shows(k, mark)'
  <2>1. VersionAt(k, 0) = 0
    BY VersionIsLast
  <2>2. VersionAt(k, mark)' = 0
    BY <2>1 DEF VersionAt
  <2> QED BY <2>2 DEF Shows, IsUpsert, IsDelete
<1> QED BY <1>1 DEF ContractInv, MarkNeverLeads

\* No history of upstream changes, of Notes written and removed, of cursors
\* advanced and forgotten makes the mark account for an object, or for a
\* deletion, that the notebook does not show.
THEOREM MarkIsHonest == ContractSpec => []MarkNeverLeads
<1>1. ContractInit => ContractInv
  BY ContractStarts
<1>2. ContractInv /\ [ContractNext]_contractVars => ContractInv'
  <2> SUFFICES ASSUME ContractInv, [ContractNext]_contractVars PROVE ContractInv'
    OBVIOUS
  <2>1. CASE UNCHANGED contractVars
    BY <2>1 DEF contractVars, ContractInv, MarkNeverLeads, Shows, VersionAt, IsUpsert, IsDelete, DeletedSince
  <2>2. CASE ContractNext
    BY <2>2, UpstreamKeeps, ShelveKeeps, UnshelveKeeps, AdvanceKeeps, RewindKeeps DEF ContractNext
  <2> QED BY <2>1, <2>2
<1>3. ContractInv => MarkNeverLeads
  BY DEF ContractInv
<1> QED BY <1>1, <1>2, <1>3, PTL DEF ContractSpec

-----------------------------------------------------------------------------
(* What the session's methods leave behind *)

\* What a run's proof reads of a session.
SameRequest(t, s) == t.manifest = s.manifest /\ t.request = s.request

\* A record the session takes: only its key's payload is new.
LEMMA TakenRecord ==
  ASSUME NEW s \in Sessions, NEW e, e.type = "record", e.key \in Keys, e.payload \in Payloads,
         NEW t, t = Accept(s, e), ~ t.rejected
  PROVE  /\ t \in Sessions /\ SameRequest(t, s)
         /\ t.seen_keys = [s.seen_keys EXCEPT ![e.key] = e.payload]
         /\ t.final_claim = s.final_claim /\ t.committed = s.committed
<1>1. ~ s.rejected /\ s.pending_offer = {}
  BY DEF Accept, NoteRejection, Sessions
<1>2. t = AcceptRecord(s, e)
  BY <1>1 DEF Accept
<1>3. InOrder(s, e)
  BY <1>2 DEF AcceptRecord, NoteRejection, Sessions
<1>a. Advance(s, e) \in Sessions
  BY <1>3 DEF Sessions, InOrder, Advance
<1>4. PICK u \in Sessions : u = Advance(s, e)
  BY <1>a
<1>5. RecordAdmissible(s, e)
  BY <1>2, <1>3, <1>4 DEF AcceptRecord, NoteRejection, Sessions
<1>6. t = [u EXCEPT !.seen_keys[e.key] = e.payload, !.record_count = @ + 1,
                    !.records_by_seq = @ \cup {e.seq}]
  BY <1>2, <1>3, <1>4, <1>5 DEF AcceptRecord
<1>7. /\ SameRequest(u, s) /\ u.seen_keys = s.seen_keys
      /\ u.final_claim = s.final_claim /\ u.committed = s.committed
  BY <1>4 DEF Advance, Sessions, SameRequest
<1>8. /\ [u.seen_keys EXCEPT ![e.key] = e.payload] \in [Keys -> Payloads \cup {NothingSeen[e.key]}]
      /\ u.record_count + 1 \in Nat /\ u.records_by_seq \cup {e.seq} \in SUBSET Nat
  BY <1>3 DEF Sessions, InOrder, NothingSeen
<1>9. t \in Sessions
  BY <1>6, <1>8 DEF Sessions, NothingSeen
<1> QED BY <1>6, <1>7, <1>9 DEF Sessions, SameRequest

\* Rejection, durability and staging leave the record of what was seen alone.
LEMMA SmallMethods ==
  ASSUME NEW s \in Sessions, NEW bytes \in Nat,
         NEW t \in {NoteRejection(s), Settled(s), ResolveArtifacts(s, TRUE, bytes)}
  PROVE  /\ t \in Sessions /\ SameRequest(t, s)
         /\ t.seen_keys = s.seen_keys /\ t.final_claim = s.final_claim
         /\ t.committed = s.committed
<1>1. CASE t = NoteRejection(s)
  BY <1>1 DEF NoteRejection, Sessions, SameRequest
<1>2. CASE t = Settled(s)
  BY <1>2 DEF Settled, RecordDurable, Sessions, SameRequest
<1>3. CASE t = ResolveArtifacts(s, TRUE, bytes)
  <2>1. t \in {[s EXCEPT !.staged_bytes = @ + bytes],
              [NoteRejection(s) EXCEPT !.staged_bytes = @ + bytes]}
    BY <1>3 DEF ResolveArtifacts
  <2>2. s.staged_bytes + bytes \in Nat
    BY DEF Sessions
  <2> QED BY <2>1, <2>2 DEF NoteRejection, Sessions, SameRequest
<1> QED BY <1>1, <1>2, <1>3

\* An error diagnostic is taken, or fails the run.
LEMMA TakenDiagnostic ==
  ASSUME NEW s \in Sessions, NEW e, e.type = "diagnostic", NEW t, t = Accept(s, e)
  PROVE  /\ t \in Sessions /\ SameRequest(t, s)
         /\ t.seen_keys = s.seen_keys /\ t.final_claim = s.final_claim
         /\ t.committed = s.committed
<1>1. CASE s.rejected \/ s.pending_offer # {} \/ ~ InOrder(s, e)
  BY <1>1 DEF Accept, AcceptDiagnostic, NoteRejection, Sessions, SameRequest
<1>2. CASE ~ (s.rejected \/ s.pending_offer # {} \/ ~ InOrder(s, e))
  <2>1. Advance(s, e) \in Sessions /\ SameRequest(Advance(s, e), s)
    BY <1>2 DEF Sessions, InOrder, Advance, SameRequest
  <2>2. PICK u \in Sessions : u = Advance(s, e)
    BY <2>1
  <2>3. /\ SameRequest(u, s) /\ u.seen_keys = s.seen_keys
        /\ u.final_claim = s.final_claim /\ u.committed = s.committed
    BY <2>1, <2>2 DEF Advance, Sessions
  <2>4. t \in {NoteRejection(u),
              [u EXCEPT !.diagnostic_count = @ + 1,
                        !.error_diagnostic = IF e.severity = "error" THEN TRUE ELSE @]}
    BY <1>2, <2>2 DEF Accept, AcceptDiagnostic
  <2>5. (IF e.severity = "error" THEN TRUE ELSE u.error_diagnostic) \in BOOLEAN
    BY DEF Sessions
  <2>6. u.diagnostic_count + 1 \in Nat
    BY DEF Sessions
  <2>7. CASE t = NoteRejection(u)
    BY <2>3, <2>7 DEF NoteRejection, Sessions, SameRequest
  <2>8. CASE t = [u EXCEPT !.diagnostic_count = @ + 1,
                           !.error_diagnostic = IF e.severity = "error" THEN TRUE ELSE @]
    BY <2>3, <2>5, <2>6, <2>8 DEF Sessions, SameRequest
  <2> QED BY <2>4, <2>7, <2>8
<1> QED BY <1>1, <1>2

\* A checkpoint the session takes: its claim replaces the one before it.
LEMMA TakenCheckpoint ==
  ASSUME NEW s \in Sessions, NEW p \in 0 .. MaxVersion, NEW final \in BOOLEAN,
         NEW state \in {"complete", "partial"}, NEW t,
         s = session, t = Accept(s, CheckpointAt(p, final, state)), ~ t.rejected
  PROVE  /\ t \in Sessions /\ SameRequest(t, s) /\ t.seen_keys = s.seen_keys
         /\ t.committed = s.committed
         /\ t.final_claim = FinalClaim(s, CheckpointAt(p, final, state))
         /\ OfferOf(CheckpointAt(p, final, state)) \in Offers
<1> DEFINE e == CheckpointAt(p, final, state)
<1>a. /\ e.type = "checkpoint" /\ e.seq = s.last_seq + 1 /\ e.cursor = p
      /\ e.covers = s.last_seq /\ e.is_final = final /\ e.seq \in Nat /\ e.covers \in Nat
  BY DEF CheckpointAt, Sessions
<1>b. e.claim \in SUBSET Claims
  <2>1. s.request.scope \in SUBSET Scopes
    BY DEF Sessions, Requests
  <2> QED BY <2>1 DEF CheckpointAt, Claims
<1>c. t = Accept(s, e)
  OBVIOUS
<1> HIDE DEF e
<1>1. ~ s.rejected /\ s.pending_offer = {}
  BY <1>c DEF Accept, NoteRejection, Sessions
<1>2. t = AcceptCheckpoint(s, e)
  BY <1>1, <1>a, <1>c DEF Accept
<1>3. InOrder(s, e)
  BY <1>2 DEF AcceptCheckpoint, NoteRejection, Sessions
<1>4. Advance(s, e) \in Sessions
  BY <1>3 DEF Sessions, InOrder, Advance
<1>5. PICK u \in Sessions : u = Advance(s, e)
  BY <1>4
<1>6. CheckpointAdmissible(s, e)
  BY <1>2, <1>3, <1>5 DEF AcceptCheckpoint, NoteRejection, Sessions
<1>7. OfferOf(e) \in Offers
  BY <1>a DEF OfferOf, Offers
<1>8. FinalClaim(s, e) \in SUBSET Claims
  BY <1>b DEF FinalClaim, Sessions
<1>9. t = [u EXCEPT !.final_claim = FinalClaim(s, e),
                    !.last_checkpoint_coverage = e.covers,
                    !.final_checkpoint_seq = IF e.is_final THEN {e.seq} ELSE @,
                    !.pending_offer = {OfferOf(e)}]
  BY <1>2, <1>3, <1>5, <1>6 DEF AcceptCheckpoint
<1>10. (IF e.is_final THEN {e.seq} ELSE u.final_checkpoint_seq) \in SUBSET Nat
  BY <1>a DEF Sessions
<1>11. /\ SameRequest(u, s) /\ u.seen_keys = s.seen_keys /\ u.committed = s.committed
  BY <1>5 DEF Advance, Sessions, SameRequest
<1>12. t \in Sessions
  <2>1. ASSUME NEW claim \in SUBSET Claims, NEW covers \in Nat, NEW seqs \in SUBSET Nat,
               NEW offers \in SUBSET Offers
        PROVE  [u EXCEPT !.final_claim = claim, !.last_checkpoint_coverage = covers,
                         !.final_checkpoint_seq = seqs, !.pending_offer = offers] \in Sessions
    BY DEF Sessions
  <2>2. {OfferOf(e)} \in SUBSET Offers /\ e.covers \in Nat
    BY <1>7, <1>a
  <2>3. [u EXCEPT !.final_claim = FinalClaim(s, e), !.last_checkpoint_coverage = e.covers,
                  !.final_checkpoint_seq = IF e.is_final THEN {e.seq} ELSE u.final_checkpoint_seq,
                  !.pending_offer = {OfferOf(e)}] \in Sessions
    BY <1>8, <1>10, <2>1, <2>2
  <2> QED BY <1>9, <2>3
<1>13. /\ SameRequest(t, s) /\ t.seen_keys = s.seen_keys /\ t.committed = s.committed
       /\ t.final_claim = FinalClaim(s, e)
  BY <1>9, <1>11, <1>12 DEF Sessions, SameRequest
<1> QED BY <1>7, <1>12, <1>13 DEF e

\* Committing or withholding an offer changes nothing else.
LEMMA SettledOffer ==
  ASSUME NEW s \in Sessions, NEW o \in Offers,
         NEW t \in {Commit(s, o), Withhold(Commit(s, o), o)}
  PROVE  /\ t \in Sessions /\ SameRequest(t, s)
         /\ t.seen_keys = s.seen_keys /\ t.final_claim = s.final_claim
         /\ t.committed \in {s.committed, {o}}
<1>1. ASSUME NEW u, u = Commit(s, o)
      PROVE  /\ u \in Sessions /\ SameRequest(u, s)
             /\ u.seen_keys = s.seen_keys /\ u.final_claim = s.final_claim
             /\ u.committed \in {s.committed, {o}}
  <2>1. u \in {s, [s EXCEPT !.pending_offer = {}],
              [s EXCEPT !.last_committed_coverage = o.covers, !.committed = {o},
                        !.final_claim_committed = @ \/ s.final_checkpoint_seq = {o.seq},
                        !.pending_offer = {}]}
    BY <1>1 DEF Commit
  <2>2. CASE u = s \/ u = [s EXCEPT !.pending_offer = {}]
    BY <2>2 DEF Sessions, SameRequest
  <2>3. CASE u = [s EXCEPT !.last_committed_coverage = o.covers, !.committed = {o},
                        !.final_claim_committed = @ \/ s.final_checkpoint_seq = {o.seq},
                        !.pending_offer = {}]
    <3>1. o.covers \in Nat /\ {o} \in SUBSET Offers
      BY DEF Offers
    <3>2. (s.final_claim_committed \/ s.final_checkpoint_seq = {o.seq}) \in BOOLEAN
      BY DEF Sessions
    <3> QED BY <2>3, <3>1, <3>2 DEF Sessions, SameRequest
  <2> QED BY <2>1, <2>2, <2>3
<1>2. PICK u \in Sessions : u = Commit(s, o)
  BY <1>1
<1>3. t = u \/ t = Withhold(u, o)
  BY <1>2
<1>4. CASE t = u
  BY <1>1, <1>2, <1>4
<1>5. CASE t = Withhold(u, o)
  <2>1. t = u \/ t = [u EXCEPT !.pending_offer = {}]
    BY <1>5 DEF Withhold
  <2>2. /\ t \in Sessions /\ SameRequest(t, u) /\ t.seen_keys = u.seen_keys
        /\ t.final_claim = u.final_claim /\ t.committed = u.committed
    BY <2>1 DEF Sessions, SameRequest
  <2> QED BY <1>1, <1>2, <2>2 DEF SameRequest
<1> QED BY <1>3, <1>4, <1>5

-----------------------------------------------------------------------------
(* What the operations of the store leave behind *)

LEMMA StoreEffects ==
  ASSUME StoreTypeOK
  PROVE  /\ \A n \in Notes : RenameNote(n) =>
              /\ disk' \in Directories
              /\ disk'.notes = (disk.notes \ Named(disk.notes, Filename(n))) \cup {n}
              /\ disk'.artifacts = disk.artifacts /\ disk'.cursor = disk.cursor
         /\ \A name : UnlinkNote(name) =>
              /\ disk' \in Directories
              /\ disk'.notes = disk.notes \ Named(disk.notes, name)
              /\ disk'.artifacts = disk.artifacts /\ disk'.cursor = disk.cursor
         /\ \A a \in Artifacts : RenameArtifact(a) =>
              /\ disk' \in Directories
              /\ disk'.artifacts = disk.artifacts \cup {a}
              /\ disk'.notes = disk.notes /\ disk'.cursor = disk.cursor
         /\ \A c \in 0 .. MaxVersion : RenameCursor(c) =>
              /\ disk' \in Directories
              /\ disk'.cursor = {c}
              /\ disk'.notes = disk.notes /\ disk'.artifacts = disk.artifacts
         /\ SyncNotes =>
              /\ durable' \in Directories
              /\ durable'.notes = disk.notes
              /\ durable'.artifacts = durable.artifacts /\ durable'.cursor = durable.cursor
         /\ SyncArtifacts =>
              /\ durable' \in Directories
              /\ durable'.artifacts = disk.artifacts
              /\ durable'.notes = durable.notes /\ durable'.cursor = durable.cursor
         /\ SyncCursor =>
              /\ durable' \in Directories
              /\ durable'.cursor = disk.cursor
              /\ durable'.notes = durable.notes /\ durable'.artifacts = durable.artifacts
         /\ RemoveSyncState =>
              /\ disk' \in Directories /\ durable' = durable
              /\ disk'.cursor = {}
              /\ disk'.notes = disk.notes /\ disk'.artifacts = disk.artifacts
<1>1. ASSUME NEW n \in Notes, RenameNote(n)
      PROVE  /\ disk' \in Directories
             /\ disk'.notes = (disk.notes \ Named(disk.notes, Filename(n))) \cup {n}
             /\ disk'.artifacts = disk.artifacts /\ disk'.cursor = disk.cursor
  BY <1>1 DEF StoreTypeOK, Directories, RenameNote, Named
<1>2. ASSUME NEW name, UnlinkNote(name)
      PROVE  /\ disk' \in Directories
             /\ disk'.notes = disk.notes \ Named(disk.notes, name)
             /\ disk'.artifacts = disk.artifacts /\ disk'.cursor = disk.cursor
  BY <1>2 DEF StoreTypeOK, Directories, UnlinkNote, Named
<1>3. ASSUME NEW a \in Artifacts, RenameArtifact(a)
      PROVE  /\ disk' \in Directories
             /\ disk'.artifacts = disk.artifacts \cup {a}
             /\ disk'.notes = disk.notes /\ disk'.cursor = disk.cursor
  BY <1>3 DEF StoreTypeOK, Directories, RenameArtifact
<1>4. ASSUME NEW c \in 0 .. MaxVersion, RenameCursor(c)
      PROVE  /\ disk' \in Directories
             /\ disk'.cursor = {c}
             /\ disk'.notes = disk.notes /\ disk'.artifacts = disk.artifacts
  BY <1>4 DEF StoreTypeOK, Directories, RenameCursor
<1>5. SyncNotes => /\ durable' \in Directories
                   /\ durable'.notes = disk.notes
                   /\ durable'.artifacts = durable.artifacts /\ durable'.cursor = durable.cursor
  BY DEF StoreTypeOK, Directories, SyncNotes
<1>6. SyncArtifacts => /\ durable' \in Directories
                       /\ durable'.artifacts = disk.artifacts
                       /\ durable'.notes = durable.notes /\ durable'.cursor = durable.cursor
  BY DEF StoreTypeOK, Directories, SyncArtifacts
<1>7. SyncCursor => /\ durable' \in Directories
                    /\ durable'.cursor = disk.cursor
                    /\ durable'.notes = durable.notes /\ durable'.artifacts = durable.artifacts
  BY DEF StoreTypeOK, Directories, SyncCursor
<1>8. RemoveSyncState => /\ disk' \in Directories /\ durable' = durable
                         /\ disk'.cursor = {}
                         /\ disk'.notes = disk.notes /\ disk'.artifacts = disk.artifacts
  BY DEF StoreTypeOK, Directories, RemoveSyncState
<1> QED BY <1>1, <1>2, <1>3, <1>4, <1>5, <1>6, <1>7, <1>8

\* A power loss leaves what was visible or durable, and never loses an
\* artifact that was both.
LEMMA PowerEffect ==
  ASSUME StoreTypeOK, LosePower
  PROVE  /\ disk' \in Directories /\ durable' = disk'
         /\ disk'.notes \in NotesAfterLoss /\ disk'.notes \subseteq disk.notes \cup durable.notes
         /\ disk.artifacts \cap durable.artifacts \subseteq disk'.artifacts
         /\ disk'.artifacts \subseteq disk.artifacts \cup durable.artifacts
         /\ disk'.cursor \in {disk.cursor, durable.cursor}
<1>1. PICK notes \in NotesAfterLoss, artifacts \in ArtifactsAfterLoss,
           position \in {disk.cursor, durable.cursor} :
        disk' = [notes |-> notes, artifacts |-> artifacts, cursor |-> position]
  BY DEF LosePower
<1>2. notes \subseteq disk.notes \cup durable.notes
  BY DEF NotesAfterLoss
<1>3. /\ artifacts \subseteq disk.artifacts \cup durable.artifacts
      /\ disk.artifacts \cap durable.artifacts \subseteq artifacts
  BY DEF ArtifactsAfterLoss
<1>4. /\ notes \in SUBSET Notes /\ artifacts \in SUBSET Artifacts
      /\ position \in SUBSET (0 .. MaxVersion)
  BY <1>2, <1>3 DEF StoreTypeOK, Directories
<1>5. /\ disk'.notes = notes /\ disk'.artifacts = artifacts /\ disk'.cursor = position
      /\ disk' \in Directories
  BY <1>1, <1>4 DEF Directories
<1>6. durable' = disk'
  BY DEF LosePower
<1> QED BY <1>2, <1>3, <1>5, <1>6

\* An ID no Note uses is found while one is left.
LEMMA NewIdIsFresh ==
  ASSUME FreshIds # {}
  PROVE  NewId \in FreshIds
<1>1. FreshIds \in SUBSET Nat
  BY StoreAssumption DEF FreshIds
<1>2. \E d \in FreshIds : \A e \in FreshIds : ~ (<<e, d>> \in OpToRel(<, Nat))
  BY <1>1, WFMin, NatLessThanWellFounded
<1>3. PICK d \in FreshIds : \A e \in FreshIds : ~ (e < d)
  BY <1>1, <1>2 DEF OpToRel
<1>4. ASSUME NEW e \in FreshIds PROVE d <= e
  <2>1. ~ (e < d) /\ d \in Nat /\ e \in Nat
    BY <1>1, <1>3
  <2> QED BY ONLY <2>1
<1> QED BY <1>4 DEF NewId, Min

-----------------------------------------------------------------------------
(* The invariant of the runs *)

\* Every Note there is: visible, durable, indexed or about to be installed.
NotesAbout == disk.notes \cup durable.notes \cup run.note \cup UNION {run.index[k] : k \in Keys}

\* A Note holds a state its object had upstream.
NotesAreReal ==
  \A n \in NotesAbout : n.version <= Len(log) /\ IsUpsert(n.version) /\ log[n.version].key = n.key

\* Objects do not share Note IDs.
IdsAreOwn == \A m, n \in NotesAbout : m.id = n.id => m.key = n.key

IndexIsOwn == \A k \in Keys : \A n \in run.index[k] : n.key = k

\* The moment in the log the run knows of a key: what the Field reported last,
\* or the beginning of the run.
KnownAt(key) == IF run.reported[key] = 0 THEN run.start ELSE run.reported[key]

NotesAreKnown == run.pc # "idle" => \A n \in NotesAbout : n.version <= KnownAt(n.key)

ReportsAreReal ==
  /\ run.start <= Len(log)
  /\ \A k \in Keys : /\ run.reported[k] <= Len(log)
                     /\ run.reported[k] > 0 => log[run.reported[k]].key = k

OneArtifact == \A v \in 1 .. Len(log) : \A a, b \in log[v].artifacts : a = b

Facts == NotesAreReal /\ IdsAreOwn /\ IndexIsOwn /\ NotesAreKnown /\ ReportsAreReal /\ OneArtifact

Installing == {"note", "note_sync", "stale", "stale_sync"}
Storing    == {"artifact", "artifact_sync", "compare"} \cup Installing
Removing   == {"unlink", "unlink_sync"}
Between    == {"reading", "cursor", "cursor_sync"}
Sweeping   == {"sweep", "sweep_sync"}

\* Where the record being applied has not touched its Note, and where it has.
Untouched == Between \cup {"artifact", "artifact_sync", "compare", "note", "unlink"}
Touched   == {"note_sync", "stale", "stale_sync", "unlink_sync"}

\* The index names Notes that are there.
IndexStands ==
  /\ run.pc \in Untouched => \A k \in Keys : run.index[k] \subseteq disk.notes
  /\ run.pc \in Touched => \A k \in Keys \ run.key : run.index[k] \subseteq disk.notes

\* One record is applied at a time: an upsert is stored, a deletion removed.
OneRecord ==
  /\ run.pc \in Storing => \E k \in Keys : run.key = {k} /\ IsUpsert(run.reported[k])
  /\ run.pc \in Removing => \E k \in Keys : run.key = {k} /\ IsDelete(run.reported[k])
  /\ run.pc \in Between => run.key = {}
  /\ run.pc \in Between \cup Removing \cup (Storing \ Installing) => run.note = {}
  /\ run.pc \in Installing =>
       \E n \in Notes : run.note = {n} /\ run.key = {n.key} /\ n.version = run.reported[n.key]
  /\ run.pc \in Installing \ {"note"} => run.note \subseteq disk.notes

\* The session has seen what was reported, a complete claim is true, and core
\* stops reading only after a failure or a rejection.
SessionIsTrue ==
  /\ \A k \in Keys : session.seen_keys[k] # NothingSeen[k] =>
       /\ run.reported[k] > 0
       /\ session.seen_keys[k] = <<log[run.reported[k]].change, run.reported[k]>>
  /\ (\E claim \in session.final_claim : claim.state = "complete") => Enumerated
  /\ run.pc = "draining" => run.failure \/ session.rejected

\* What is removed by absence was not live throughout the run.
AbsentAreGone ==
  run.pc \in Sweeping => \A k \in run.absent : run.reported[k] = 0 /\ ~ LiveSince(k, run.start)

Place == IndexStands /\ OneRecord /\ SessionIsTrue /\ AbsentAreGone

IInv == TypeOK /\ Facts /\ Place

-----------------------------------------------------------------------------
(* How steps change the facts *)

\* The part of a run's memory that only reading a record changes.
SameReports == run'.start = run.start /\ run'.reported = run.reported

\* No new Note and no new report: the facts stay.
LEMMA FactsStay ==
  ASSUME Facts, run.pc # "idle", UNCHANGED log, SameReports,
         NotesAbout' \subseteq NotesAbout, IndexIsOwn'
  PROVE  Facts'
<1>1. NotesAreReal' /\ IdsAreOwn'
  BY DEF Facts, NotesAreReal, IdsAreOwn, IsUpsert
<1>2. NotesAreKnown'
  BY DEF Facts, NotesAreKnown, KnownAt, SameReports
<1>3. ReportsAreReal' /\ OneArtifact'
  BY DEF Facts, ReportsAreReal, SameReports, OneArtifact
<1> QED BY <1>1, <1>2, <1>3 DEF Facts

\* The end of a run forgets what it knew.
LEMMA FactsEnd ==
  ASSUME Facts, UpstreamTypeOK, UNCHANGED log, run' = Idle,
         disk'.notes \cup durable'.notes \subseteq NotesAbout
  PROVE  Facts'
<1>1. /\ run'.pc = "idle" /\ run'.start = 0 /\ run'.note = {}
      /\ \A k \in Keys : run'.index[k] = {} /\ run'.reported[k] = 0
  BY DEF Idle
<1>2. NotesAbout' \subseteq NotesAbout
  BY <1>1 DEF NotesAbout
<1>3. NotesAreReal' /\ IdsAreOwn'
  BY <1>2 DEF Facts, NotesAreReal, IdsAreOwn, IsUpsert
<1>4. Len(log) \in Nat
  BY DEF UpstreamTypeOK
<1>5. IndexIsOwn' /\ NotesAreKnown' /\ ReportsAreReal' /\ OneArtifact'
  BY <1>1, <1>4 DEF Facts, IndexIsOwn, NotesAreKnown, ReportsAreReal, OneArtifact
<1> QED BY <1>3, <1>5 DEF Facts

\* A Note of a key is never newer than the key's version.
LEMMA NotesAreNoNewer ==
  ASSUME Facts, TypeOK, NEW n \in NotesAbout, n \in Notes
  PROVE  n.version <= Version(n.key) /\ Version(n.key) \in 1 .. Len(log)
<1>1. n.version \in 1 .. Len(log) /\ log[n.version].key = n.key /\ Len(log) \in Nat
  BY DEF Facts, NotesAreReal, TypeOK, UpstreamTypeOK, Notes, IsUpsert
<1> QED BY <1>1, VersionIsLast DEF Version

\* A report of what a key is now.
LEMMA FactsReported ==
  ASSUME Facts, TypeOK, run.pc # "idle", UNCHANGED log, NEW k \in Keys, Version(k) > 0,
         run'.start = run.start,
         run'.reported = [run.reported EXCEPT ![k] = Version(k)],
         NotesAbout' \subseteq NotesAbout, IndexIsOwn'
  PROVE  Facts'
<1>1. NotesAreReal' /\ IdsAreOwn' /\ OneArtifact'
  BY DEF Facts, NotesAreReal, IdsAreOwn, IsUpsert, OneArtifact
<1>2. /\ Version(k) <= Len(log) /\ log[Version(k)].key = k /\ Version(k) \in Nat
  BY VersionIsLast DEF Version, TypeOK, UpstreamTypeOK
<1>3. run.reported \in [Keys -> 0 .. MaxVersion]
  BY DEF TypeOK, Runs
<1>4. ReportsAreReal'
  BY <1>2, <1>3 DEF Facts, ReportsAreReal
<1>5. NotesAbout \subseteq Notes
  BY DEF NotesAbout, TypeOK, StoreTypeOK, Directories, Runs
<1>6. ASSUME NEW n \in NotesAbout PROVE n.version <= KnownAt(n.key)'
  <2>1. n \in Notes /\ n.key \in Keys
    BY <1>5 DEF Notes
  <2>2. CASE n.key = k
    BY <1>2, <1>3, <2>1, <2>2, NotesAreNoNewer DEF KnownAt
  <2>3. CASE n.key # k
    BY <1>3, <2>1, <2>3 DEF KnownAt, Facts, NotesAreKnown
  <2> QED BY <2>2, <2>3
<1>7. NotesAreKnown'
  BY <1>6 DEF NotesAreKnown
<1> QED BY <1>1, <1>4, <1>7 DEF Facts

\* A new projection of what was reported, under an ID of its own key.
LEMMA FactsProjected ==
  ASSUME Facts, TypeOK, run.pc # "idle", UNCHANGED <<log, disk, durable>>, SameReports,
         run'.index = run.index, NEW n \in Notes, run'.note = {n},
         IsUpsert(n.version), n.version = run.reported[n.key],
         \A m \in NotesAbout \cup {n} : m.id = n.id => m.key = n.key
  PROVE  Facts'
<1>1. NotesAbout' \subseteq NotesAbout \cup {n}
  BY DEF NotesAbout
<1>2. n.key \in Keys /\ n.version > 0
  BY DEF Notes, IsUpsert
<1>3. n.version <= Len(log) /\ log[n.version].key = n.key
  BY <1>2 DEF Facts, ReportsAreReal
<1>4. NotesAreReal'
  BY <1>1, <1>3 DEF Facts, NotesAreReal, IsUpsert
<1>5. IdsAreOwn'
  BY <1>1 DEF Facts, IdsAreOwn
<1>6. n.version <= KnownAt(n.key)
  BY <1>2 DEF KnownAt, Notes
<1>7. NotesAreKnown'
  BY <1>1, <1>6 DEF Facts, NotesAreKnown, KnownAt, SameReports
<1>8. IndexIsOwn' /\ ReportsAreReal' /\ OneArtifact'
  BY DEF Facts, IndexIsOwn, ReportsAreReal, SameReports, OneArtifact
<1> QED BY <1>4, <1>5, <1>7, <1>8 DEF Facts

\* A step of the run that reads no record and makes no Note.
QuietStep ==
  /\ run.pc # "idle" /\ UNCHANGED <<log, field>> /\ SameReports
  /\ run'.index = run.index /\ run'.note \subseteq run.note
  /\ disk'.notes \cup durable'.notes \subseteq NotesAbout
  /\ SameRequest(session', session)
  /\ session'.seen_keys = session.seen_keys /\ session'.final_claim = session.final_claim
  /\ run'.pc = "draining" => run'.failure \/ session'.rejected

LEMMA SessionStays ==
  ASSUME SessionIsTrue, UNCHANGED <<log, field>>, SameReports, SameRequest(session', session),
         session'.seen_keys = session.seen_keys, session'.final_claim = session.final_claim,
         run'.pc = "draining" => run'.failure \/ session'.rejected
  PROVE  SessionIsTrue'
<1>1. Enumerated => Enumerated'
  BY DEF Enumerated, Unenumerated, InWindow, LiveSince, LiveAt, IsUpsert, VersionAt, SameReports,
         SameRequest
<1> QED BY <1>1 DEF SessionIsTrue, SameReports

LEMMA QuietStepKeeps ==
  ASSUME Facts, Place, QuietStep
  PROVE  Facts' /\ SessionIsTrue'
<1>1. NotesAbout' \subseteq NotesAbout
  BY DEF NotesAbout, QuietStep
<1>2. IndexIsOwn'
  BY DEF Facts, IndexIsOwn, QuietStep
<1>3. Facts'
  BY <1>1, <1>2, FactsStay DEF QuietStep
<1> QED BY <1>3, SessionStays DEF QuietStep, Place

LEMMA TypesStay ==
  ASSUME TypeOK, UNCHANGED <<log, field>>, disk' \in Directories, durable' \in Directories,
         session' \in Sessions, run' \in Runs, faults' \in 0 .. MaxFaults
  PROVE  TypeOK'
  BY DEF TypeOK, StoreTypeOK, UpstreamTypeOK

LEMMA FieldIsTyped ==
  ASSUME TypeOK
  PROVE  /\ field \in FieldTypes /\ field.scope_of \in [Keys -> Scopes]
         /\ field.tombstones \in BOOLEAN /\ field.version_ordering \in BOOLEAN
         /\ field.window_supported \in BOOLEAN /\ field.changes \in 0 .. MaxVersion
         /\ field.modes \subseteq {"incremental", "snapshot"}
  BY SyncAssumption DEF TypeOK, FieldTypes

LEMMA GoFields ==
  ASSUME run \in Runs, NEW p \in Points, run' = [run EXCEPT !.pc = p]
  PROVE  /\ run' \in Runs /\ run'.pc = p /\ SameReports
         /\ run'.cursor = run.cursor /\ run'.offered = run.offered
         /\ run'.index = run.index /\ run'.key = run.key /\ run'.note = run.note
         /\ run'.absent = run.absent /\ run'.failure = run.failure
         /\ run'.withheld = run.withheld
  BY DEF Runs, SameReports

LEMMA NewSessionIsTyped ==
  ASSUME TypeOK, NEW mode \in {"incremental", "snapshot"}, NEW scope \in Scopes,
         NEW windowed \in BOOLEAN, NEW s,
         s = NewSession(Manifest(field),
              [mode |-> mode, scope |-> IF mode = "snapshot" THEN {scope} ELSE {},
               windowed |-> windowed], NothingSeen)
  PROVE  /\ s \in Sessions /\ s.seen_keys = NothingSeen /\ s.final_claim = {}
         /\ s.committed = {} /\ s.request.windowed = windowed
<1>1. Manifest(field) \in Manifests
  BY FieldIsTyped DEF Manifest, Manifests
<1>2. [mode |-> mode, scope |-> IF mode = "snapshot" THEN {scope} ELSE {}, windowed |-> windowed]
        \in Requests
  BY DEF Requests
<1>3. NothingSeen \in [Keys -> Payloads \cup {<<"unseen", 0>>}]
  BY DEF NothingSeen
<1> QED BY <1>1, <1>2, <1>3 DEF NewSession, Sessions

\* Between runs nothing is remembered.
LEMMA IdleIsTyped ==
  ASSUME TypeOK
  PROVE  Idle \in Runs /\ NoSession(field) \in Sessions
<1>1. Idle \in Runs
  BY UpstreamAssumption DEF Idle, Runs, Points
<1>2. Manifest(field) \in Manifests
  BY FieldIsTyped DEF Manifest, Manifests
<1>3. [mode |-> "incremental", scope |-> {}, windowed |-> FALSE] \in Requests
  BY DEF Requests
<1>4. NothingSeen \in [Keys -> Payloads \cup {<<"unseen", 0>>}]
  BY DEF NothingSeen
<1>5. NoSession(field) \in Sessions
  BY <1>2, <1>3, <1>4 DEF NoSession, NewSession, Sessions
<1> QED BY <1>1, <1>5

\* However a run ends.
LEMMA EndKeeps ==
  ASSUME IInv, End, UNCHANGED <<log, field>>, disk' \in Directories, durable' \in Directories,
         disk'.notes \cup durable'.notes \subseteq NotesAbout, faults' \in 0 .. MaxFaults
  PROVE  IInv'
<1>1. TypeOK /\ Facts
  BY DEF IInv
<1>2. run' = Idle /\ session' = NoSession(field)
  BY DEF End
<1>3. TypeOK'
  BY <1>1, <1>2, IdleIsTyped, TypesStay
<1>4. Facts'
  BY <1>1, <1>2, FactsEnd DEF TypeOK
<1>5. run'.pc = "idle" /\ run'.key = {} /\ run'.note = {}
  BY <1>2 DEF Idle
<1>6. session'.seen_keys = NothingSeen /\ session'.final_claim = {}
  BY <1>2 DEF NoSession, NewSession
<1>7. SessionIsTrue'
  BY <1>5, <1>6 DEF SessionIsTrue, NothingSeen
<1>8. IndexStands' /\ OneRecord' /\ AbsentAreGone'
  BY <1>5 DEF IndexStands, OneRecord, AbsentAreGone, Untouched, Touched, Between, Storing, Removing,
              Installing, Sweeping
<1> QED BY <1>3, <1>4, <1>7, <1>8 DEF IInv, Place

LEMMA InitKeeps == Init => IInv
<1> SUFFICES ASSUME Init PROVE IInv
  OBVIOUS
<1>1. run = Idle /\ session = NoSession(field) /\ log = <<>> /\ faults = 0
  BY DEF Init, UpstreamInit
<1>2. TypeOK
  <2>1. StoreTypeOK
    BY DEF Init, StoreInit, EmptyNotebook, StoreTypeOK, Directories
  <2>2. UpstreamTypeOK
    BY <1>1, UpstreamAssumption DEF UpstreamTypeOK
  <2>3. field \in Fields /\ field \in FieldTypes
    BY SyncAssumption DEF Init
  <2>4. Idle \in Runs
    BY UpstreamAssumption DEF Idle, Runs, Points
  <2>5. NoSession(field) \in Sessions
    <3>1. Manifest(field) \in Manifests
      BY <2>3 DEF Manifest, Manifests, FieldTypes
    <3>2. [mode |-> "incremental", scope |-> {}, windowed |-> FALSE] \in Requests
      BY DEF Requests
    <3>3. NothingSeen \in [Keys -> Payloads \cup {<<"unseen", 0>>}]
      BY DEF NothingSeen
    <3> QED BY <3>1, <3>2, <3>3 DEF NoSession, NewSession, Sessions
  <2> QED BY <1>1, <2>1, <2>2, <2>3, <2>4, <2>5, SyncAssumption DEF TypeOK
<1>3. /\ run.pc = "idle" /\ run.key = {} /\ run.note = {} /\ run.start = 0
      /\ \A k \in Keys : run.index[k] = {} /\ run.reported[k] = 0
  BY <1>1 DEF Idle
<1>4. NotesAbout = {}
  BY <1>3 DEF NotesAbout, Init, StoreInit, EmptyNotebook
<1>5. Facts
  BY <1>1, <1>3, <1>4 DEF Facts, NotesAreReal, IdsAreOwn, IndexIsOwn, NotesAreKnown, ReportsAreReal,
                          OneArtifact
<1>6. session.seen_keys = NothingSeen /\ session.final_claim = {}
  BY <1>1 DEF NoSession, NewSession
<1>7. SessionIsTrue
  BY <1>3, <1>6 DEF SessionIsTrue, NothingSeen
<1>8. IndexStands /\ OneRecord /\ AbsentAreGone
  BY <1>3 DEF IndexStands, OneRecord, AbsentAreGone, Untouched, Touched, Between, Storing, Removing,
              Installing, Sweeping
<1> QED BY <1>2, <1>5, <1>7, <1>8 DEF IInv, Place

-----------------------------------------------------------------------------
(* The steps keep the invariant *)

LEMMA ChangeOfLog ==
  ASSUME TypeOK, UpstreamChanges, UNCHANGED field
  PROVE  \E c \in Changes : /\ log' = Append(log, c) /\ log \in Seq(Changes) /\ UpstreamTypeOK'
                            /\ \A a, b \in c.artifacts : a = b
                            /\ c.time \in field.times \cup {0}
<1>1. PICK c \in Changes : /\ log' = Append(log, c) /\ Len(log) < field.changes
                           /\ \A a, b \in c.artifacts : a = b
                           /\ c.time \in field.times \cup {0}
  BY DEF UpstreamChanges, ChangeWithin
<1>2. log \in Seq(Changes) /\ Len(log) \in Nat
  BY DEF TypeOK, UpstreamTypeOK
<1>3. log' \in Seq(Changes) /\ Len(log') = Len(log) + 1
  BY <1>1, <1>2
<1>4. field.changes \in 0 .. MaxVersion /\ MaxVersion \in Nat
  BY FieldIsTyped, UpstreamAssumption
<1>5. UpstreamTypeOK'
  BY <1>1, <1>2, <1>3, <1>4 DEF UpstreamTypeOK
<1> QED BY <1>1, <1>2, <1>5

LEMMA UpstreamChangesKeep ==
  ASSUME IInv, UpstreamChanges, UNCHANGED field
  PROVE  IInv'
<1>0. TypeOK /\ Facts /\ Place
  BY DEF IInv
<1>1. PICK c \in Changes : /\ log' = Append(log, c) /\ log \in Seq(Changes) /\ UpstreamTypeOK'
                           /\ \A a, b \in c.artifacts : a = b
  BY <1>0, ChangeOfLog
<1>2. UNCHANGED <<disk, durable, session, run, faults, field>>
  BY DEF UpstreamChanges
<1>3. /\ Len(log') = Len(log) + 1 /\ Len(log) \in Nat
      /\ \A v \in 1 .. Len(log) : log'[v] = log[v]
      /\ \A v \in 0 .. Len(log) : (IsUpsert(v)' <=> IsUpsert(v)) /\ (IsDelete(v)' <=> IsDelete(v))
      /\ \A k, p : p \in Nat /\ LiveSince(k, p)' => LiveSince(k, p)
  <2>1. Len(log) \in Nat
    BY <1>1
  <2> QED BY <1>1, <2>1, ChangeKeepsThePast
<1>4. TypeOK'
  BY <1>0, <1>1, <1>2 DEF TypeOK, StoreTypeOK
<1>5. NotesAbout' = NotesAbout
  BY <1>2 DEF NotesAbout
<1>6. NotesAbout \subseteq Notes
  BY <1>0 DEF NotesAbout, TypeOK, StoreTypeOK, Directories, Runs
<1>7. NotesAreReal'
  <2> SUFFICES ASSUME NEW n \in NotesAbout
               PROVE  n.version <= Len(log') /\ IsUpsert(n.version)' /\ log'[n.version].key = n.key
    BY <1>5 DEF NotesAreReal
  <2>1. n.version \in 1 .. MaxVersion /\ n.version <= Len(log) /\ IsUpsert(n.version)
        /\ log[n.version].key = n.key
    BY <1>0, <1>6 DEF Facts, NotesAreReal, Notes
  <2>2. n.version \in 1 .. Len(log)
    BY <2>1, <1>3
  <2> QED BY <2>1, <2>2, <1>3
<1>8. IdsAreOwn' /\ IndexIsOwn' /\ NotesAreKnown'
  BY <1>0, <1>2, <1>5 DEF Facts, IdsAreOwn, IndexIsOwn, NotesAreKnown, KnownAt
<1>9. /\ run.start \in Nat /\ \A k \in Keys : run.reported[k] \in Nat
  BY <1>0 DEF TypeOK, Runs
<1>10. ReportsAreReal'
  <2>1. run.start <= Len(log')
    BY <1>0, <1>3, <1>9 DEF Facts, ReportsAreReal
  <2>2. ASSUME NEW k \in Keys
        PROVE  /\ run.reported[k] <= Len(log')
               /\ run.reported[k] > 0 => log'[run.reported[k]].key = k
    BY <1>0, <1>3, <1>9 DEF Facts, ReportsAreReal
  <2> QED BY <1>2, <2>1, <2>2 DEF ReportsAreReal
<1>11. OneArtifact'
  <2> SUFFICES ASSUME NEW v \in 1 .. Len(log') PROVE \A a, b \in log'[v].artifacts : a = b
    BY DEF OneArtifact
  <2>1. CASE v \in 1 .. Len(log)
    BY <1>0, <1>3, <2>1 DEF Facts, OneArtifact
  <2>2. CASE v = Len(log')
    BY <1>1, <2>2
  <2> QED BY <1>3, <2>1, <2>2
<1>12. IndexStands' /\ OneRecord'
  <2>1. IndexStands'
    BY <1>0, <1>2 DEF Place, IndexStands
  <2>2. \A k \in Keys : run.reported[k] \in 0 .. Len(log)
    BY <1>0, <1>9 DEF Facts, ReportsAreReal
  <2>3. \A k \in Keys : run.reported[k] > 0 => log'[run.reported[k]] = log[run.reported[k]]
    BY <1>3, <2>2
  <2>4. OneRecord'
    BY <1>0, <1>2, <2>3 DEF Place, OneRecord, IsUpsert, IsDelete
  <2> QED BY <2>1, <2>4
<1>13. SessionIsTrue'
  <2>1. ASSUME NEW k \in Keys, session.seen_keys[k] # NothingSeen[k]
        PROVE  /\ run.reported[k] > 0
               /\ session.seen_keys[k] = <<log'[run.reported[k]].change, run.reported[k]>>
    <3>1. run.reported[k] \in 1 .. Len(log)
      BY <1>0, <1>9, <2>1 DEF Facts, ReportsAreReal, Place, SessionIsTrue
    <3> QED BY <1>0, <1>3, <2>1, <3>1 DEF Place, SessionIsTrue
  <2>2. Enumerated => Enumerated'
    BY <1>2, <1>3, <1>9 DEF Enumerated, Unenumerated, InWindow
  <2> QED BY <1>0, <1>2, <2>1, <2>2 DEF Place, SessionIsTrue
<1>14. AbsentAreGone'
  <2>1. ASSUME run.pc \in Sweeping, NEW k \in run.absent
        PROVE  run.reported[k] = 0 /\ ~ LiveSince(k, run.start)'
    BY <1>0, <1>2, <1>3, <1>9, <2>1 DEF Place, AbsentAreGone
  <2> QED BY <1>2, <2>1 DEF AbsentAreGone
<1> QED BY <1>4, <1>7, <1>8, <1>10, <1>11, <1>12, <1>13, <1>14 DEF IInv, Facts, Place

\* A run begins with the index of what is there and the greatest cursor.
LEMMA BeginEffect ==
  ASSUME TypeOK, Begin, UNCHANGED field
  PROVE  /\ UNCHANGED <<log, disk, durable, faults>> /\ run.pc = "idle"
         /\ run' \in Runs /\ session' \in Sessions
         /\ session'.seen_keys = NothingSeen /\ session'.final_claim = {}
         /\ session'.committed = {}
         /\ session'.request.windowed => field.window_supported
         /\ run'.pc = "reading" /\ run'.start = Len(log) /\ run'.key = {} /\ run'.note = {}
         /\ run'.index = Index(disk.notes) /\ (\A k \in Keys : run'.reported[k] = 0)
         /\ run'.cursor \in {0} \cup disk.cursor
<1>1. PICK mode \in field.modes, scope \in Range(field.scope_of) :
       /\ session' = NewSession(Manifest(field),
            [mode |-> mode, scope |-> IF mode = "snapshot" THEN {scope} ELSE {},
             windowed |-> field.window_supported /\ disk.cursor = {}], NothingSeen)
       /\ run' = [Idle EXCEPT !.pc = "reading", !.start = Len(log),
                    !.cursor = Max({0} \cup disk.cursor),
                    !.offered = Max({0} \cup disk.cursor),
                    !.index = Index(disk.notes)]
  BY DEF Begin
<1>2. scope \in Scopes /\ mode \in {"incremental", "snapshot"}
  BY FieldIsTyped DEF Range
<1>3. (field.window_supported /\ disk.cursor = {}) \in BOOLEAN
  OBVIOUS
<1>4. /\ session' \in Sessions /\ session'.seen_keys = NothingSeen
      /\ session'.final_claim = {} /\ session'.committed = {}
      /\ session'.request.windowed = (field.window_supported /\ disk.cursor = {})
  BY <1>1, <1>2, <1>3, NewSessionIsTyped
<1>5. Max({0} \cup disk.cursor) \in {0} \cup disk.cursor
  <2>1. {0} \cup disk.cursor \in SUBSET (0 .. MaxVersion)
    BY UpstreamAssumption DEF TypeOK, StoreTypeOK, Directories
  <2>2. \E x \in {0} \cup disk.cursor : \A y \in {0} \cup disk.cursor : x >= y
    BY <2>1, UpstreamAssumption, HasGreatest
  <2> QED BY <2>2 DEF Max
<1>6. Index(disk.notes) \in [Keys -> SUBSET Notes]
  BY DEF Index, NotesOf, TypeOK, StoreTypeOK, Directories
<1>7. Len(log) \in 0 .. MaxVersion
  BY UpstreamAssumption DEF TypeOK, UpstreamTypeOK
<1>8. Max({0} \cup disk.cursor) \in 0 .. MaxVersion
  BY <1>5, UpstreamAssumption DEF TypeOK, StoreTypeOK, Directories
<1>9. Idle \in Runs
  BY IdleIsTyped
<1>10. run' \in Runs
  <2>1. ASSUME NEW i \in [Keys -> SUBSET Notes], NEW c \in 0 .. MaxVersion, NEW b \in 0 .. MaxVersion
        PROVE  [Idle EXCEPT !.pc = "reading", !.start = b, !.cursor = c, !.offered = c, !.index = i]
                 \in Runs
    BY <1>9 DEF Runs, Points
  <2> QED BY <1>1, <1>6, <1>7, <1>8, <2>1
<1>11. /\ run'.pc = "reading" /\ run'.start = Len(log) /\ run'.key = {} /\ run'.note = {}
       /\ run'.index = Index(disk.notes) /\ (\A k \in Keys : run'.reported[k] = 0)
       /\ run'.cursor = Max({0} \cup disk.cursor)
  BY <1>1 DEF Idle
<1>12. UNCHANGED <<log, disk, durable, faults>> /\ run.pc = "idle"
  BY DEF Begin
<1> QED BY <1>4, <1>5, <1>10, <1>11, <1>12

LEMMA BeginKeeps ==
  ASSUME IInv, Begin, UNCHANGED field
  PROVE  IInv'
<1>0. TypeOK /\ Facts
  BY DEF IInv
<1>1. /\ UNCHANGED <<log, disk, durable, faults>>
      /\ run' \in Runs /\ session' \in Sessions
      /\ session'.seen_keys = NothingSeen /\ session'.final_claim = {}
      /\ run'.pc = "reading" /\ run'.start = Len(log) /\ run'.key = {} /\ run'.note = {}
      /\ run'.index = Index(disk.notes) /\ (\A k \in Keys : run'.reported[k] = 0)
  BY <1>0, BeginEffect
<1>2. TypeOK'
  BY <1>0, <1>1, TypesStay DEF TypeOK, StoreTypeOK
<1>3. \A k \in Keys : /\ run'.index[k] \subseteq disk.notes
                      /\ \A n \in run'.index[k] : n.key = k
  BY <1>1 DEF Index, NotesOf
<1>4. NotesAbout' \subseteq NotesAbout
  BY <1>1, <1>3 DEF NotesAbout
<1>5. NotesAreReal' /\ IdsAreOwn' /\ IndexIsOwn' /\ OneArtifact'
  BY <1>0, <1>1, <1>3, <1>4
     DEF Facts, NotesAreReal, IdsAreOwn, IndexIsOwn, OneArtifact, IsUpsert
<1>6. NotesAbout' \subseteq Notes
  BY <1>0, <1>4 DEF NotesAbout, TypeOK, StoreTypeOK, Directories, Runs
<1>7. NotesAreKnown'
  BY <1>1, <1>5, <1>6 DEF NotesAreKnown, NotesAreReal, KnownAt, Notes
<1>8. Len(log) \in Nat
  BY <1>0 DEF TypeOK, UpstreamTypeOK
<1>9. ReportsAreReal'
  BY <1>1, <1>8 DEF ReportsAreReal
<1>10. IndexStands' /\ OneRecord' /\ AbsentAreGone'
  BY <1>1, <1>3 DEF IndexStands, OneRecord, AbsentAreGone, Untouched, Touched, Between, Storing,
                    Removing, Installing, Sweeping
<1>11. SessionIsTrue'
  BY <1>1 DEF SessionIsTrue, NothingSeen
<1> QED BY <1>2, <1>5, <1>7, <1>9, <1>10, <1>11 DEF IInv, Facts, Place

-----------------------------------------------------------------------------
(* A record is taken *)

\* What taking a record of `k` says of `k`, and does to the session.
LEMMA TakesEffect ==
  ASSUME IInv, NEW k \in Keys, NEW d, Takes(k, d), NEW t, t = Accept(session, RecordOf(k))
  PROVE  /\ run.pc = "reading" /\ run.key = {} /\ run.note = {} /\ Version(k) \in 1 .. Len(log)
         /\ log[Version(k)].key = k /\ log[Version(k)] \in Changes /\ Version(k) <= MaxVersion
         /\ d = "upsert" => IsUpsert(Version(k))
         /\ d = "delete" => IsDelete(Version(k))
         /\ d = "no_change" => run.reported[k] = Version(k)
         /\ t \in Sessions /\ SameRequest(t, session)
         /\ t.seen_keys = [session.seen_keys EXCEPT ![k] = <<log[Version(k)].change, Version(k)>>]
         /\ t.final_claim = session.final_claim /\ t.committed = session.committed
<1>0. TypeOK /\ Facts /\ Place
  BY DEF IInv
<1>1. run.pc = "reading" /\ MaySend(k) /\ ~ t.rejected
  BY DEF Takes, Accepted
<1>2. run.key = {} /\ run.note = {}
  BY <1>0, <1>1 DEF Place, OneRecord, Between
<1>3. Len(log) \in Nat /\ Len(log) <= MaxVersion /\ log \in Seq(Changes) /\ MaxVersion \in Nat
  BY <1>0, UpstreamAssumption DEF TypeOK, UpstreamTypeOK
<1>4. Version(k) \in 0 .. Len(log) /\ (Version(k) > 0 => log[Version(k)].key = k)
  BY <1>3, VersionIsLast DEF Version
<1>5. run.cursor \in Nat /\ run.start \in Nat /\ run.start <= Len(log)
  BY <1>0 DEF TypeOK, Runs, Facts, ReportsAreReal
<1>6. Version(k) > 0
  <2>1. CASE Owed(k, Len(log))
    BY <1>4, <1>5, <2>1 DEF Owed, Version
  <2>2. CASE Unenumerated(k)
    BY <1>3, <1>5, <2>2 DEF Unenumerated, LiveSince, LiveAt, IsUpsert, Version
  <2> QED BY <1>1, <2>1, <2>2 DEF MaySend
<1>7. Version(k) \in 1 .. Len(log) /\ log[Version(k)] \in Changes
  BY <1>3, <1>4, <1>6
<1>8. log[Version(k)].change \in {"upsert", "delete"}
  BY <1>7 DEF Changes
<1> DEFINE e == RecordOf(k)
<1>9. /\ e.type = "record" /\ e.key = k
      /\ e.payload = <<log[Version(k)].change, Version(k)>>
  BY DEF RecordOf
<1>10. e.payload \in Payloads
  BY <1>3, <1>7, <1>8, <1>9 DEF Payloads
<1> HIDE DEF e
<1>11. t = Accept(session, e) /\ Disposition(session, e) = d
  BY DEF e, Takes
<1>12. /\ t \in Sessions /\ SameRequest(t, session)
       /\ t.seen_keys = [session.seen_keys EXCEPT ![k] = e.payload]
       /\ t.final_claim = session.final_claim /\ t.committed = session.committed
  BY <1>0, <1>1, <1>9, <1>10, <1>11, TakenRecord DEF TypeOK
<1>13. d = "upsert" => IsUpsert(Version(k))
  BY <1>6, <1>9, <1>11 DEF Disposition, IsUpsert
<1>14. d = "delete" => IsDelete(Version(k))
  <2> SUFFICES ASSUME d = "delete" PROVE log[Version(k)].change # "upsert"
    BY <1>6, <1>8 DEF IsDelete
  <2>1. e.payload \notin {"upsert"} \X (1 .. MaxVersion)
    BY <1>11 DEF Disposition
  <2> QED BY <1>3, <1>7, <1>9, <2>1
<1>15. d = "no_change" => run.reported[k] = Version(k)
  <2> SUFFICES ASSUME d = "no_change" PROVE run.reported[k] = Version(k)
    OBVIOUS
  <2>1. session.seen_keys[k] = <<log[Version(k)].change, Version(k)>>
    BY <1>9, <1>11 DEF Disposition
  <2>2. session.seen_keys[k] # NothingSeen[k]
    BY <1>6, <2>1 DEF NothingSeen
  <2> QED BY <1>0, <2>1, <2>2 DEF Place, SessionIsTrue
<1> QED BY <1>1, <1>2, <1>3, <1>4, <1>7, <1>9, <1>12, <1>13, <1>14, <1>15

\* The step that took a record of `k` and goes to `p`, with `key` still to apply.
LEMMA ReportedFields ==
  ASSUME TypeOK, NEW k \in Keys, Version(k) \in 0 .. MaxVersion,
         NEW p \in Points, NEW key \in {{}, {k}},
         run' = [run EXCEPT !.pc = p, !.reported[k] = Version(k), !.key = key]
  PROVE  /\ run' \in Runs /\ run'.pc = p /\ run'.key = key
         /\ run'.reported = [run.reported EXCEPT ![k] = Version(k)]
         /\ run'.start = run.start /\ run'.cursor = run.cursor /\ run'.index = run.index
         /\ run'.note = run.note /\ run'.absent = run.absent /\ run'.failure = run.failure
<1>1. run \in Runs
  BY DEF TypeOK
<1>2. [run.reported EXCEPT ![k] = Version(k)] \in [Keys -> 0 .. MaxVersion]
  BY <1>1 DEF Runs
<1> QED BY <1>1, <1>2 DEF Runs

LEMMA RecordTakenKeeps ==
  ASSUME IInv, NEW k \in Keys, NEW d, Takes(k, d), UNCHANGED <<log, disk, durable, faults, field>>,
         NEW p \in Points \ {"idle"}, NEW key \in {{}, {k}},
         run' = [run EXCEPT !.pc = p, !.reported[k] = Version(k), !.key = key],
         session' \in Sessions, SameRequest(session', Accept(session, RecordOf(k))),
         session'.seen_keys = Accept(session, RecordOf(k)).seen_keys,
         session'.final_claim = Accept(session, RecordOf(k)).final_claim,
         p = "draining" => session'.rejected,
         p = "reading" => key = {},
         p \in {"compare", "artifact"} => key = {k} /\ d = "upsert",
         p = "unlink" => key = {k} /\ d = "delete",
         p \in {"reading", "draining", "compare", "artifact", "unlink"}
  PROVE  IInv'
<1>0. TypeOK /\ Facts /\ Place
  BY DEF IInv
<1>1. PICK t : t = Accept(session, RecordOf(k))
  OBVIOUS
<1>2. /\ run.pc = "reading" /\ run.key = {} /\ run.note = {} /\ Version(k) \in 1 .. Len(log)
      /\ log[Version(k)].key = k /\ Version(k) <= MaxVersion
      /\ d = "upsert" => IsUpsert(Version(k))
      /\ d = "delete" => IsDelete(Version(k))
      /\ SameRequest(t, session)
      /\ t.seen_keys = [session.seen_keys EXCEPT ![k] = <<log[Version(k)].change, Version(k)>>]
      /\ t.final_claim = session.final_claim
  BY <1>1, TakesEffect
<1>3. /\ SameRequest(session', session)
      /\ session'.seen_keys = [session.seen_keys EXCEPT ![k] = <<log[Version(k)].change, Version(k)>>]
      /\ session'.final_claim = session.final_claim
  BY <1>1, <1>2 DEF SameRequest
<1>4. Len(log) \in Nat /\ Version(k) \in 0 .. MaxVersion
  BY <1>0, <1>2, UpstreamAssumption DEF TypeOK, UpstreamTypeOK
<1>5. /\ run' \in Runs /\ run'.pc = p /\ run'.key = key
      /\ run'.reported = [run.reported EXCEPT ![k] = Version(k)]
      /\ run'.start = run.start /\ run'.index = run.index
      /\ run'.note = run.note /\ run'.absent = run.absent
  BY <1>0, <1>4, ReportedFields
<1>6. TypeOK'
  BY <1>0, <1>5, TypesStay DEF TypeOK, StoreTypeOK
<1>7. NotesAbout' = NotesAbout
  BY <1>5 DEF NotesAbout
<1>8. IndexIsOwn'
  BY <1>0, <1>5 DEF Facts, IndexIsOwn
<1>9. Facts'
  BY <1>0, <1>2, <1>5, <1>7, <1>8, FactsReported
<1>10. run.reported \in [Keys -> 0 .. MaxVersion] /\ session.seen_keys \in [Keys -> Payloads \cup {<<"unseen", 0>>}]
  BY <1>0 DEF TypeOK, Runs, Sessions
<1>11. IndexStands'
  BY <1>0, <1>2, <1>5 DEF Place, IndexStands, Untouched, Touched, Between
<1>12. OneRecord'
  <2>1. run'.reported[k] = Version(k)
    BY <1>5, <1>10
  <2>4. (run.pc \in Storing => \E j \in Keys : run.key = {j} /\ IsUpsert(run.reported[j]))'
    BY <1>2, <1>5, <2>1 DEF IsUpsert, Storing, Installing
  <2>5. (run.pc \in Removing => \E j \in Keys : run.key = {j} /\ IsDelete(run.reported[j]))'
    BY <1>2, <1>5, <2>1 DEF IsDelete, Removing
  <2> QED BY <1>2, <1>5, <2>4, <2>5 DEF OneRecord, Between, Installing
<1>13. SessionIsTrue'
  <2>1. ASSUME NEW j \in Keys, session'.seen_keys[j] # NothingSeen[j]
        PROVE  /\ run'.reported[j] > 0
               /\ session'.seen_keys[j] = <<log[run'.reported[j]].change, run'.reported[j]>>
    <3>1. CASE j = k
      BY <1>2, <1>3, <1>5, <1>10, <3>1
    <3>2. CASE j # k
      BY <1>0, <1>3, <1>5, <1>10, <2>1, <3>2 DEF Place, SessionIsTrue
    <3> QED BY <3>1, <3>2
  <2>2. \A j \in Keys : run'.reported[j] = 0 => run.reported[j] = 0
    BY <1>2, <1>5, <1>10
  <2>3. Enumerated => Enumerated'
    BY <1>3, <1>5, <2>2 DEF Enumerated, Unenumerated, InWindow, LiveSince, LiveAt, IsUpsert, VersionAt,
                            SameRequest
  <2>4. NothingSeen' = NothingSeen
    BY DEF NothingSeen
  <2> QED BY <1>0, <1>3, <1>5, <2>1, <2>3, <2>4 DEF Place, SessionIsTrue
<1>14. AbsentAreGone'
  BY <1>5 DEF AbsentAreGone, Sweeping
<1> QED BY <1>6, <1>9, <1>11, <1>12, <1>13, <1>14 DEF IInv, Place

\* The bytes a record has to stage are counted.
LEMMA MissingIsCounted ==
  ASSUME IInv, NEW k \in Keys, Version(k) \in 1 .. Len(log)
  PROVE  Cardinality(Missing(k)) \in Nat
<1>1. \A a, b \in log[Version(k)].artifacts : a = b
  BY DEF IInv, Facts, OneArtifact
<1>2. CASE Missing(k) = {}
  BY <1>2, FS_EmptySet
<1>3. CASE Missing(k) # {}
  <2>1. PICK a : Missing(k) = {a}
    BY <1>1, <1>3 DEF Missing
  <2>2. Cardinality({a}) = 1
    BY FS_Singleton
  <2> QED BY <2>1, <2>2
<1> QED BY <1>2, <1>3

LEMMA TakesKeep ==
  ASSUME IInv, TakeRepeat \/ TakeDelete \/ TakeUpsert, UNCHANGED field
  PROVE  IInv'
<1>0. TypeOK /\ run \in Runs /\ session \in Sessions
  BY DEF IInv, TypeOK
<1>1. \A k \in Keys : Reported(k) = [run EXCEPT !.reported[k] = Version(k), !.key = {k}]
  BY DEF Reported
<1>2. CASE TakeRepeat
  <2>1. PICK k \in Keys : /\ Takes(k, "no_change")
                          /\ session' = Settled(Accept(session, RecordOf(k)))
                          /\ run' = [Reported(k) EXCEPT !.key = {}]
                          /\ UNCHANGED <<log, disk, durable, faults>>
    BY <1>2 DEF TakeRepeat
  <2>2. PICK t \in Sessions : t = Accept(session, RecordOf(k))
    BY <2>1, TakesEffect
  <2>3. run.pc = "reading"
    BY <2>1, TakesEffect
  <2>4. /\ session' \in Sessions /\ SameRequest(session', t)
        /\ session'.seen_keys = t.seen_keys /\ session'.final_claim = t.final_claim
    BY <2>1, <2>2, SmallMethods
  <2>5. run' = [run EXCEPT !.pc = "reading", !.reported[k] = Version(k), !.key = {}]
    BY <1>0, <2>1, <2>3 DEF Reported, Runs
  <2>6. /\ session' \in Sessions /\ SameRequest(session', Accept(session, RecordOf(k)))
        /\ session'.seen_keys = Accept(session, RecordOf(k)).seen_keys
        /\ session'.final_claim = Accept(session, RecordOf(k)).final_claim
    BY <2>2, <2>4
  <2>7. "reading" \in Points \ {"idle"}
    BY DEF Points
  <2> QED BY <2>1, <2>5, <2>6, <2>7, RecordTakenKeeps
<1>3. CASE TakeDelete
  <2>1. PICK k \in Keys :
          /\ Takes(k, "delete") /\ UNCHANGED <<log, disk, durable, faults>>
          /\ IF run.index[k] = {}
               THEN /\ session' = Settled(Accept(session, RecordOf(k)))
                    /\ run' = [Reported(k) EXCEPT !.key = {}]
               ELSE /\ session' = Accept(session, RecordOf(k))
                    /\ run' = [Reported(k) EXCEPT !.pc = "unlink"]
    BY <1>3 DEF TakeDelete
  <2>2. PICK t \in Sessions : t = Accept(session, RecordOf(k))
    BY <2>1, TakesEffect
  <2>3. run.pc = "reading"
    BY <2>1, TakesEffect
  <2>4. CASE run.index[k] = {}
    <3>1. /\ session' \in Sessions /\ SameRequest(session', t)
          /\ session'.seen_keys = t.seen_keys /\ session'.final_claim = t.final_claim
      BY <2>1, <2>2, <2>4, SmallMethods
    <3>2. run' = [run EXCEPT !.pc = "reading", !.reported[k] = Version(k), !.key = {}]
      BY <1>0, <2>1, <2>3, <2>4 DEF Reported, Runs
    <3>3. /\ session' \in Sessions /\ SameRequest(session', Accept(session, RecordOf(k)))
          /\ session'.seen_keys = Accept(session, RecordOf(k)).seen_keys
          /\ session'.final_claim = Accept(session, RecordOf(k)).final_claim
      BY <2>2, <3>1
    <3>4. "reading" \in Points \ {"idle"}
      BY DEF Points
    <3> QED BY <2>1, <3>2, <3>3, <3>4, RecordTakenKeeps
  <2>5. CASE run.index[k] # {}
    <3>1. session' = t /\ SameRequest(session', t)
      BY <2>1, <2>2, <2>5 DEF SameRequest
    <3>2. run' = [run EXCEPT !.pc = "unlink", !.reported[k] = Version(k), !.key = {k}]
      BY <1>0, <2>1, <2>5 DEF Reported, Runs
    <3>3. /\ session' \in Sessions /\ SameRequest(session', Accept(session, RecordOf(k)))
          /\ session'.seen_keys = Accept(session, RecordOf(k)).seen_keys
          /\ session'.final_claim = Accept(session, RecordOf(k)).final_claim
      BY <2>2, <3>1
    <3>4. "unlink" \in Points \ {"idle"}
      BY DEF Points
    <3> QED BY <2>1, <3>2, <3>3, <3>4, RecordTakenKeeps
  <2> QED BY <2>4, <2>5
<1>4. CASE TakeUpsert
  <2>1. PICK k \in Keys :
          /\ Takes(k, "upsert") /\ UNCHANGED <<log, disk, durable, faults>>
          /\ session' = ResolveArtifacts(Accept(session, RecordOf(k)), TRUE, Cardinality(Missing(k)))
          /\ run' = [Reported(k) EXCEPT !.pc = IF session'.rejected    THEN "draining"
                                               ELSE IF Missing(k) = {} THEN "compare"
                                               ELSE "artifact"]
    BY <1>4 DEF TakeUpsert
  <2>2. PICK t \in Sessions : t = Accept(session, RecordOf(k))
    BY <2>1, TakesEffect
  <2>3. Cardinality(Missing(k)) \in Nat
    BY <2>1, TakesEffect, MissingIsCounted
  <2>4. /\ session' \in Sessions /\ SameRequest(session', t)
        /\ session'.seen_keys = t.seen_keys /\ session'.final_claim = t.final_claim
    BY <2>1, <2>2, <2>3, SmallMethods
  <2>5. PICK p \in {"draining", "compare", "artifact"} :
          /\ run' = [run EXCEPT !.pc = p, !.reported[k] = Version(k), !.key = {k}]
          /\ p = "draining" => session'.rejected
    <3>1. CASE session'.rejected
      <4>1. run' = [run EXCEPT !.pc = "draining", !.reported[k] = Version(k), !.key = {k}]
        BY <1>0, <2>1, <3>1 DEF Reported, Runs
      <4> QED BY <3>1, <4>1
    <3>2. CASE ~ session'.rejected /\ Missing(k) = {}
      <4>1. run' = [run EXCEPT !.pc = "compare", !.reported[k] = Version(k), !.key = {k}]
        BY <1>0, <2>1, <3>2 DEF Reported, Runs
      <4> QED BY <4>1
    <3>3. CASE ~ session'.rejected /\ Missing(k) # {}
      <4>1. run' = [run EXCEPT !.pc = "artifact", !.reported[k] = Version(k), !.key = {k}]
        BY <1>0, <2>1, <3>3 DEF Reported, Runs
      <4> QED BY <4>1
    <3> QED BY <3>1, <3>2, <3>3
  <2> QED BY <2>1, <2>2, <2>4, <2>5, RecordTakenKeeps DEF Points
<1> QED BY <1>2, <1>3, <1>4

-----------------------------------------------------------------------------
(* The record is applied *)

LEMMA OneKey ==
  ASSUME IInv, run.pc \in Storing \cup Removing
  PROVE  \E k \in Keys : /\ run.key = {k} /\ Key = k
                         /\ Reporting = run.reported[k] /\ Existing = run.index[k]
                         /\ run.reported[k] \in 1 .. Len(log) /\ log[run.reported[k]] \in Changes
                         /\ log[run.reported[k]].key = k
                         /\ run.pc \in Storing => IsUpsert(run.reported[k])
                         /\ run.pc \in Removing => IsDelete(run.reported[k])
<1>1. PICK k \in Keys : /\ run.key = {k} /\ run.reported[k] > 0
                        /\ run.pc \in Storing => IsUpsert(run.reported[k])
                        /\ run.pc \in Removing => IsDelete(run.reported[k])
  BY DEF IInv, Place, OneRecord, IsUpsert, IsDelete, Storing, Installing, Removing
<1>2. Key = k
  <2>1. Key \in run.key
    BY <1>1 DEF Key
  <2> QED BY <1>1, <2>1
<1>3. run.reported[k] \in Nat /\ Len(log) \in Nat /\ log \in Seq(Changes)
  BY DEF IInv, TypeOK, Runs, UpstreamTypeOK
<1>4. run.reported[k] <= Len(log) /\ log[run.reported[k]].key = k
  <2>1. ReportsAreReal
    BY DEF IInv, Facts
  <2> QED BY <1>1, <2>1 DEF ReportsAreReal
<1> QED BY <1>1, <1>2, <1>3, <1>4 DEF Reporting, Existing

\* Notes of other keys have other names.
LEMMA NamesAreOwn ==
  ASSUME Facts, NEW m \in NotesAbout, NEW n \in NotesAbout, Filename(m) = Filename(n)
  PROVE  m.key = n.key /\ m.id = n.id
<1>1. m.id = n.id
  BY DEF Filename
<1> QED BY <1>1 DEF Facts, IdsAreOwn

LEMMA OthersStay ==
  ASSUME Facts, NEW n \in NotesAbout, NEW N, disk.notes \ Named(disk.notes, Filename(n)) \subseteq N,
         NEW j \in Keys, j # n.key, run.index[j] \subseteq disk.notes
  PROVE  run.index[j] \subseteq N
<1> SUFFICES ASSUME NEW m \in run.index[j] PROVE Filename(m) # Filename(n)
  BY DEF Named
<1>1. m \in NotesAbout /\ m.key = j
  BY DEF NotesAbout, Facts, IndexIsOwn
<1> QED BY <1>1, NamesAreOwn

\* Steps that go from one place to the next and touch no Note.
LEMMA MovesKeep ==
  ASSUME IInv, NEW q \in Points, run' = [run EXCEPT !.pc = q],
         UNCHANGED <<log, session, faults, field>>, disk' \in Directories, durable' \in Directories,
         disk'.notes = disk.notes, durable'.notes = durable.notes,
         \/ run.pc = "artifact" /\ q = "artifact_sync"
         \/ run.pc = "artifact_sync" /\ q = "compare"
         \/ run.pc = "cursor" /\ q = "cursor_sync"
         \/ run.pc = "cursor_sync" /\ q = "reading"
  PROVE  IInv'
<1>0. TypeOK /\ Facts /\ Place
  BY DEF IInv
<1>1. /\ run' \in Runs /\ run'.pc = q /\ SameReports /\ run'.index = run.index
      /\ run'.key = run.key /\ run'.note = run.note /\ run'.absent = run.absent
  BY <1>0, GoFields DEF TypeOK
<1>2. TypeOK'
  BY <1>0, <1>1, TypesStay DEF TypeOK
<1>3. QuietStep
  BY <1>1 DEF QuietStep, NotesAbout, SameRequest
<1>4. Facts' /\ SessionIsTrue'
  BY <1>0, <1>3, QuietStepKeeps
<1>5. IndexStands' /\ OneRecord' /\ AbsentAreGone'
  <2>1. IndexStands' /\ AbsentAreGone'
    BY <1>0, <1>1 DEF Place, IndexStands, AbsentAreGone, Untouched, Touched, Between, Sweeping
  <2>2. OneRecord'
    BY <1>0, <1>1 DEF Place, OneRecord, IsUpsert, IsDelete, SameReports, Storing, Installing, Removing,
                      Between
  <2> QED BY <2>1, <2>2
<1> QED BY <1>2, <1>4, <1>5 DEF IInv, Place

LEMMA ArtifactStepsKeep ==
  ASSUME IInv, InstallArtifact \/ SyncArtifact, UNCHANGED field
  PROVE  IInv'
<1>0. StoreTypeOK /\ disk \in Directories /\ durable \in Directories
  BY DEF IInv, TypeOK, StoreTypeOK
<1>1. CASE InstallArtifact
  <2>0. run.pc \in Storing \cup Removing
    BY <1>1 DEF InstallArtifact, Storing
  <2>1. PICK k \in Keys : Reporting = run.reported[k] /\ log[run.reported[k]] \in Changes
    BY <2>0, OneKey
  <2>2. PICK a \in log[Reporting].artifacts : RenameArtifact(a)
    BY <1>1 DEF InstallArtifact
  <2>3. a \in Artifacts
    BY <2>1, <2>2 DEF Changes
  <2>4. disk' \in Directories /\ disk'.notes = disk.notes
    BY <1>0, <2>2, <2>3, StoreEffects
  <2>5. /\ run.pc = "artifact" /\ run' = [run EXCEPT !.pc = "artifact_sync"]
        /\ UNCHANGED <<log, durable, session, faults>> /\ "artifact_sync" \in Points
    BY <1>1 DEF InstallArtifact, Go, Points
  <2> QED BY <1>0, <2>4, <2>5, MovesKeep
<1>2. CASE SyncArtifact
  <2>1. durable' \in Directories /\ durable'.notes = durable.notes
    BY <1>0, <1>2, StoreEffects DEF SyncArtifact
  <2>2. /\ run.pc = "artifact_sync" /\ run' = [run EXCEPT !.pc = "compare"]
        /\ UNCHANGED <<log, disk, session, faults>> /\ "compare" \in Points
    BY <1>2 DEF SyncArtifact, Go, Points
  <2> QED BY <1>0, <2>1, <2>2, MovesKeep
<1> QED BY <1>1, <1>2

LEMMA CursorStepsKeep ==
  ASSUME IInv, WriteCursor \/ FinishCursor, UNCHANGED field
  PROVE  IInv'
<1>0. StoreTypeOK /\ disk \in Directories /\ durable \in Directories
  BY DEF IInv, TypeOK, StoreTypeOK
<1>1. CASE WriteCursor
  <2>1. PICK c \in session.committed : RenameCursor(c.cursor)
    BY <1>1 DEF WriteCursor
  <2>2. c.cursor \in 0 .. MaxVersion
    BY DEF IInv, TypeOK, Sessions, Offers
  <2>3. disk' \in Directories /\ disk'.notes = disk.notes
    BY <1>0, <2>1, <2>2, StoreEffects
  <2>4. /\ run.pc = "cursor" /\ run' = [run EXCEPT !.pc = "cursor_sync"]
        /\ UNCHANGED <<log, durable, session, faults>> /\ "cursor_sync" \in Points
    BY <1>1 DEF WriteCursor, Go, Points
  <2> QED BY <1>0, <2>3, <2>4, MovesKeep
<1>2. CASE FinishCursor
  <2>1. durable' \in Directories /\ durable'.notes = durable.notes
    BY <1>0, <1>2, StoreEffects DEF FinishCursor
  <2>2. /\ run.pc = "cursor_sync" /\ run' = [run EXCEPT !.pc = "reading"]
        /\ UNCHANGED <<log, disk, session, faults>> /\ "reading" \in Points
    BY <1>2 DEF FinishCursor, Go, Points
  <2> QED BY <1>0, <2>1, <2>2, MovesKeep
<1> QED BY <1>1, <1>2

\* The Note projected from a report: it has an ID of its key, or a fresh one.
LEMMA CandidateIsTyped ==
  ASSUME IInv, run.pc \in Storing, Existing = {} => FreshIds # {}, NEW k \in Keys, run.key = {k}
  PROVE  /\ Candidate \in Notes /\ Candidate.key = k /\ Candidate.version = run.reported[k]
         /\ Candidate.artifacts = log[run.reported[k]].artifacts
         /\ Candidate.time = log[run.reported[k]].time
         /\ run.index[k] = {} => Candidate.id \in FreshIds
         /\ run.index[k] # {} => \E n \in run.index[k] : Candidate.id = n.id
<1>0. TypeOK
  BY DEF IInv
<1>1. PICK j \in Keys : /\ run.key = {j} /\ Key = j
                        /\ Reporting = run.reported[j] /\ Existing = run.index[j]
                        /\ run.reported[j] \in 1 .. Len(log) /\ log[run.reported[j]] \in Changes
                        /\ run.pc \in Storing => IsUpsert(run.reported[j])
  BY OneKey
<1>2. j = k
  BY <1>1
<1>3. log[run.reported[k]].time \in Times /\ log[run.reported[k]].artifacts \in SUBSET Artifacts
  BY <1>1, <1>2 DEF IsUpsert, Changes
<1>4. run.reported[k] \in 1 .. MaxVersion
  BY <1>0, <1>1, <1>2 DEF TypeOK, Runs
<1>5. /\ Candidate.key = k /\ Candidate.version = run.reported[k]
      /\ Candidate.artifacts = log[run.reported[k]].artifacts
      /\ Candidate.time = log[run.reported[k]].time
      /\ Candidate.id = IF run.index[k] = {} THEN NewId ELSE (CHOOSE n \in run.index[k] : TRUE).id
  BY <1>1, <1>2 DEF Candidate
<1>6. run.index[k] = {} => Candidate.id \in FreshIds
  BY <1>1, <1>2, <1>5, NewIdIsFresh
<1>7. run.index[k] # {} => \E n \in run.index[k] : Candidate.id = n.id
  BY <1>5
<1>8. run.index[k] \subseteq Notes
  BY <1>0 DEF TypeOK, Runs
<1>9. Candidate.id \in 1 .. MaxNoteIds
  BY <1>6, <1>7, <1>8 DEF FreshIds, Notes
<1>10. Candidate = [key |-> k, id |-> Candidate.id, time |-> log[run.reported[k]].time,
                    version |-> run.reported[k], artifacts |-> log[run.reported[k]].artifacts]
  BY <1>1, <1>2 DEF Candidate
<1>11. Candidate \in Notes
  BY <1>3, <1>4, <1>9, <1>10 DEF Notes
<1> QED BY <1>5, <1>6, <1>7, <1>11

\* Its ID belongs to no other key.
LEMMA CandidateIsOwn ==
  ASSUME IInv, run.pc = "compare", Existing = {} => FreshIds # {}, NEW k \in Keys, run.key = {k}
  PROVE  run.note = {} /\ \A m \in NotesAbout : m.id = Candidate.id => m.key = k
<1>0. TypeOK /\ Facts /\ Place /\ run.pc \in Storing /\ run.pc \in Untouched
  BY DEF IInv, Storing, Untouched
<1>1. /\ run.index[k] = {} => Candidate.id \in FreshIds
      /\ run.index[k] # {} => \E n \in run.index[k] : Candidate.id = n.id
  BY <1>0, CandidateIsTyped
<1>2. \A j \in Keys : run.index[j] \subseteq disk.notes
  BY <1>0 DEF Place, IndexStands
<1>a. run.note = {}
  BY <1>0 DEF Place, OneRecord, Storing, Installing
<1>3. NotesAbout \subseteq disk.notes \cup durable.notes
  BY <1>2, <1>a DEF NotesAbout
<1>4. CASE run.index[k] = {}
  BY <1>a, <1>1, <1>3, <1>4 DEF FreshIds
<1>5. CASE run.index[k] # {}
  <2>1. PICK n \in run.index[k] : Candidate.id = n.id
    BY <1>1, <1>5
  <2>2. n \in NotesAbout /\ n.key = k
    BY <1>0 DEF NotesAbout, Facts, IndexIsOwn
  <2> QED BY <1>0, <1>a, <2>1, <2>2 DEF Facts, IdsAreOwn
<1> QED BY <1>a, <1>4, <1>5

LEMMA CompareKeeps ==
  ASSUME IInv, Compare, UNCHANGED field
  PROVE  IInv'
<1>0. /\ TypeOK /\ Facts /\ Place /\ run.pc = "compare" /\ run.pc \in Storing
      /\ UNCHANGED <<log, disk, durable, faults>> /\ (Existing = {} => FreshIds # {})
      /\ run \in Runs /\ session \in Sessions
  BY DEF IInv, Compare, Storing, TypeOK
<1>1. PICK k \in Keys : /\ run.key = {k} /\ Key = k /\ Existing = run.index[k]
                        /\ run.reported[k] \in 1 .. Len(log) /\ IsUpsert(run.reported[k])
  BY <1>0, OneKey
<1>2. CASE Existing = {Candidate}
  <2>1. session' = Settled(session) /\ run' = [run EXCEPT !.pc = "reading", !.key = {}]
    BY <1>2 DEF Compare
  <2>2. /\ run' \in Runs /\ run'.pc = "reading" /\ SameReports /\ run'.index = run.index
        /\ run'.key = {} /\ run'.note = run.note
    BY <1>0, <2>1 DEF Runs, Points, SameReports
  <2>3. /\ session' \in Sessions /\ SameRequest(session', session)
        /\ session'.seen_keys = session.seen_keys /\ session'.final_claim = session.final_claim
    BY <1>0, <2>1, SmallMethods
  <2>4. TypeOK'
    BY <1>0, <2>2, <2>3, TypesStay DEF TypeOK, StoreTypeOK
  <2>5. QuietStep
    BY <1>0, <2>2, <2>3 DEF QuietStep, NotesAbout
  <2>6. Facts' /\ SessionIsTrue'
    BY <1>0, <2>5, QuietStepKeeps
  <2>7. IndexStands' /\ OneRecord' /\ AbsentAreGone'
    BY <1>0, <2>2 DEF Place, IndexStands, OneRecord, AbsentAreGone, Untouched, Touched, Between,
                      Sweeping, Storing, Installing, Removing
  <2> QED BY <2>4, <2>6, <2>7 DEF IInv, Place
<1>3. CASE Existing # {Candidate}
  <2>1. session' = session /\ run' = [run EXCEPT !.pc = "note", !.note = {Candidate}]
    BY <1>3 DEF Compare
  <2>2. PICK n \in Notes : n = Candidate /\ n.key = k /\ n.version = run.reported[k]
    BY <1>0, <1>1, CandidateIsTyped
  <2>3. /\ run' \in Runs /\ run'.pc = "note" /\ SameReports /\ run'.index = run.index
        /\ run'.key = run.key /\ run'.note = {n}
    BY <1>0, <2>1, <2>2 DEF Runs, Points, SameReports
  <2>4. TypeOK'
    BY <1>0, <2>1, <2>3, TypesStay DEF TypeOK, StoreTypeOK
  <2>5. \A m \in NotesAbout \cup {n} : m.id = n.id => m.key = n.key
    BY <1>0, <1>1, <2>2, CandidateIsOwn
  <2>6. Facts'
    BY <1>0, <1>1, <2>2, <2>3, <2>5, FactsProjected
  <2>7. SessionIsTrue'
    BY <1>0, <2>1, <2>3, SessionStays DEF Place, SameRequest
  <2>8. IndexStands' /\ AbsentAreGone'
    BY <1>0, <2>3 DEF Place, IndexStands, AbsentAreGone, Untouched, Touched, Between, Sweeping
  <2>9. OneRecord'
    BY <1>0, <1>1, <2>2, <2>3 DEF OneRecord, Between, Storing, Installing, Removing, SameReports,
                                  IsUpsert
  <2> QED BY <2>4, <2>6, <2>7, <2>8, <2>9 DEF IInv, Place
<1> QED BY <1>2, <1>3

\* The Note being installed, and the key it is of.
LEMMA OneNote ==
  ASSUME IInv, run.pc \in Installing
  PROVE  \E n \in Notes :
           /\ run.note = {n} /\ run.key = {n.key} /\ n \in NotesAbout /\ Key = n.key
           /\ Existing = run.index[n.key] /\ n.version = run.reported[n.key] /\ n.version > 0
           /\ \A m \in NotesAbout : m.key = n.key => m.version <= n.version
           /\ run.pc \in Installing \ {"note"} => n \in disk.notes
<1>0. TypeOK /\ Facts /\ Place /\ run.pc \in Storing \cup Removing /\ run.pc # "idle"
  BY DEF IInv, Storing, Installing
<1>1. PICK n \in Notes : run.note = {n} /\ run.key = {n.key} /\ n.version = run.reported[n.key]
  BY <1>0 DEF Place, OneRecord
<1>2. PICK k \in Keys : run.key = {k} /\ Key = k /\ Existing = run.index[k]
                       /\ run.reported[k] \in 1 .. Len(log)
  BY <1>0, OneKey
<1>3. k = n.key
  BY <1>1, <1>2
<1>4. n \in NotesAbout /\ n.version > 0
  BY <1>1 DEF NotesAbout, Notes
<1>5. \A m \in NotesAbout : m.key = n.key => m.version <= n.version
  BY <1>0, <1>1, <1>4 DEF Facts, NotesAreKnown, KnownAt, Notes
<1>6. run.pc \in Installing \ {"note"} => n \in disk.notes
  BY <1>0, <1>1 DEF Place, OneRecord
<1> QED BY <1>1, <1>2, <1>3, <1>4, <1>5, <1>6

LEMMA InstallNoteKeeps ==
  ASSUME IInv, InstallNote, UNCHANGED field
  PROVE  IInv'
<1>0. /\ TypeOK /\ Facts /\ Place /\ run.pc = "note" /\ run.pc \in Installing
      /\ UNCHANGED <<log, durable, session, faults>> /\ run \in Runs /\ StoreTypeOK
  BY DEF IInv, InstallNote, Installing, TypeOK
<1>1. PICK n \in Notes : /\ run.note = {n} /\ run.key = {n.key} /\ n \in NotesAbout
                         /\ n.version = run.reported[n.key]
  BY <1>0, OneNote
<1>2. /\ disk' \in Directories
      /\ disk'.notes = (disk.notes \ Named(disk.notes, Filename(n))) \cup {n}
  BY <1>0, <1>1, StoreEffects DEF InstallNote
<1>3. /\ run' \in Runs /\ run'.pc = "note_sync" /\ SameReports /\ run'.index = run.index
      /\ run'.key = run.key /\ run'.note = run.note
  BY <1>0, GoFields DEF InstallNote, Go, Points
<1>4. TypeOK'
  BY <1>0, <1>2, <1>3, TypesStay DEF TypeOK, StoreTypeOK
<1>5. QuietStep
  BY <1>0, <1>1, <1>2, <1>3 DEF QuietStep, NotesAbout, SameRequest
<1>6. Facts' /\ SessionIsTrue'
  BY <1>0, <1>5, QuietStepKeeps
<1>7. IndexStands'
  <2>1. ASSUME NEW j \in Keys \ run.key PROVE run.index[j] \subseteq disk'.notes
    <3>1. run.index[j] \subseteq disk.notes
      BY <1>0 DEF Place, IndexStands, Untouched
    <3> QED BY <1>0, <1>1, <1>2, <3>1, OthersStay
  <2> QED BY <1>3, <2>1 DEF IndexStands, Untouched, Between
<1>8. OneRecord'
  BY <1>0, <1>1, <1>2, <1>3 DEF Place, OneRecord, Storing, Installing, Removing, Between, SameReports,
                                IsUpsert
<1>9. AbsentAreGone'
  BY <1>3 DEF AbsentAreGone, Sweeping
<1> QED BY <1>4, <1>6, <1>7, <1>8, <1>9 DEF IInv, Place

\* The replacement is in place.
LEMMA ReplacedKeeps ==
  ASSUME IInv, Replaced, UNCHANGED <<log, disk, faults, field>>, SyncNotes,
         run.pc \in {"note_sync", "stale_sync"}
  PROVE  IInv'
<1>0. /\ TypeOK /\ Facts /\ Place /\ run \in Runs /\ session \in Sessions /\ StoreTypeOK
      /\ run.pc \in Installing \ {"note"}
  BY DEF IInv, Installing, TypeOK
<1>1. PICK n \in Notes : /\ run.note = {n} /\ run.key = {n.key} /\ n \in disk.notes
                         /\ Key = n.key /\ n \in NotesAbout
  BY <1>0, OneNote
<1>2. /\ session' = Settled(session)
      /\ run' = [run EXCEPT !.pc = "reading", !.index[n.key] = {n}, !.key = {}, !.note = {}]
  BY <1>1 DEF Replaced
<1>3. n.key \in Keys /\ [run.index EXCEPT ![n.key] = {n}] \in [Keys -> SUBSET Notes]
  BY <1>0, <1>1 DEF Notes, Runs
<1>4. /\ run' \in Runs /\ run'.pc = "reading" /\ SameReports
      /\ run'.index = [run.index EXCEPT ![n.key] = {n}] /\ run'.key = {} /\ run'.note = {}
  BY <1>0, <1>2, <1>3 DEF Runs, Points, SameReports
<1>5. /\ session' \in Sessions /\ SameRequest(session', session)
      /\ session'.seen_keys = session.seen_keys /\ session'.final_claim = session.final_claim
  BY <1>0, <1>2, SmallMethods
<1>6. durable' \in Directories /\ durable'.notes = disk.notes
  BY <1>0, StoreEffects
<1>7. TypeOK'
  BY <1>0, <1>4, <1>5, <1>6, TypesStay DEF TypeOK, StoreTypeOK
<1>8. \A j \in Keys : run'.index[j] = IF j = n.key THEN {n} ELSE run.index[j]
  BY <1>0, <1>3, <1>4 DEF Runs
<1>9. NotesAbout' \subseteq NotesAbout
  BY <1>1, <1>4, <1>6, <1>8 DEF NotesAbout
<1>10. IndexIsOwn'
  BY <1>0, <1>8 DEF Facts, IndexIsOwn
<1>11. Facts'
  BY <1>0, <1>4, <1>9, <1>10, FactsStay DEF Installing
<1>12. SessionIsTrue'
  BY <1>0, <1>4, <1>5, SessionStays DEF Place
<1>13. IndexStands'
  BY <1>0, <1>1, <1>4, <1>8 DEF Place, IndexStands, Untouched, Touched, Between
<1>14. OneRecord' /\ AbsentAreGone'
  BY <1>4 DEF OneRecord, AbsentAreGone, Storing, Installing, Removing, Between, Sweeping
<1> QED BY <1>7, <1>11, <1>12, <1>13, <1>14 DEF IInv, Place

LEMMA SyncNoteKeeps ==
  ASSUME IInv, SyncNote \/ SyncSuperseded, UNCHANGED field
  PROVE  IInv'
<1>1. CASE SyncSuperseded \/ Superseded = {}
  BY <1>1, ReplacedKeeps DEF SyncNote, SyncSuperseded
<1>2. CASE SyncNote /\ Superseded # {}
  <2>0. /\ TypeOK /\ Facts /\ Place /\ run.pc = "note_sync" /\ run \in Runs /\ StoreTypeOK
        /\ UNCHANGED <<log, disk, session, faults>> /\ SyncNotes
        /\ run' = [run EXCEPT !.pc = "stale"]
    BY <1>2 DEF IInv, TypeOK, SyncNote, Go
  <2>1. durable' \in Directories /\ durable'.notes = disk.notes
    BY <2>0, StoreEffects
  <2>2. /\ run' \in Runs /\ run'.pc = "stale" /\ SameReports /\ run'.index = run.index
        /\ run'.key = run.key /\ run'.note = run.note
    BY <2>0, GoFields DEF Points
  <2>3. TypeOK'
    BY <2>0, <2>1, <2>2, TypesStay DEF TypeOK, StoreTypeOK
  <2>4. QuietStep
    BY <2>0, <2>1, <2>2 DEF QuietStep, NotesAbout, SameRequest
  <2>5. Facts' /\ SessionIsTrue'
    BY <2>0, <2>4, QuietStepKeeps
  <2>6. IndexStands' /\ AbsentAreGone'
    BY <2>0, <2>2 DEF Place, IndexStands, AbsentAreGone, Untouched, Touched, Between, Sweeping
  <2>7. OneRecord'
    BY <2>0, <2>2 DEF Place, OneRecord, Storing, Installing, Removing, Between, SameReports, IsUpsert
  <2> QED BY <2>3, <2>5, <2>6, <2>7 DEF IInv, Place
<1> QED BY <1>1, <1>2

\* The superseded file is of the same key, and is not the one just installed.
LEMMA SupersededIsOwn ==
  ASSUME IInv, run.pc \in Installing, NEW name \in Superseded, NEW n \in run.note
  PROVE  /\ name # Filename(n)
         /\ \E m \in NotesAbout : m.key = n.key /\ name = Filename(m)
<1>1. run.note = {n} /\ Existing = run.index[n.key] /\ n.key \in Keys
  BY OneNote DEF Notes
<1>2. PICK m \in Existing : name = Filename(m) /\ \A c \in run.note : Filename(c) # Filename(m)
  BY DEF Superseded
<1>3. m \in NotesAbout /\ m.key = n.key
  BY <1>1, <1>2 DEF NotesAbout, IInv, Facts, IndexIsOwn
<1> QED BY <1>2, <1>3

LEMMA RemoveSupersededKeeps ==
  ASSUME IInv, RemoveSuperseded, UNCHANGED field
  PROVE  IInv'
<1>0. /\ TypeOK /\ Facts /\ Place /\ run.pc = "stale" /\ run.pc \in Installing
      /\ UNCHANGED <<log, durable, session, faults>> /\ run \in Runs /\ StoreTypeOK
  BY DEF IInv, RemoveSuperseded, Installing, TypeOK
<1>1. PICK n \in Notes : /\ run.note = {n} /\ run.key = {n.key} /\ n \in NotesAbout
                         /\ n.version = run.reported[n.key] /\ n \in disk.notes
  BY <1>0, OneNote DEF Installing
<1>2. PICK name \in Superseded : UnlinkNote(name)
  BY DEF RemoveSuperseded
<1>3. PICK m \in NotesAbout : m.key = n.key /\ name = Filename(m)
  BY <1>0, <1>1, SupersededIsOwn
<1>4. disk' \in Directories /\ disk'.notes = disk.notes \ Named(disk.notes, name)
  BY <1>0, <1>2, StoreEffects
<1>5. /\ run' \in Runs /\ run'.pc = "stale_sync" /\ SameReports /\ run'.index = run.index
      /\ run'.key = run.key /\ run'.note = run.note
  BY <1>0, GoFields DEF RemoveSuperseded, Go, Points
<1>6. TypeOK'
  BY <1>0, <1>4, <1>5, TypesStay DEF TypeOK, StoreTypeOK
<1>7. QuietStep
  BY <1>0, <1>4, <1>5 DEF QuietStep, NotesAbout, SameRequest
<1>8. Facts' /\ SessionIsTrue'
  BY <1>0, <1>7, QuietStepKeeps
<1>9. IndexStands'
  <2>1. ASSUME NEW j \in Keys \ run.key PROVE run.index[j] \subseteq disk'.notes
    <3>1. run.index[j] \subseteq disk.notes
      BY <1>0 DEF Place, IndexStands, Touched
    <3> QED BY <1>0, <1>1, <1>3, <1>4, <3>1, OthersStay
  <2> QED BY <1>5, <2>1 DEF IndexStands, Untouched, Between
<1>10. n \in disk'.notes
  BY <1>0, <1>1, <1>2, <1>4, SupersededIsOwn DEF Named
<1>11. OneRecord'
  BY <1>0, <1>1, <1>5, <1>10 DEF Place, OneRecord, Storing, Installing, Removing, Between, SameReports,
                                 IsUpsert
<1>12. AbsentAreGone'
  BY <1>5 DEF AbsentAreGone, Sweeping
<1> QED BY <1>6, <1>8, <1>9, <1>11, <1>12 DEF IInv, Place

LEMMA RemoveNoteKeeps ==
  ASSUME IInv, RemoveNote, UNCHANGED field
  PROVE  IInv'
<1>0. /\ TypeOK /\ Facts /\ Place /\ run.pc = "unlink" /\ run.pc \in Storing \cup Removing
      /\ UNCHANGED <<log, durable, session, faults>> /\ run \in Runs /\ StoreTypeOK
  BY DEF IInv, RemoveNote, Removing, TypeOK
<1>1. PICK k \in Keys : run.key = {k} /\ Existing = run.index[k]
  BY <1>0, OneKey
<1>2. PICK n \in Existing : UnlinkNote(Filename(n))
  BY DEF RemoveNote
<1>3. n \in NotesAbout /\ n.key = k
  BY <1>0, <1>1, <1>2 DEF NotesAbout, Facts, IndexIsOwn
<1>4. disk' \in Directories /\ disk'.notes = disk.notes \ Named(disk.notes, Filename(n))
  BY <1>0, <1>2, StoreEffects
<1>5. /\ run' \in Runs /\ run'.pc = "unlink_sync" /\ SameReports /\ run'.index = run.index
      /\ run'.key = run.key /\ run'.note = run.note
  BY <1>0, GoFields DEF RemoveNote, Go, Points
<1>6. TypeOK'
  BY <1>0, <1>4, <1>5, TypesStay DEF TypeOK, StoreTypeOK
<1>7. QuietStep
  BY <1>0, <1>4, <1>5 DEF QuietStep, NotesAbout, SameRequest
<1>8. Facts' /\ SessionIsTrue'
  BY <1>0, <1>7, QuietStepKeeps
<1>9. IndexStands'
  <2>1. ASSUME NEW j \in Keys \ run.key PROVE run.index[j] \subseteq disk'.notes
    <3>1. run.index[j] \subseteq disk.notes
      BY <1>0 DEF Place, IndexStands, Untouched
    <3> QED BY <1>0, <1>1, <1>3, <1>4, <3>1, OthersStay
  <2> QED BY <1>5, <2>1 DEF IndexStands, Untouched, Between
<1>10. OneRecord'
  BY <1>0, <1>5 DEF Place, OneRecord, Storing, Installing, Removing, Between, SameReports, IsDelete
<1>11. AbsentAreGone'
  BY <1>5 DEF AbsentAreGone, Sweeping
<1> QED BY <1>6, <1>8, <1>9, <1>10, <1>11 DEF IInv, Place

LEMMA SyncRemovalKeeps ==
  ASSUME IInv, SyncRemoval, UNCHANGED field
  PROVE  IInv'
<1>0. /\ TypeOK /\ Facts /\ Place /\ run.pc = "unlink_sync" /\ run.pc \in Storing \cup Removing
      /\ UNCHANGED <<log, disk, faults>> /\ run \in Runs /\ session \in Sessions /\ StoreTypeOK
      /\ SyncNotes /\ session' = Settled(session)
      /\ run' = [run EXCEPT !.pc = "reading", !.index[Key] = {}, !.key = {}]
  BY DEF IInv, SyncRemoval, Removing, TypeOK
<1>1. PICK k \in Keys : run.key = {k} /\ Key = k
  BY <1>0, OneKey
<1>2. [run.index EXCEPT ![k] = {}] \in [Keys -> SUBSET Notes]
  BY <1>0 DEF Runs
<1>3. run' = [run EXCEPT !.pc = "reading", !.index[k] = {}, !.key = {}]
  BY <1>0, <1>1
<1>4. /\ run' \in Runs /\ run'.pc = "reading" /\ SameReports
      /\ run'.index = [run.index EXCEPT ![k] = {}] /\ run'.key = {} /\ run'.note = run.note
  BY <1>0, <1>2, <1>3 DEF Runs, Points, SameReports
<1>5. /\ session' \in Sessions /\ SameRequest(session', session)
      /\ session'.seen_keys = session.seen_keys /\ session'.final_claim = session.final_claim
  BY <1>0, SmallMethods
<1>6. durable' \in Directories /\ durable'.notes = disk.notes
  BY <1>0, StoreEffects
<1>7. TypeOK'
  BY <1>0, <1>4, <1>5, <1>6, TypesStay DEF TypeOK, StoreTypeOK
<1>8. \A j \in Keys : run'.index[j] = IF j = k THEN {} ELSE run.index[j]
  BY <1>0, <1>4 DEF Runs
<1>9. NotesAbout' \subseteq NotesAbout /\ IndexIsOwn'
  BY <1>0, <1>4, <1>6, <1>8 DEF NotesAbout, Facts, IndexIsOwn
<1>10. Facts'
  BY <1>0, <1>4, <1>9, FactsStay
<1>11. SessionIsTrue'
  BY <1>0, <1>4, <1>5, SessionStays DEF Place
<1>12. IndexStands'
  BY <1>0, <1>1, <1>4, <1>8 DEF Place, IndexStands, Untouched, Touched, Between
<1>13. OneRecord' /\ AbsentAreGone'
  BY <1>0, <1>4 DEF Place, OneRecord, AbsentAreGone, Storing, Installing, Removing, Between, Sweeping
<1> QED BY <1>7, <1>10, <1>11, <1>12, <1>13 DEF IInv, Place

-----------------------------------------------------------------------------
(* An offer is taken *)

\* What taking a checkpoint says of it, and does.
LEMMA OfferEffect ==
  ASSUME TypeOK, NEW p \in 0 .. Len(log), NEW final \in BOOLEAN, NEW state \in {"complete", "partial"},
         TakesOffer(CheckpointAt(p, final, state)), UNCHANGED field
  PROVE  /\ run.pc = "reading" /\ UNCHANGED <<log, disk, durable>>
         /\ session' \in Sessions /\ SameRequest(session', session)
         /\ session'.seen_keys = session.seen_keys
         /\ \/ session'.final_claim = session.final_claim
            \/ final /\ \A claim \in session'.final_claim : claim.state = state
         /\ \A k \in Keys : ~ Owed(k, p)
         /\ \A o \in session'.committed : o \in session.committed \/ o.cursor = p
         /\ run' \in Runs /\ run'.pc \in {"reading", "cursor"} /\ SameReports
         /\ run'.cursor = run.cursor /\ run'.index = run.index /\ run'.key = run.key
         /\ run'.note = run.note /\ run'.absent = run.absent
         /\ run'.pc = "cursor" => \A o \in session'.committed : o.cursor = p
<1> DEFINE c == CheckpointAt(p, final, state)
           t == Accept(session, c)
           o == OfferOf(c)
<1>0. session \in Sessions /\ run \in Runs
  BY DEF TypeOK
<1>1. p \in 0 .. MaxVersion
  BY UpstreamAssumption DEF TypeOK, UpstreamTypeOK
<1>2. c.cursor = p /\ c.is_final = final /\ o.cursor = p
  BY DEF CheckpointAt, OfferOf
<1>3. /\ run.pc = "reading" /\ (\A k \in Keys : ~ Owed(k, p)) /\ ~ t.rejected
      /\ UNCHANGED <<log, disk, durable>>
  BY <1>2 DEF TakesOffer, MayOffer
<1>4. \/ /\ CommitVerdict(t, o) = "committed"
         /\ session' = Commit(t, o)
         /\ run' = [run EXCEPT !.pc = "cursor", !.offered = p]
      \/ /\ session' = Withhold(Commit(t, o), o)
         /\ run' = [run EXCEPT !.withheld = TRUE, !.offered = p]
  BY <1>2 DEF TakesOffer
<1>5. /\ t \in Sessions /\ SameRequest(t, session) /\ t.seen_keys = session.seen_keys
      /\ t.committed = session.committed /\ t.final_claim = FinalClaim(session, c) /\ o \in Offers
  BY <1>0, <1>1, <1>3, TakenCheckpoint
<1> HIDE DEF t, o
<1>6. PICK u \in Sessions : u = t
  BY <1>5
<1>7. /\ session' \in Sessions /\ SameRequest(session', u) /\ session'.seen_keys = u.seen_keys
      /\ session'.final_claim = u.final_claim /\ session'.committed \in {u.committed, {o}}
  BY <1>4, <1>5, <1>6, SettledOffer
<1>8. /\ SameRequest(session', session) /\ session'.seen_keys = session.seen_keys
      /\ \A x \in session'.committed : x \in session.committed \/ x.cursor = p
  BY <1>2, <1>5, <1>6, <1>7 DEF SameRequest
<1>9. \/ session'.final_claim = session.final_claim
      \/ final /\ \A claim \in session'.final_claim : claim.state = state
  <2>1. c.claim = {} \/ (final /\ \A claim \in c.claim : claim.state = state)
    BY DEF CheckpointAt
  <2> HIDE DEF c
  <2> QED BY <1>5, <1>6, <1>7, <2>1 DEF FinalClaim
<1>10. /\ run' \in Runs /\ run'.pc \in {"reading", "cursor"} /\ SameReports
       /\ run'.cursor = run.cursor /\ run'.index = run.index /\ run'.key = run.key
       /\ run'.note = run.note /\ run'.absent = run.absent
  <2>1. CASE run' = [run EXCEPT !.pc = "cursor", !.offered = p]
    BY <1>0, <1>1, <2>1 DEF Runs, Points, SameReports
  <2>2. CASE run' = [run EXCEPT !.withheld = TRUE, !.offered = p]
    BY <1>0, <1>1, <1>3, <2>2 DEF Runs, Points, SameReports
  <2> QED BY <1>4, <2>1, <2>2
<1>11. run'.pc = "cursor" => \A x \in session'.committed : x.cursor = p
  <2> SUFFICES ASSUME run'.pc = "cursor" PROVE session'.committed = {o}
    BY <1>2
  <2>1. CommitVerdict(u, o) = "committed" /\ session' = Commit(u, o)
    BY <1>0, <1>3, <1>4, <1>6 DEF Runs
  <2> QED BY <2>1 DEF Commit, Sessions
<1> QED BY <1>3, <1>7, <1>8, <1>9, <1>10, <1>11

LEMMA OfferKeeps ==
  ASSUME IInv, UNCHANGED field, faults' \in 0 .. MaxFaults,
         NEW p \in 0 .. Len(log), NEW final \in BOOLEAN, NEW state \in {"complete", "partial"},
         TakesOffer(CheckpointAt(p, final, state)), final /\ state = "complete" => Enumerated
  PROVE  IInv'
<1>0. TypeOK /\ Facts /\ Place /\ StoreTypeOK
  BY DEF IInv, TypeOK
<1>1. /\ run.pc = "reading" /\ UNCHANGED <<log, disk, durable>>
      /\ session' \in Sessions /\ SameRequest(session', session)
      /\ session'.seen_keys = session.seen_keys
      /\ \/ session'.final_claim = session.final_claim
         \/ final /\ \A claim \in session'.final_claim : claim.state = state
      /\ run' \in Runs /\ run'.pc \in {"reading", "cursor"} /\ SameReports
      /\ run'.index = run.index /\ run'.key = run.key /\ run'.note = run.note
  BY <1>0, OfferEffect
<1>2. TypeOK'
  BY <1>0, <1>1, TypesStay DEF TypeOK, StoreTypeOK
<1>3. NotesAbout' = NotesAbout /\ IndexIsOwn'
  BY <1>0, <1>1 DEF NotesAbout, Facts, IndexIsOwn
<1>4. Facts'
  BY <1>0, <1>1, <1>3, FactsStay
<1>5. Enumerated => Enumerated'
  BY <1>1 DEF Enumerated, Unenumerated, InWindow, LiveSince, LiveAt, IsUpsert, VersionAt, SameReports,
              SameRequest
<1>6. SessionIsTrue'
  <2>1. (\E claim \in session'.final_claim : claim.state = "complete") => Enumerated
    BY <1>0, <1>1 DEF Place, SessionIsTrue
  <2>2. \A k \in Keys : session'.seen_keys[k] # NothingSeen[k] =>
         /\ run'.reported[k] > 0
         /\ session'.seen_keys[k] = <<log'[run'.reported[k]].change, run'.reported[k]>>
    BY <1>0, <1>1 DEF Place, SessionIsTrue, SameReports
  <2> QED BY <1>1, <1>5, <2>1, <2>2 DEF SessionIsTrue, NothingSeen
<1>7. IndexStands' /\ OneRecord' /\ AbsentAreGone'
  BY <1>0, <1>1 DEF Place, IndexStands, OneRecord, AbsentAreGone, Untouched, Touched, Between,
                    Sweeping, Storing, Installing, Removing
<1> QED BY <1>2, <1>4, <1>6, <1>7 DEF IInv, Place

-----------------------------------------------------------------------------
(* The end of a run *)

\* What authorizes deletion by absence.
LEMMA AuthorizedMeans ==
  ASSUME NEW s \in Sessions, NEW exit, DeletionAuthorized(s, exit)
  PROVE  /\ s.final_claim # {} /\ (\A claim \in s.final_claim : claim.state = "complete")
         /\ ~ s.request.windowed /\ ~ s.rejected
<1> DEFINE g == RefusalGrounds(s, exit)
<1>1. \A reason \in DOMAIN g : ~ g[reason]
  BY DEF DeletionAuthorized, DeletionRefusals
<1>2. ~ g.no_completeness_claim /\ ~ g.claim_is_partial /\ ~ g.windowed_run /\ ~ g.protocol_violation
  BY <1>1 DEF RefusalGrounds
<1> QED BY <1>2 DEF RefusalGrounds

\* What may be removed was reported by no record and was not live all along.
LEMMA AbsentIsGone ==
  ASSUME IInv, NEW exit, NEW k \in Absent(exit)
  PROVE  k \in Keys /\ run.reported[k] = 0 /\ ~ LiveSince(k, run.start)
<1>1. /\ k \in Keys /\ DeletionAuthorized(session, exit) /\ run.reported[k] = 0
      /\ {field.scope_of[k]} = session.request.scope
  BY DEF Absent
<1>2. session \in Sessions
  BY DEF IInv, TypeOK
<1>3. /\ session.final_claim # {} /\ (\A claim \in session.final_claim : claim.state = "complete")
      /\ ~ session.request.windowed
  BY <1>1, <1>2, AuthorizedMeans
<1>4. ~ Unenumerated(k)
  BY <1>1, <1>3 DEF IInv, Place, SessionIsTrue, Enumerated
<1> QED BY <1>1, <1>3, <1>4 DEF Unenumerated, InWindow

LEMMA FinishKeeps ==
  ASSUME IInv, NEW exit, Finish(exit), UNCHANGED <<log, disk, durable, field>>, run.pc # "idle",
         faults' \in 0 .. MaxFaults
  PROVE  IInv'
<1>0. TypeOK /\ Facts /\ Place /\ StoreTypeOK /\ run \in Runs
  BY DEF IInv, TypeOK
<1>1. CASE Absent(exit) = {}
  <2>1. End
    BY <1>1 DEF Finish
  <2> QED BY <1>0, <2>1, EndKeeps DEF StoreTypeOK, NotesAbout
<1>2. CASE Absent(exit) # {}
  <2>1. session' = session /\ run' = [run EXCEPT !.pc = "sweep", !.absent = Absent(exit)]
    BY <1>2 DEF Finish
  <2>2. Absent(exit) \in SUBSET Keys
    BY DEF Absent
  <2>3. /\ run' \in Runs /\ run'.pc = "sweep" /\ SameReports /\ run'.index = run.index
        /\ run'.note = run.note /\ run'.absent = Absent(exit)
    BY <1>0, <2>1, <2>2 DEF Runs, Points, SameReports
  <2>4. TypeOK'
    BY <1>0, <2>1, <2>3, TypesStay DEF TypeOK, StoreTypeOK
  <2>5. QuietStep
    BY <2>1, <2>3 DEF QuietStep, NotesAbout, SameRequest
  <2>6. Facts' /\ SessionIsTrue'
    BY <1>0, <2>5, QuietStepKeeps
  <2>7. AbsentAreGone'
    <3>1. \A k \in Absent(exit) : run.reported[k] = 0 /\ ~ LiveSince(k, run.start)
      BY AbsentIsGone
    <3> QED BY <2>3, <3>1 DEF AbsentAreGone, SameReports, LiveSince, LiveAt, IsUpsert, VersionAt
  <2>8. IndexStands' /\ OneRecord'
    BY <2>3 DEF IndexStands, OneRecord, Untouched, Touched, Between, Storing, Installing, Removing
  <2> QED BY <2>4, <2>6, <2>7, <2>8 DEF IInv, Place
<1> QED BY <1>1, <1>2

LEMMA SweepKeeps ==
  ASSUME IInv, Sweep, UNCHANGED field
  PROVE  IInv'
<1>0. /\ TypeOK /\ Facts /\ Place /\ run.pc = "sweep" /\ run \in Runs /\ StoreTypeOK
      /\ UNCHANGED <<log, durable, session, faults>>
  BY DEF IInv, Sweep, TypeOK
<1>1. PICK k \in run.absent :
        /\ \E n \in run.index[k] : UnlinkNote(Filename(n))
        /\ run' = [run EXCEPT !.pc = "sweep_sync", !.absent = @ \ {k}]
  BY DEF Sweep
<1>2. PICK n \in run.index[k] : UnlinkNote(Filename(n))
  BY <1>1
<1>3. disk' \in Directories /\ disk'.notes = disk.notes \ Named(disk.notes, Filename(n))
  BY <1>0, <1>2, StoreEffects
<1>4. /\ run' \in Runs /\ run'.pc = "sweep_sync" /\ SameReports /\ run'.index = run.index
      /\ run'.note = run.note /\ run'.absent \subseteq run.absent
  BY <1>0, <1>1 DEF Runs, Points, SameReports
<1>5. TypeOK'
  BY <1>0, <1>3, <1>4, TypesStay DEF TypeOK, StoreTypeOK
<1>6. QuietStep
  BY <1>0, <1>3, <1>4 DEF QuietStep, NotesAbout, SameRequest
<1>7. Facts' /\ SessionIsTrue'
  BY <1>0, <1>6, QuietStepKeeps
<1>8. AbsentAreGone'
  BY <1>0, <1>4 DEF Place, AbsentAreGone, Sweeping, SameReports, LiveSince, LiveAt, IsUpsert, VersionAt
<1>9. IndexStands' /\ OneRecord'
  BY <1>4 DEF IndexStands, OneRecord, Untouched, Touched, Between, Storing, Installing, Removing
<1> QED BY <1>5, <1>7, <1>8, <1>9 DEF IInv, Place

LEMMA SyncSweepKeeps ==
  ASSUME IInv, SyncSweep, UNCHANGED field
  PROVE  IInv'
<1>0. /\ TypeOK /\ Facts /\ Place /\ run.pc = "sweep_sync" /\ run \in Runs /\ StoreTypeOK
      /\ UNCHANGED <<log, disk, faults>> /\ SyncNotes
  BY DEF IInv, SyncSweep, TypeOK
<1>1. durable' \in Directories /\ durable'.notes = disk.notes
  BY <1>0, StoreEffects
<1>2. CASE End
  BY <1>0, <1>1, <1>2, EndKeeps DEF StoreTypeOK, TypeOK, NotesAbout
<1>3. CASE ~ End
  <2>1. run' = [run EXCEPT !.pc = "sweep"] /\ session' = session
    BY <1>3 DEF SyncSweep, Go
  <2>2. /\ run' \in Runs /\ run'.pc = "sweep" /\ SameReports /\ run'.index = run.index
        /\ run'.note = run.note /\ run'.absent = run.absent
    BY <1>0, <2>1, GoFields DEF Points
  <2>3. TypeOK'
    BY <1>0, <1>1, <2>1, <2>2, TypesStay DEF TypeOK, StoreTypeOK
  <2>4. QuietStep
    BY <1>0, <1>1, <2>1, <2>2 DEF QuietStep, NotesAbout, SameRequest
  <2>5. Facts' /\ SessionIsTrue'
    BY <1>0, <2>4, QuietStepKeeps
  <2>6. AbsentAreGone'
    BY <1>0, <2>2 DEF Place, AbsentAreGone, Sweeping, SameReports, LiveSince, LiveAt, IsUpsert, VersionAt
  <2>7. IndexStands' /\ OneRecord'
    BY <2>2 DEF IndexStands, OneRecord, Untouched, Touched, Between, Storing, Installing, Removing
  <2> QED BY <2>3, <2>5, <2>6, <2>7 DEF IInv, Place
<1> QED BY <1>2, <1>3

-----------------------------------------------------------------------------
(* Faults *)

LEMMA FaultIsCounted ==
  ASSUME TypeOK, NEW kind, Fault(kind)
  PROVE  faults' \in 0 .. MaxFaults /\ faults' = faults + 1 /\ kind \in field.faults
  BY SyncAssumption DEF TypeOK, Fault

\* Core stops reading, or goes on after a cursor it could not write.
LEMMA StopKeeps ==
  ASSUME IInv, UNCHANGED <<log, disk, durable, field>>, run.pc # "idle", faults' \in 0 .. MaxFaults,
         session' \in Sessions, SameRequest(session', session),
         session'.seen_keys = session.seen_keys, session'.final_claim = session.final_claim,
         run' \in Runs, SameReports, run'.index = run.index, run'.key = run.key, run'.note = run.note,
         run'.absent = run.absent,
         \/ run'.pc = "draining" /\ (run'.failure \/ session'.rejected)
         \/ run'.pc = "reading" /\ run.pc \in Between
  PROVE  IInv'
<1>0. TypeOK /\ Facts /\ Place
  BY DEF IInv
<1>1. TypeOK'
  BY <1>0, TypesStay DEF TypeOK, StoreTypeOK
<1>2. QuietStep
  BY DEF QuietStep, NotesAbout
<1>3. Facts' /\ SessionIsTrue'
  BY <1>0, <1>2, QuietStepKeeps
<1>4. IndexStands' /\ OneRecord' /\ AbsentAreGone'
  BY <1>0 DEF Place, IndexStands, OneRecord, AbsentAreGone, Untouched, Touched, Between, Sweeping,
              Storing, Installing, Removing
<1> QED BY <1>1, <1>3, <1>4 DEF IInv, Place

LEMMA StopsKeep ==
  ASSUME IInv, RecordWriteFails \/ CursorWriteFails \/ BadFrame \/ ErrorDiagnostic, UNCHANGED field
  PROVE  IInv'
<1>0. TypeOK /\ run \in Runs /\ session \in Sessions
  BY DEF IInv, TypeOK
<1>1. CASE RecordWriteFails
  <2>1. /\ run' = [run EXCEPT !.pc = "draining", !.failure = TRUE] /\ run.pc # "idle"
        /\ faults' \in 0 .. MaxFaults /\ UNCHANGED <<log, disk, durable, session>>
    BY <1>0, <1>1, FaultIsCounted DEF RecordWriteFails
  <2>2. /\ run' \in Runs /\ run'.pc = "draining" /\ run'.failure /\ SameReports
        /\ run'.index = run.index /\ run'.key = run.key /\ run'.note = run.note
        /\ run'.absent = run.absent
    BY <1>0, <2>1 DEF Runs, Points, SameReports
  <2> QED BY <1>0, <2>1, <2>2, StopKeeps DEF SameRequest
<1>2. CASE CursorWriteFails
  <2>1. /\ run' = [run EXCEPT !.pc = "reading", !.withheld = TRUE] /\ run.pc # "idle"
        /\ run.pc \in Between
        /\ faults' \in 0 .. MaxFaults /\ UNCHANGED <<log, disk, durable, session>>
    BY <1>0, <1>2, FaultIsCounted DEF CursorWriteFails, Between
  <2>2. /\ run' \in Runs /\ run'.pc = "reading" /\ SameReports
        /\ run'.index = run.index /\ run'.key = run.key /\ run'.note = run.note
        /\ run'.absent = run.absent
    BY <1>0, <2>1 DEF Runs, Points, SameReports
  <2> QED BY <1>0, <2>1, <2>2, StopKeeps DEF SameRequest
<1>3. CASE BadFrame
  <2>1. /\ run' = [run EXCEPT !.pc = "draining"] /\ run.pc # "idle"
        /\ session' = NoteRejection(session)
        /\ faults' \in 0 .. MaxFaults /\ UNCHANGED <<log, disk, durable>>
    BY <1>0, <1>3, FaultIsCounted DEF BadFrame, Go
  <2>2. /\ run' \in Runs /\ run'.pc = "draining" /\ SameReports
        /\ run'.index = run.index /\ run'.key = run.key /\ run'.note = run.note
        /\ run'.absent = run.absent
    BY <1>0, <2>1, GoFields DEF Points
  <2>3. session'.rejected
    BY <1>0, <2>1 DEF NoteRejection, Sessions
  <2>4. /\ session' \in Sessions /\ SameRequest(session', session)
        /\ session'.seen_keys = session.seen_keys /\ session'.final_claim = session.final_claim
    BY <1>0, <2>1, SmallMethods
  <2> QED BY <2>1, <2>2, <2>3, <2>4, StopKeeps
<1>4. CASE ErrorDiagnostic
  <2> DEFINE e == [type |-> "diagnostic", own_run |-> TRUE, seq |-> session.last_seq + 1,
                   severity |-> "error"]
  <2>1. /\ run' = IF session'.rejected THEN [run EXCEPT !.pc = "draining"] ELSE run
        /\ run.pc = "reading" /\ session' = Accept(session, e)
        /\ faults' \in 0 .. MaxFaults /\ UNCHANGED <<log, disk, durable>>
    BY <1>0, <1>4, FaultIsCounted DEF ErrorDiagnostic
  <2>2. e.type = "diagnostic"
    OBVIOUS
  <2> HIDE DEF e
  <2>3. /\ session' \in Sessions /\ SameRequest(session', session)
        /\ session'.seen_keys = session.seen_keys /\ session'.final_claim = session.final_claim
    BY <1>0, <2>1, <2>2, TakenDiagnostic
  <2>4. CASE session'.rejected
    <3>1. run' = [run EXCEPT !.pc = "draining"]
      BY <2>1, <2>4
    <3>2. /\ run' \in Runs /\ run'.pc = "draining" /\ SameReports
          /\ run'.index = run.index /\ run'.key = run.key /\ run'.note = run.note
          /\ run'.absent = run.absent
      BY <1>0, <3>1, GoFields DEF Points
    <3> QED BY <2>1, <2>3, <2>4, <3>2, StopKeeps
  <2>5. CASE ~ session'.rejected
    <3>1. run' = run
      BY <2>1, <2>5
    <3>2. /\ run' \in Runs /\ run'.pc = "reading" /\ SameReports /\ run.pc \in Between
          /\ run'.index = run.index /\ run'.key = run.key /\ run'.note = run.note
          /\ run'.absent = run.absent
      BY <1>0, <2>1, <3>1 DEF SameReports, Between
    <3> QED BY <2>1, <2>3, <3>2, StopKeeps
  <2> QED BY <2>4, <2>5
<1> QED BY <1>1, <1>2, <1>3, <1>4

LEMMA EndsKeep ==
  ASSUME IInv, SweepFails \/ Kill \/ PowerLoss, UNCHANGED field
  PROVE  IInv'
<1>0. TypeOK /\ StoreTypeOK
  BY DEF IInv, TypeOK
<1>1. CASE SweepFails \/ Kill
  <2>1. End /\ faults' \in 0 .. MaxFaults /\ UNCHANGED <<log, disk, durable>>
    BY <1>0, <1>1, FaultIsCounted DEF SweepFails, Kill
  <2> QED BY <1>0, <2>1, EndKeeps DEF StoreTypeOK, NotesAbout
<1>2. CASE PowerLoss
  <2>1. End /\ faults' \in 0 .. MaxFaults /\ UNCHANGED log /\ LosePower
    BY <1>0, <1>2, FaultIsCounted DEF PowerLoss
  <2>2. /\ disk' \in Directories /\ durable' = disk'
        /\ disk'.notes \subseteq disk.notes \cup durable.notes
    BY <1>0, <2>1, PowerEffect
  <2> QED BY <2>1, <2>2, EndKeeps DEF NotesAbout
<1> QED BY <1>1, <1>2

LEMMA ForgetCursorKeeps ==
  ASSUME IInv, ForgetCursor, UNCHANGED field
  PROVE  IInv'
<1>0. TypeOK /\ Facts /\ Place /\ StoreTypeOK
  BY DEF IInv, TypeOK
<1>1. /\ run.pc = "idle" /\ UNCHANGED <<log, session, run>> /\ faults' \in 0 .. MaxFaults
      /\ RemoveSyncState
  BY <1>0, FaultIsCounted DEF ForgetCursor
<1>2. disk' \in Directories /\ durable' = durable /\ disk'.notes = disk.notes
  BY <1>0, <1>1, StoreEffects
<1>3. TypeOK'
  BY <1>0, <1>1, <1>2, TypesStay DEF TypeOK, StoreTypeOK
<1>4. NotesAbout' = NotesAbout
  BY <1>1, <1>2 DEF NotesAbout
<1>5. Facts'
  BY <1>0, <1>1, <1>4 DEF Facts, NotesAreReal, IdsAreOwn, IndexIsOwn, NotesAreKnown, ReportsAreReal,
                          OneArtifact, IsUpsert
<1>6. Place'
  <2>1. IndexStands' /\ OneRecord' /\ AbsentAreGone'
    BY <1>1 DEF IndexStands, OneRecord, AbsentAreGone, Untouched, Touched, Between, Sweeping,
                Storing, Installing, Removing
  <2>2. SessionIsTrue'
    BY <1>0, <1>1, SessionStays DEF Place, SameReports, SameRequest
  <2> QED BY <2>1, <2>2 DEF Place
<1> QED BY <1>3, <1>5, <1>6 DEF IInv

\* Every step keeps the invariant.
LEMMA NextKeeps ==
  ASSUME IInv, [Next]_vars
  PROVE  IInv'
<1>0. TypeOK
  BY DEF IInv
<1>1. CASE UNCHANGED vars
  BY <1>1 DEF vars, IInv, TypeOK, StoreTypeOK, UpstreamTypeOK, Facts, NotesAbout, NotesAreReal,
    IdsAreOwn, IndexIsOwn, NotesAreKnown, KnownAt, ReportsAreReal, OneArtifact, Place, IndexStands,
    OneRecord, SessionIsTrue, AbsentAreGone, NothingSeen, Enumerated, Unenumerated, InWindow,
    LiveSince, LiveAt, VersionAt, IsUpsert, IsDelete
<1>2. CASE Next
  <2>0. UNCHANGED field
    BY <1>2 DEF Next
  <2>1. CASE UpstreamChanges
    BY <2>0, <2>1, UpstreamChangesKeep
  <2>2. CASE Begin
    BY <2>0, <2>2, BeginKeeps
  <2>3. CASE TakeRepeat \/ TakeDelete \/ TakeUpsert
    BY <2>0, <2>3, TakesKeep
  <2>4. CASE TakeCheckpoint
    <3>1. PICK p \in 0 .. Len(log), final \in BOOLEAN :
            (final => Enumerated) /\ TakesOffer(CheckpointAt(p, final, "complete"))
      BY <2>4 DEF TakeCheckpoint
    <3>2. faults' \in 0 .. MaxFaults
      BY <1>0, <2>4 DEF TakeCheckpoint, TypeOK
    <3> QED BY <2>0, <3>1, <3>2, OfferKeeps
  <2>5. CASE InstallArtifact \/ SyncArtifact
    BY <2>0, <2>5, ArtifactStepsKeep
  <2>6. CASE Compare
    BY <2>0, <2>6, CompareKeeps
  <2>7. CASE InstallNote
    BY <2>0, <2>7, InstallNoteKeeps
  <2>8. CASE SyncNote \/ SyncSuperseded
    BY <2>0, <2>8, SyncNoteKeeps
  <2>9. CASE RemoveSuperseded
    BY <2>0, <2>9, RemoveSupersededKeeps
  <2>10. CASE RemoveNote
    BY <2>0, <2>10, RemoveNoteKeeps
  <2>11. CASE SyncRemoval
    BY <2>0, <2>11, SyncRemovalKeeps
  <2>12. CASE WriteCursor \/ FinishCursor
    BY <2>0, <2>12, CursorStepsKeep
  <2>13. CASE EndOfStream
    <3>1. /\ \E exit : Finish(exit)
          /\ run.pc # "idle" /\ UNCHANGED <<log, disk, durable>> /\ faults' = faults
      BY <2>13 DEF EndOfStream
    <3> QED BY <1>0, <2>0, <3>1, FinishKeeps DEF TypeOK
  <2>14. CASE Sweep
    BY <2>0, <2>14, SweepKeeps
  <2>15. CASE SyncSweep
    BY <2>0, <2>15, SyncSweepKeeps
  <2>16. CASE RecordWriteFails \/ CursorWriteFails \/ BadFrame \/ ErrorDiagnostic
    BY <2>0, <2>16, StopsKeep
  <2>17. CASE SweepFails \/ Kill \/ PowerLoss
    BY <2>0, <2>17, EndsKeep
  <2>18. CASE PartialSnapshot
    <3>1. PICK p \in 0 .. Len(log) : TakesOffer(CheckpointAt(p, TRUE, "partial"))
      BY <2>18 DEF PartialSnapshot
    <3>2. faults' \in 0 .. MaxFaults
      BY <1>0, <2>18, FaultIsCounted DEF PartialSnapshot
    <3> QED BY <2>0, <3>1, <3>2, OfferKeeps
  <2>19. CASE EarlyExit
    <3>1. /\ \E exit : Finish(exit)
          /\ run.pc # "idle" /\ UNCHANGED <<log, disk, durable>> /\ faults' \in 0 .. MaxFaults
      BY <1>0, <2>19, FaultIsCounted DEF EarlyExit
    <3> QED BY <2>0, <3>1, FinishKeeps
  <2>20. CASE ForgetCursor
    BY <2>0, <2>20, ForgetCursorKeeps
  <2> QED BY <1>2, <2>1, <2>2, <2>3, <2>4, <2>5, <2>6, <2>7, <2>8, <2>9, <2>10, <2>11, <2>12, <2>13,
             <2>14, <2>15, <2>16, <2>17, <2>18, <2>19, <2>20
          DEF Next, Work, Take, Apply, Faults
<1> QED BY <1>1, <1>2

LEMMA InvariantHolds == Spec => []IInv
BY InitKeeps, NextKeeps, PTL DEF Spec

\* Every component keeps its type, whatever happens.
THEOREM TypeCorrect == Spec => []TypeOK
<1>1. IInv => TypeOK
  BY DEF IInv
<1> QED BY <1>1, InvariantHolds, PTL

-----------------------------------------------------------------------------
(* Notes only go forward *)

\* Every Note of `N` is still there in `M`, or a newer one of its object is, or
\* the object was deleted upstream since.
Forward(N, M) ==
  \A n \in N : \/ \E m \in M : m.key = n.key /\ m.version >= n.version
               \/ DeletedSince(n.key, n.version)

LEMMA StandingIsForward ==
  ASSUME NEW N \in SUBSET Notes, NEW M, N \subseteq M
  PROVE  Forward(N, M)
  BY DEF Forward, Notes

\* The steps that change what is visible of notes/.
LEMMA NotesChangeIn ==
  ASSUME IInv, [Next]_vars
  PROVE  \/ disk'.notes = disk.notes
         \/ InstallNote \/ RemoveSuperseded \/ RemoveNote \/ Sweep \/ PowerLoss
<1>0. StoreTypeOK
  BY DEF IInv, TypeOK
<1>1. CASE UNCHANGED disk
  BY <1>1
<1>2. CASE InstallArtifact
  <2>0. run.pc \in Storing \cup Removing
    BY <1>2 DEF InstallArtifact, Storing
  <2>1. PICK k \in Keys : Reporting = run.reported[k] /\ log[run.reported[k]] \in Changes
    BY <2>0, OneKey
  <2>2. PICK a \in log[Reporting].artifacts : RenameArtifact(a)
    BY <1>2 DEF InstallArtifact
  <2>3. a \in Artifacts
    BY <2>1, <2>2 DEF Changes
  <2> QED BY <1>0, <2>2, <2>3, StoreEffects
<1>3. CASE WriteCursor
  <2>1. PICK c \in session.committed : RenameCursor(c.cursor)
    BY <1>3 DEF WriteCursor
  <2>2. c.cursor \in 0 .. MaxVersion
    BY DEF IInv, TypeOK, Sessions, Offers
  <2> QED BY <1>0, <2>1, <2>2, StoreEffects
<1>4. CASE ForgetCursor
  BY <1>0, <1>4, StoreEffects DEF ForgetCursor
<1>5. [Next]_vars => \/ UNCHANGED disk \/ InstallArtifact \/ WriteCursor \/ ForgetCursor
                     \/ InstallNote \/ RemoveSuperseded \/ RemoveNote \/ Sweep \/ PowerLoss
  BY DEF Next, vars, UpstreamChanges, Work, Take, Apply, Faults, Begin, TakeRepeat, TakeDelete,
         TakeUpsert, TakeCheckpoint, TakesOffer, SyncArtifact, Compare, SyncNote, SyncSuperseded,
         SyncRemoval, FinishCursor, EndOfStream, SyncSweep, RecordWriteFails, CursorWriteFails,
         SweepFails, BadFrame, ErrorDiagnostic, PartialSnapshot, EarlyExit, Kill
<1> QED BY <1>1, <1>2, <1>3, <1>4, <1>5

\* No step of a run and no other fault takes a Note away from a live object.
LEMMA StepIsForward ==
  ASSUME IInv, [Next]_vars, ~ PowerLoss
  PROVE  Forward(disk.notes, disk'.notes)
<1>0. TypeOK /\ Facts /\ Place /\ StoreTypeOK /\ disk.notes \in SUBSET Notes
  BY DEF IInv, TypeOK, StoreTypeOK, Directories
<1>1. disk.notes \subseteq NotesAbout
  BY DEF NotesAbout
<1>2. CASE disk'.notes = disk.notes
  BY <1>0, <1>2, StandingIsForward
<1>3. CASE InstallNote
  <2>1. run.pc \in Installing
    BY <1>3 DEF InstallNote, Installing
  <2>2. PICK n \in Notes : /\ run.note = {n} /\ n \in NotesAbout
                           /\ \A m \in NotesAbout : m.key = n.key => m.version <= n.version
    BY <2>1, OneNote
  <2>3. disk'.notes = (disk.notes \ Named(disk.notes, Filename(n))) \cup {n}
    BY <1>0, <1>3, <2>2, StoreEffects DEF InstallNote
  <2>4. ASSUME NEW m \in disk.notes
        PROVE  \E l \in disk'.notes : l.key = m.key /\ l.version >= m.version
    <3>1. CASE Filename(m) = Filename(n)
      <4>1. m.key = n.key
        BY <1>0, <1>1, <2>2, <3>1, NamesAreOwn
      <4> QED BY <1>0, <1>1, <2>2, <2>3, <4>1 DEF Notes
    <3>2. CASE Filename(m) # Filename(n)
      BY <1>0, <2>3, <3>2 DEF Named, Notes
    <3> QED BY <3>1, <3>2
  <2> QED BY <2>4 DEF Forward
<1>4. CASE RemoveSuperseded
  <2>1. run.pc \in Installing /\ run.pc \in Installing \ {"note"}
    BY <1>4 DEF RemoveSuperseded, Installing
  <2>2. PICK n \in Notes : /\ run.note = {n} /\ n \in disk.notes
                           /\ \A m \in NotesAbout : m.key = n.key => m.version <= n.version
    BY <2>1, OneNote
  <2>3. PICK name \in Superseded : UnlinkNote(name)
    BY <1>4 DEF RemoveSuperseded
  <2>4. disk'.notes = disk.notes \ Named(disk.notes, name)
    BY <1>0, <2>3, StoreEffects
  <2>5. PICK l \in NotesAbout : l.key = n.key /\ name = Filename(l) /\ name # Filename(n)
    BY <2>1, <2>2, SupersededIsOwn
  <2>6. n \in disk'.notes
    BY <2>2, <2>4, <2>5 DEF Named
  <2>7. ASSUME NEW m \in disk.notes
        PROVE  \E x \in disk'.notes : x.key = m.key /\ x.version >= m.version
    <3>1. CASE Filename(m) = name
      <4>1. m.key = n.key
        BY <1>0, <1>1, <2>5, <3>1, NamesAreOwn
      <4> QED BY <1>0, <1>1, <2>2, <2>6, <4>1 DEF Notes
    <3>2. CASE Filename(m) # name
      BY <1>0, <2>4, <3>2 DEF Named, Notes
    <3> QED BY <3>1, <3>2
  <2> QED BY <2>7 DEF Forward
<1>5. CASE RemoveNote
  <2>1. run.pc \in Storing \cup Removing /\ run.pc \in Removing /\ run.pc # "idle"
    BY <1>5 DEF RemoveNote, Removing
  <2>2. PICK k \in Keys : /\ Existing = run.index[k] /\ run.reported[k] \in 1 .. Len(log)
                          /\ IsDelete(run.reported[k]) /\ log[run.reported[k]].key = k
    BY <2>1, OneKey
  <2>3. PICK n \in Existing : UnlinkNote(Filename(n))
    BY <1>5 DEF RemoveNote
  <2>4. disk'.notes = disk.notes \ Named(disk.notes, Filename(n))
    BY <1>0, <2>3, StoreEffects
  <2>5. n \in NotesAbout /\ n.key = k
    BY <1>0, <2>2, <2>3 DEF NotesAbout, Facts, IndexIsOwn
  <2>6. ASSUME NEW m \in disk.notes, Filename(m) = Filename(n)
        PROVE  DeletedSince(m.key, m.version)
    <3>1. m.key = k
      BY <1>0, <1>1, <2>5, <2>6, NamesAreOwn
    <3>2. m.version <= run.reported[k] /\ IsUpsert(m.version)
      BY <1>0, <1>1, <2>1, <2>2, <3>1 DEF Facts, NotesAreKnown, KnownAt, NotesAreReal
    <3>3. m.version # run.reported[k]
      BY <2>2, <3>2 DEF IsUpsert, IsDelete
    <3>4. m.version \in Nat
      BY <1>0 DEF Notes
    <3> QED BY <2>2, <3>1, <3>2, <3>3, <3>4 DEF DeletedSince
  <2>7. ASSUME NEW m \in disk.notes, Filename(m) # Filename(n)
        PROVE  m \in disk'.notes /\ m.version >= m.version
    BY <1>0, <2>4, <2>7 DEF Named, Notes
  <2> QED BY <2>6, <2>7 DEF Forward
<1>6. CASE Sweep
  <2>1. run.pc \in Sweeping /\ run.pc # "idle"
    BY <1>6 DEF Sweep, Sweeping
  <2>2. PICK k \in run.absent : \E n \in run.index[k] : UnlinkNote(Filename(n))
    BY <1>6 DEF Sweep
  <2>3. PICK n \in run.index[k] : UnlinkNote(Filename(n))
    BY <2>2
  <2>4. disk'.notes = disk.notes \ Named(disk.notes, Filename(n))
    BY <1>0, <2>3, StoreEffects
  <2>5. k \in Keys /\ run.start \in Nat /\ run.start <= Len(log) /\ log \in Seq(Changes)
    BY <1>0 DEF TypeOK, Runs, UpstreamTypeOK, Facts, ReportsAreReal
  <2>6. n \in NotesAbout /\ n.key = k
    BY <1>0, <2>5 DEF NotesAbout, Facts, IndexIsOwn
  <2>7. run.reported[k] = 0 /\ ~ LiveSince(k, run.start)
    BY <1>0, <2>1 DEF Place, AbsentAreGone
  <2>8. ASSUME NEW m \in disk.notes, Filename(m) = Filename(n)
        PROVE  DeletedSince(m.key, m.version)
    <3>1. m.key = k
      BY <1>0, <1>1, <2>6, <2>8, NamesAreOwn
    <3>2. /\ m.version <= run.start /\ IsUpsert(m.version) /\ log[m.version].key = k
          /\ m.version <= Len(log)
      BY <1>0, <1>1, <2>1, <2>7, <3>1 DEF Facts, NotesAreKnown, KnownAt, NotesAreReal
    <3>3. m.version \in Nat /\ m.version > 0 /\ Len(log) \in Nat
      BY <1>0, <2>5, <3>2 DEF Notes
    <3>4. PICK q \in run.start .. Len(log) : ~ LiveAt(k, q)
      BY <2>7 DEF LiveSince
    <3>5. m.version \in 1 .. Len(log) /\ q \in m.version .. Len(log)
      BY <2>5, <3>2, <3>3, <3>4
    <3> QED BY <2>5, <3>1, <3>2, <3>4, <3>5, NotLiveIsDeleted
  <2>9. ASSUME NEW m \in disk.notes, Filename(m) # Filename(n)
        PROVE  m \in disk'.notes /\ m.version >= m.version
    BY <1>0, <2>4, <2>9 DEF Named, Notes
  <2> QED BY <2>8, <2>9 DEF Forward
<1> QED BY <1>2, <1>3, <1>4, <1>5, <1>6, NotesChangeIn

\* Apart from a power loss, a Note goes only when its object was deleted
\* upstream after the state the Note holds: whatever tombstones, snapshots,
\* windows, failures, kills and concurrent changes there are.
THEOREM RemovalIsJustifiedAlways == Spec => RemovalIsJustified
<1>1. ASSUME IInv, [Next]_vars
      PROVE  [\A n \in disk.notes : \/ \E m \in disk'.notes : m.key = n.key
                                    \/ DeletedSince(n.key, n.version)
                                    \/ PowerLoss]_vars
  BY <1>1, StepIsForward DEF Forward
<1> QED BY <1>1, InvariantHolds, PTL DEF Spec, RemovalIsJustified

------------------------------------------------------------------------------
(***************************************************************************)
(* What the notebook survives.                                             *)
(***************************************************************************)

\* A power loss finds nothing that an earlier kill or failed write left renamed
\* and not synchronized: one fault happens in all, or no Field that may lose
\* power meets the two others.
PowerComesAlone ==
  \/ MaxFaults <= 1
  \/ \A f \in Fields : "power" \in f.faults => f.faults \cap {"kill", "io"} = {}

\* Power can still be lost.
Lossy == "power" \in field.faults /\ faults < MaxFaults

\* What the notebook can be found to hold, now or after a power loss.
Views == {disk.notes} \cup {N \in {durable.notes} : Lossy}
Marks == disk.cursor \cup {c \in durable.cursor : Lossy}

\* Artifacts that are there, and stay.
Safe == {a \in disk.artifacts : Lossy => a \in durable.artifacts}

-----------------------------------------------------------------------------
(* What a power loss finds *)

\* Where an operation on notes/ is visible and not synchronized.
Unsynced == {"note_sync", "stale_sync", "unlink_sync", "sweep_sync"}

\* One name of notes/ at a time may differ.
OneNameOff ==
  \E name : \A n \in disk.notes \cup durable.notes :
    Filename(n) # name => (n \in disk.notes <=> n \in durable.notes)

Synced ==
  Lossy =>
    /\ OneNameOff
    /\ run.pc \notin Unsynced => disk.notes = durable.notes
    /\ durable.artifacts \subseteq disk.artifacts
    /\ run.pc # "artifact_sync" => disk.artifacts = durable.artifacts

\* Every Note that may be found has its artifacts.
Complete == \A N \in Views : \A n \in N : n.artifacts \subseteq Safe

\* So has the record being applied, from the moment it is compared.
Ready ==
  /\ run.pc = "artifact_sync" =>
       \A k \in run.key : log[run.reported[k]].artifacts \subseteq disk.artifacts
  /\ run.pc = "compare" => \A k \in run.key : log[run.reported[k]].artifacts \subseteq Safe
  /\ run.pc = "note" => \A n \in run.note : n.artifacts \subseteq Safe

Durability == Synced /\ Complete /\ Ready

\* Faults are never taken back, and a kill or a failed write leaves none over
\* for a power loss.
LEMMA FaultsGrow ==
  ASSUME TypeOK, [Next]_vars
  PROVE  /\ field' = field /\ faults' >= faults
         /\ Lossy' => Lossy
         /\ PowerLoss => Lossy
         /\ PowerComesAlone /\ (Kill \/ RecordWriteFails \/ CursorWriteFails \/ SweepFails) => ~ Lossy'
<1>0. faults \in Nat /\ MaxFaults \in Nat
  BY SyncAssumption DEF TypeOK
<1>1. field' = field
  BY DEF Next, vars
<1>2. \A kind : Fault(kind) => /\ kind \in field.faults /\ faults < MaxFaults
                               /\ faults' = faults + 1
  BY DEF Fault
<1>3. faults' = faults \/ \E kind : Fault(kind)
  BY DEF Next, vars, UpstreamChanges, Work, Take, Apply, Faults, Begin, TakeRepeat, TakeDelete,
    TakeUpsert, TakeCheckpoint, InstallArtifact, SyncArtifact, Compare, InstallNote, SyncNote,
    RemoveSuperseded, SyncSuperseded, RemoveNote, SyncRemoval, WriteCursor, FinishCursor,
    EndOfStream, Sweep, SyncSweep, RecordWriteFails, CursorWriteFails, SweepFails, BadFrame,
    ErrorDiagnostic, PartialSnapshot, EarlyExit, Kill, PowerLoss, ForgetCursor
<1>4. faults' >= faults
  BY <1>0, <1>2, <1>3
<1>5. Lossy' => Lossy
  BY <1>0, <1>1, <1>2, <1>3 DEF Lossy
<1>6. PowerLoss => Lossy
  BY <1>2 DEF PowerLoss, Lossy
<1>7. ASSUME PowerComesAlone, Kill \/ RecordWriteFails \/ CursorWriteFails \/ SweepFails, Lossy'
      PROVE  FALSE
  <2>1. PICK kind \in {"kill", "io"} : Fault(kind)
    BY <1>7 DEF Kill, RecordWriteFails, CursorWriteFails, SweepFails
  <2>2. kind \in field.faults /\ faults' = faults + 1
    BY <1>2, <2>1
  <2>3. "power" \in field.faults /\ faults' < MaxFaults
    BY <1>1, <1>7 DEF Lossy
  <2>4. field \in Fields
    BY DEF TypeOK
  <2> QED BY <1>0, <1>7, <2>2, <2>3, <2>4 DEF PowerComesAlone
<1> QED BY <1>1, <1>4, <1>5, <1>6, <1>7

\* Whatever of the names in question survives, it is what was visible or what
\* was durable.
LEMMA LossIsAView ==
  ASSUME Synced, Lossy, NEW N \in NotesAfterLoss
  PROVE  N \in Views
<1>1. PICK name : \A n \in disk.notes \cup durable.notes :
        Filename(n) # name => (n \in disk.notes <=> n \in durable.notes)
  BY DEF Synced, OneNameOff
<1>2. PICK kept : N = {n \in disk.notes : Filename(n) \in kept}
                        \cup {n \in durable.notes : Filename(n) \notin kept}
  BY DEF NotesAfterLoss
<1>3. CASE name \in kept
  <2>1. N = disk.notes
    BY <1>1, <1>2, <1>3
  <2> QED BY <2>1 DEF Views
<1>4. CASE name \notin kept
  <2>1. N = durable.notes
    BY <1>1, <1>2, <1>4
  <2> QED BY <2>1 DEF Views
<1> QED BY <1>3, <1>4

-----------------------------------------------------------------------------
(* What steps do to the notebook, and where they lead *)

\* The steps that store something, and where the others start from.
LEMMA StoringSteps ==
  ASSUME [Next]_vars
  PROVE  \/ /\ UNCHANGED <<disk, durable>>
            /\ \/ run' = run
               \/ run.pc \in {"idle", "reading", "draining", "compare"}
               \/ Kill \/ RecordWriteFails \/ CursorWriteFails \/ SweepFails
         \/ InstallArtifact \/ SyncArtifact
         \/ InstallNote \/ RemoveSuperseded \/ RemoveNote \/ Sweep
         \/ SyncNote \/ SyncSuperseded \/ SyncRemoval \/ SyncSweep
         \/ WriteCursor \/ FinishCursor \/ ForgetCursor \/ PowerLoss
<1>1. UpstreamChanges \/ UNCHANGED vars => run' = run /\ UNCHANGED <<disk, durable>>
  BY DEF UpstreamChanges, vars
<1>2. Begin => run.pc = "idle" /\ UNCHANGED <<disk, durable>>
  BY DEF Begin
<1>3. TakeRepeat \/ TakeDelete \/ TakeUpsert => run.pc = "reading" /\ UNCHANGED <<disk, durable>>
  BY DEF TakeRepeat, TakeDelete, TakeUpsert, Takes
<1>4. TakeCheckpoint \/ PartialSnapshot => run.pc = "reading" /\ UNCHANGED <<disk, durable>>
  BY DEF TakeCheckpoint, PartialSnapshot, TakesOffer
<1>5. Compare => run.pc = "compare" /\ UNCHANGED <<disk, durable>>
  BY DEF Compare
<1>6. EndOfStream \/ EarlyExit => run.pc \in {"reading", "draining"} /\ UNCHANGED <<disk, durable>>
  BY DEF EndOfStream, EarlyExit
<1>7. Kill \/ RecordWriteFails \/ CursorWriteFails \/ SweepFails => UNCHANGED <<disk, durable>>
  BY DEF Kill, RecordWriteFails, CursorWriteFails, SweepFails
<1>8. BadFrame \/ ErrorDiagnostic => run.pc = "reading" /\ UNCHANGED <<disk, durable>>
  BY DEF BadFrame, ErrorDiagnostic
<1> QED BY <1>1, <1>2, <1>3, <1>4, <1>5, <1>6, <1>7, <1>8 DEF Next, Work, Take, Apply, Faults

\* Notes, artifacts and cursors change one by one, and only become durable as
\* they are visible.
LEMMA StoreFields ==
  ASSUME IInv, [Next]_vars, ~ PowerLoss
  PROVE  /\ disk.artifacts \subseteq disk'.artifacts
         /\ disk'.artifacts = disk.artifacts \/ InstallArtifact
         /\ \/ durable'.artifacts = durable.artifacts
            \/ SyncArtifact /\ durable'.artifacts = disk.artifacts /\ disk' = disk
         /\ \/ durable'.notes = durable.notes
            \/ durable'.notes = disk.notes /\ disk' = disk
         /\ disk'.cursor \in {disk.cursor, {}} \/ WriteCursor
         /\ \/ durable'.cursor = durable.cursor
            \/ durable'.cursor = disk.cursor /\ disk' = disk
<1>0. StoreTypeOK
  BY DEF IInv, TypeOK
<1>1. CASE UNCHANGED <<disk, durable>>
  BY <1>1
<1>2. CASE InstallArtifact
  <2>0. run.pc \in Storing \cup Removing /\ durable' = durable
    BY <1>2 DEF InstallArtifact, Storing
  <2>1. PICK k \in Keys : Reporting = run.reported[k] /\ log[run.reported[k]] \in Changes
    BY <2>0, OneKey
  <2>2. PICK a \in log[Reporting].artifacts : RenameArtifact(a)
    BY <1>2 DEF InstallArtifact
  <2>3. a \in Artifacts
    BY <2>1, <2>2 DEF Changes
  <2>4. disk'.artifacts = disk.artifacts \cup {a} /\ disk'.cursor = disk.cursor
    BY <1>0, <2>2, <2>3, StoreEffects
  <2> QED BY <1>2, <2>0, <2>4
<1>3. CASE SyncArtifact
  BY <1>0, <1>3, StoreEffects DEF SyncArtifact
<1>4. CASE InstallNote
  <2>1. run.pc \in Installing /\ durable' = durable
    BY <1>4 DEF InstallNote, Installing
  <2>2. PICK n \in Notes : run.note = {n}
    BY <2>1, OneNote
  <2>3. disk'.artifacts = disk.artifacts /\ disk'.cursor = disk.cursor
    BY <1>0, <1>4, <2>2, StoreEffects DEF InstallNote
  <2> QED BY <2>1, <2>3
<1>5. CASE RemoveSuperseded \/ RemoveNote \/ Sweep
  <2>1. durable' = durable /\ \E name : UnlinkNote(name)
    BY <1>5 DEF RemoveSuperseded, RemoveNote, Sweep
  <2>2. disk'.artifacts = disk.artifacts /\ disk'.cursor = disk.cursor
    BY <1>0, <2>1, StoreEffects
  <2> QED BY <2>1, <2>2
<1>6. CASE SyncNote \/ SyncSuperseded \/ SyncRemoval \/ SyncSweep
  <2>1. disk' = disk /\ SyncNotes
    BY <1>6 DEF SyncNote, SyncSuperseded, SyncRemoval, SyncSweep
  <2> QED BY <1>0, <2>1, StoreEffects
<1>7. CASE WriteCursor
  <2>1. PICK c \in session.committed : RenameCursor(c.cursor)
    BY <1>7 DEF WriteCursor
  <2>2. c.cursor \in 0 .. MaxVersion /\ durable' = durable
    BY <1>7 DEF IInv, TypeOK, Sessions, Offers, WriteCursor
  <2>3. disk'.artifacts = disk.artifacts
    BY <1>0, <2>1, <2>2, StoreEffects
  <2> QED BY <1>7, <2>2, <2>3
<1>8. CASE FinishCursor
  BY <1>0, <1>8, StoreEffects DEF FinishCursor
<1>9. CASE ForgetCursor
  BY <1>0, <1>9, StoreEffects DEF ForgetCursor
<1> QED BY <1>1, <1>2, <1>3, <1>4, <1>5, <1>6, <1>7, <1>8, <1>9, StoringSteps

\* How a run comes to where its record's artifacts matter, and to a cursor.
LEMMA PlacesFrom ==
  ASSUME IInv, [Next]_vars
  PROVE  /\ run'.pc = "artifact_sync" => run' = run \/ InstallArtifact
         /\ run'.pc = "compare" => run' = run \/ SyncArtifact \/ TakeUpsert
         /\ run'.pc = "note" => run' = run \/ Compare
         /\ run'.pc = "cursor" => run' = run \/ TakeCheckpoint \/ PartialSnapshot
<1>0. run \in Runs /\ TypeOK /\ Idle.pc = "idle"
  BY DEF IInv, TypeOK, Idle
<1> DEFINE Elsewhere == run'.pc \notin {"artifact_sync", "compare", "note", "cursor"}
<1>1. UpstreamChanges \/ ForgetCursor \/ UNCHANGED vars => run' = run
  BY DEF UpstreamChanges, ForgetCursor, vars
<1>2. Begin => Elsewhere
  BY DEF Begin, Idle
<1>3. TakeRepeat \/ TakeDelete => Elsewhere
  <2>1. \A k \in Keys : run.pc = "reading" => [Reported(k) EXCEPT !.key = {}].pc = "reading"
    BY <1>0 DEF Reported, Runs
  <2>2. \A k \in Keys : [Reported(k) EXCEPT !.pc = "unlink"].pc = "unlink"
    BY <1>0 DEF Reported, Runs
  <2> QED BY <2>1, <2>2 DEF TakeRepeat, TakeDelete, Takes
<1>4. TakeUpsert => run'.pc \in {"draining", "compare", "artifact"}
  BY <1>0 DEF TakeUpsert, Reported, Runs
<1>5. InstallArtifact => run'.pc = "artifact_sync"
  BY <1>0 DEF InstallArtifact, Go, Runs
<1>6. SyncArtifact => run'.pc = "compare"
  BY <1>0 DEF SyncArtifact, Go, Runs
<1>7. Compare => run'.pc \in {"reading", "note"}
  BY <1>0 DEF Compare, Runs
<1>8. InstallNote \/ RemoveSuperseded \/ RemoveNote \/ WriteCursor \/ FinishCursor => Elsewhere
  BY <1>0 DEF InstallNote, RemoveSuperseded, RemoveNote, WriteCursor, FinishCursor, Go, Runs
<1>9. Replaced => run'.pc = "reading"
  BY <1>0 DEF Replaced, Runs
<1>10. SyncNote \/ SyncSuperseded \/ SyncRemoval => Elsewhere
  BY <1>0, <1>9 DEF SyncNote, SyncSuperseded, SyncRemoval, Go, Runs
<1>11. End => Elsewhere
  BY <1>0 DEF End
<1>12. \A exit : Finish(exit) => Elsewhere
  BY <1>0, <1>11 DEF Finish, Runs
<1>13. EndOfStream \/ EarlyExit => Elsewhere
  BY <1>12 DEF EndOfStream, EarlyExit
<1>14. Sweep \/ SyncSweep => Elsewhere
  BY <1>0, <1>11 DEF Sweep, SyncSweep, Go, Runs
<1>15. RecordWriteFails \/ CursorWriteFails \/ BadFrame => Elsewhere
  BY <1>0 DEF RecordWriteFails, CursorWriteFails, BadFrame, Go, Runs
<1>16. ErrorDiagnostic => Elsewhere \/ run' = run
  BY <1>0 DEF ErrorDiagnostic, Runs
<1>17. SweepFails \/ Kill \/ PowerLoss => Elsewhere
  BY <1>11 DEF SweepFails, Kill, PowerLoss
<1>18. TakeCheckpoint \/ PartialSnapshot => run'.pc \in {"cursor", "reading"}
  <2>1. \A c : TakesOffer(c) => run'.pc \in {"cursor", "reading"}
    BY <1>0 DEF TakesOffer, Runs
  <2> QED BY <2>1 DEF TakeCheckpoint, PartialSnapshot
<1> QED BY <1>1, <1>2, <1>3, <1>4, <1>5, <1>6, <1>7, <1>8, <1>10, <1>13, <1>14, <1>15, <1>16, <1>17,
           <1>18
        DEF Next, Work, Take, Apply, Faults

\* What is safe stays safe.
LEMMA SafeGrows ==
  ASSUME IInv, Synced, [Next]_vars
  PROVE  Safe \subseteq Safe'
<1>0. TypeOK /\ StoreTypeOK
  BY DEF IInv, TypeOK
<1>1. CASE PowerLoss
  <2>1. /\ disk.artifacts \cap durable.artifacts \subseteq disk'.artifacts /\ durable' = disk'
        /\ Lossy
    BY <1>0, <1>1, PowerEffect, FaultsGrow DEF PowerLoss
  <2> QED BY <2>1 DEF Safe
<1>2. CASE ~ PowerLoss
  <2>1. /\ disk.artifacts \subseteq disk'.artifacts
        /\ \/ durable'.artifacts = durable.artifacts
           \/ durable'.artifacts = disk.artifacts /\ disk' = disk
    BY <1>2, StoreFields
  <2>2. Lossy' => Lossy
    BY <1>0, FaultsGrow
  <2> QED BY <2>1, <2>2 DEF Safe
<1> QED BY <1>1, <1>2

\* What can be found is what could be found before, or what is now visible.
LEMMA ViewsFrom ==
  ASSUME IInv, Synced, [Next]_vars, NEW M \in Views'
  PROVE  /\ M \in Views \/ M = disk'.notes
         /\ PowerLoss => M \in Views
<1>0. TypeOK /\ StoreTypeOK /\ (Lossy' => Lossy)
  BY FaultsGrow DEF IInv, TypeOK
<1>1. CASE PowerLoss
  <2>1. disk'.notes \in NotesAfterLoss /\ durable' = disk' /\ Lossy
    BY <1>0, <1>1, PowerEffect, FaultsGrow DEF PowerLoss
  <2>2. M = disk'.notes
    BY <2>1 DEF Views
  <2> QED BY <2>1, <2>2, LossIsAView
<1>2. CASE ~ PowerLoss
  <2>1. durable'.notes \in {durable.notes, disk.notes}
    BY <1>2, StoreFields
  <2> QED BY <1>0, <1>2, <2>1 DEF Views
<1> QED BY <1>1, <1>2

\* The step that installs a Note or removes one touches one name.
LEMMA OneNameTouched ==
  ASSUME IInv, InstallNote \/ RemoveSuperseded \/ RemoveNote \/ Sweep
  PROVE  /\ run.pc \notin Unsynced \cup {"artifact_sync"} /\ run'.pc \in Unsynced
         /\ durable' = durable /\ disk'.artifacts = disk.artifacts /\ disk'.cursor = disk.cursor
         /\ \E name : \A n \in disk.notes \cup disk'.notes :
              Filename(n) # name => (n \in disk.notes <=> n \in disk'.notes)
         /\ \A n \in disk'.notes : n \in disk.notes \/ (run.pc = "note" /\ n \in run.note)
<1>0. StoreTypeOK /\ run \in Runs
  BY DEF IInv, TypeOK
<1>1. CASE InstallNote
  <2>1. run.pc \in Installing /\ durable' = durable /\ run.pc = "note"
    BY <1>1 DEF InstallNote, Installing
  <2>2. PICK n \in Notes : run.note = {n}
    BY <2>1, OneNote
  <2>3. /\ disk'.notes = (disk.notes \ Named(disk.notes, Filename(n))) \cup {n}
        /\ disk'.artifacts = disk.artifacts /\ disk'.cursor = disk.cursor
    BY <1>0, <1>1, <2>2, StoreEffects DEF InstallNote
  <2>4. run'.pc = "note_sync"
    BY <1>0, <1>1 DEF InstallNote, Go, Runs
  <2>5. \A m \in disk.notes \cup disk'.notes :
          Filename(m) # Filename(n) => (m \in disk.notes <=> m \in disk'.notes)
    BY <2>3 DEF Named
  <2> QED BY <2>1, <2>2, <2>3, <2>4, <2>5 DEF Unsynced
<1>2. CASE RemoveSuperseded \/ RemoveNote \/ Sweep
  <2>1. PICK name : UnlinkNote(name)
    BY <1>2 DEF RemoveSuperseded, RemoveNote, Sweep
  <2>2. /\ disk'.notes = disk.notes \ Named(disk.notes, name)
        /\ disk'.artifacts = disk.artifacts /\ disk'.cursor = disk.cursor
    BY <1>0, <2>1, StoreEffects
  <2>3. run.pc \in {"stale", "unlink", "sweep"} /\ durable' = durable
    BY <1>2 DEF RemoveSuperseded, RemoveNote, Sweep
  <2>4. run'.pc \in {"stale_sync", "unlink_sync", "sweep_sync"}
    BY <1>0, <1>2 DEF RemoveSuperseded, RemoveNote, Sweep, Go, Runs
  <2>5. \A m \in disk.notes \cup disk'.notes :
          Filename(m) # name => (m \in disk.notes <=> m \in disk'.notes)
    BY <2>2 DEF Named
  <2> QED BY <2>2, <2>3, <2>4, <2>5 DEF Unsynced
<1> QED BY <1>1, <1>2

\* No step leaves more than one name and the artifacts of one record in question.
LEMMA SyncedStays ==
  ASSUME IInv, PowerComesAlone, Synced, [Next]_vars
  PROVE  Synced'
<1>0. TypeOK /\ StoreTypeOK /\ run \in Runs
  BY DEF IInv, TypeOK
<1> SUFFICES ASSUME Lossy'
             PROVE  /\ OneNameOff'
                    /\ run'.pc \notin Unsynced => disk'.notes = durable'.notes
                    /\ durable'.artifacts \subseteq disk'.artifacts
                    /\ run'.pc # "artifact_sync" => disk'.artifacts = durable'.artifacts
  BY DEF Synced, Unsynced
<1>1. /\ OneNameOff
      /\ run.pc \notin Unsynced => disk.notes = durable.notes
      /\ durable.artifacts \subseteq disk.artifacts
      /\ run.pc # "artifact_sync" => disk.artifacts = durable.artifacts
  BY <1>0, FaultsGrow DEF Synced
<1>2. ~ (Kill \/ RecordWriteFails \/ CursorWriteFails \/ SweepFails)
  BY <1>0, FaultsGrow
<1>3. CASE UNCHANGED <<disk, durable>> /\ (run' = run \/ run.pc \in {"idle", "reading", "draining", "compare"})
  BY <1>1, <1>3 DEF OneNameOff, Unsynced
<1>4. ASSUME disk'.notes = durable'.notes PROVE OneNameOff'
  BY <1>4 DEF OneNameOff
<1>5. CASE InstallArtifact \/ SyncArtifact
  <2>1. /\ disk'.notes = disk.notes /\ durable'.notes = durable.notes
        /\ run.pc \in {"artifact", "artifact_sync"}
    <3>2. CASE InstallArtifact
      <4>0. run.pc \in Storing \cup Removing /\ durable' = durable
        BY <3>2 DEF InstallArtifact, Storing
      <4>1. PICK k \in Keys : Reporting = run.reported[k] /\ log[run.reported[k]] \in Changes
        BY <4>0, OneKey
      <4>2. PICK a \in log[Reporting].artifacts : RenameArtifact(a)
        BY <3>2 DEF InstallArtifact
      <4>3. a \in Artifacts
        BY <4>1, <4>2 DEF Changes
      <4> QED BY <1>0, <3>2, <4>0, <4>2, <4>3, StoreEffects DEF InstallArtifact
    <3>3. CASE SyncArtifact
      BY <1>0, <3>3, StoreEffects DEF SyncArtifact
    <3> QED BY <1>5, <3>2, <3>3
  <2>2. disk'.notes = durable'.notes
    BY <1>1, <2>1 DEF Unsynced
  <2>3. CASE InstallArtifact
    <3>1. run'.pc = "artifact_sync" /\ durable' = durable /\ run.pc = "artifact"
      BY <1>0, <2>3 DEF InstallArtifact, Go, Runs
    <3>2. disk.artifacts \subseteq disk'.artifacts
      <4>1. PICK a : RenameArtifact(a)
        BY <2>3 DEF InstallArtifact
      <4> QED BY <1>0, <4>1 DEF RenameArtifact, StoreTypeOK, Directories
    <3> QED BY <1>1, <1>4, <2>2, <3>1, <3>2
  <2>4. CASE SyncArtifact
    <3>1. durable'.artifacts = disk.artifacts /\ disk' = disk
      BY <1>0, <2>4, StoreEffects DEF SyncArtifact
    <3> QED BY <1>4, <2>2, <3>1
  <2> QED BY <1>5, <2>3, <2>4
<1>6. CASE InstallNote \/ RemoveSuperseded \/ RemoveNote \/ Sweep
  <2>1. /\ run.pc \notin Unsynced \cup {"artifact_sync"} /\ run'.pc \in Unsynced
        /\ durable' = durable /\ disk'.artifacts = disk.artifacts
    BY <1>6, OneNameTouched
  <2>2. PICK name : \A n \in disk.notes \cup disk'.notes :
              Filename(n) # name => (n \in disk.notes <=> n \in disk'.notes)
    BY <1>6, OneNameTouched
  <2>3. OneNameOff'
    BY <1>1, <2>1, <2>2 DEF OneNameOff
  <2> QED BY <1>1, <2>1, <2>3
<1>7. CASE SyncNote \/ SyncSuperseded \/ SyncRemoval \/ SyncSweep
  <2>1. disk' = disk /\ SyncNotes /\ run.pc # "artifact_sync"
    BY <1>7 DEF SyncNote, SyncSuperseded, SyncRemoval, SyncSweep
  <2>2. durable'.notes = disk.notes /\ durable'.artifacts = durable.artifacts
    BY <1>0, <2>1, StoreEffects
  <2> QED BY <1>1, <1>4, <2>1, <2>2
<1>8. CASE WriteCursor \/ FinishCursor \/ ForgetCursor
  <2>1. /\ disk'.notes = disk.notes /\ durable'.notes = durable.notes
        /\ disk'.artifacts = disk.artifacts /\ durable'.artifacts = durable.artifacts
    <3>1. CASE WriteCursor
      <4>1. PICK c \in session.committed : RenameCursor(c.cursor)
        BY <3>1 DEF WriteCursor
      <4>2. c.cursor \in 0 .. MaxVersion /\ durable' = durable
        BY <3>1 DEF IInv, TypeOK, Sessions, Offers, WriteCursor
      <4> QED BY <1>0, <4>1, <4>2, StoreEffects
    <3>2. CASE FinishCursor \/ ForgetCursor
      BY <1>0, <3>2, StoreEffects DEF FinishCursor, ForgetCursor
    <3> QED BY <1>8, <3>1, <3>2
  <2>2. run.pc \in {"cursor", "cursor_sync", "idle"}
    BY <1>8 DEF WriteCursor, FinishCursor, ForgetCursor
  <2> QED BY <1>1, <1>4, <2>1, <2>2 DEF Unsynced
<1>9. CASE PowerLoss
  <2>1. durable' = disk'
    BY <1>0, <1>9, PowerEffect DEF PowerLoss
  <2> QED BY <1>4, <2>1
<1> QED BY <1>2, <1>3, <1>5, <1>6, <1>7, <1>8, <1>9, StoringSteps

\* Only the upstream changes the log.
LEMMA LogChanges ==
  ASSUME [Next]_vars
  PROVE  UpstreamChanges \/ UNCHANGED log
BY DEF Next, vars, Work, Take, Apply, Faults, Begin, TakeRepeat, TakeDelete,
    TakeUpsert, TakeCheckpoint, TakesOffer, InstallArtifact, SyncArtifact, Compare, InstallNote,
    SyncNote, RemoveSuperseded, SyncSuperseded, RemoveNote, SyncRemoval, WriteCursor, FinishCursor,
    EndOfStream, Sweep, SyncSweep, RecordWriteFails, CursorWriteFails, SweepFails, BadFrame,
    ErrorDiagnostic, PartialSnapshot, EarlyExit, Kill, PowerLoss, ForgetCursor

\* The log only grows, and what it said it says.
LEMMA PastStays ==
  ASSUME TypeOK, [Next]_vars
  PROVE  /\ log \in Seq(Changes) /\ Len(log) \in Nat /\ Len(log') \in Nat /\ Len(log') >= Len(log)
         /\ \A v \in 1 .. Len(log) : log'[v] = log[v]
         /\ \A v \in 0 .. Len(log) : /\ IsUpsert(v)' <=> IsUpsert(v)
                                     /\ IsDelete(v)' <=> IsDelete(v)
         /\ \A k, p : p \in 0 .. Len(log) => VersionAt(k, p)' = VersionAt(k, p)
         /\ \A k, v : v \in Nat /\ DeletedSince(k, v) => DeletedSince(k, v)'
<1>0. log \in Seq(Changes) /\ Len(log) \in Nat
  BY DEF TypeOK, UpstreamTypeOK
<1>1. CASE UpstreamChanges
  <2>1. UNCHANGED field
    BY <1>1 DEF Next, vars
  <2>2. PICK c \in Changes : log' = Append(log, c)
    BY <1>1, <2>1, ChangeOfLog
  <2>3. Len(log') = Len(log) + 1
    BY <1>0, <2>2, ChangeKeepsThePast
  <2> QED BY <1>0, <2>2, <2>3, ChangeKeepsThePast
<1>2. CASE UNCHANGED log
  BY <1>0, <1>2 DEF IsUpsert, IsDelete, VersionAt, DeletedSince
<1> QED BY <1>1, <1>2, LogChanges

\* A Note is only installed when its artifacts are safe.
LEMMA CompleteStays ==
  ASSUME IInv, Durability, [Next]_vars
  PROVE  Complete'
<1>0. Synced /\ Complete /\ Ready /\ Safe \subseteq Safe'
  BY SafeGrows DEF Durability
<1>1. ASSUME NEW N \in Views, NEW n \in N PROVE n.artifacts \subseteq Safe'
  BY <1>0 DEF Complete
<1>2. ASSUME ~ PowerLoss, NEW n \in disk'.notes PROVE n.artifacts \subseteq Safe'
  <2>1. n \in disk.notes \/ (run.pc = "note" /\ n \in run.note)
    BY <1>2, NotesChangeIn, OneNameTouched
  <2>2. disk.notes \in Views
    BY DEF Views
  <2> QED BY <1>0, <1>1, <2>1, <2>2 DEF Ready
<1>3. ASSUME NEW M \in Views', NEW n \in M PROVE n.artifacts \subseteq Safe'
  <2>1. M \in Views \/ (~ PowerLoss /\ M = disk'.notes)
    BY <1>0, ViewsFrom
  <2> QED BY <1>1, <1>2, <1>3, <2>1
<1> QED BY <1>3 DEF Complete

\* A record comes to its comparison with its artifacts safe.
LEMMA ReadyStays ==
  ASSUME IInv, Durability, [Next]_vars
  PROVE  Ready'
<1>0. /\ Synced /\ Ready /\ TypeOK /\ StoreTypeOK /\ Facts /\ Place
      /\ run \in Runs /\ Safe \subseteq Safe' /\ (Lossy' => Lossy)
  BY SafeGrows, FaultsGrow DEF Durability, IInv, TypeOK
<1>a. ~ PowerLoss \/ run'.pc = "idle"
  BY DEF PowerLoss, End, Idle
<1>b. run.pc \in {"artifact", "artifact_sync", "compare"} => run.pc \in Storing \cup Removing
  BY DEF Storing
<1>1. ASSUME run.pc \in {"artifact_sync", "compare"}
      PROVE  \A k \in run.key : log'[run.reported[k]].artifacts = log[run.reported[k]].artifacts
  <2>1. PICK k \in Keys : run.key = {k} /\ run.reported[k] \in 1 .. Len(log)
    BY <1>1, <1>b, OneKey
  <2> QED BY <1>0, <2>1, PastStays
<1>2. CASE run' = run
  <2>1. run'.pc # "idle" => disk.artifacts \subseteq disk'.artifacts
    BY <1>a, StoreFields
  <2> QED BY <1>0, <1>1, <1>2, <2>1 DEF Ready
<1>3. CASE InstallArtifact /\ run' # run
  <2>0. run.pc \in Storing \cup Removing /\ durable' = durable /\ log' = log
    BY <1>3 DEF InstallArtifact, Storing
  <2>1. PICK k \in Keys : /\ Reporting = run.reported[k] /\ log[run.reported[k]] \in Changes
                          /\ run.key = {k} /\ run.reported[k] \in 1 .. Len(log)
    BY <2>0, OneKey
  <2>2. PICK a \in log[Reporting].artifacts : RenameArtifact(a)
    BY <1>3 DEF InstallArtifact
  <2>3. a \in Artifacts
    BY <2>1, <2>2 DEF Changes
  <2>4. disk'.artifacts = disk.artifacts \cup {a}
    BY <1>0, <2>2, <2>3, StoreEffects
  <2>5. log[run.reported[k]].artifacts \subseteq disk'.artifacts
    BY <1>0, <2>1, <2>2, <2>4 DEF Facts, OneArtifact
  <2>6. run'.pc = "artifact_sync" /\ run'.key = {k} /\ run'.reported = run.reported
    BY <1>0, <1>3, <2>1 DEF InstallArtifact, Go, Runs
  <2> QED BY <2>0, <2>5, <2>6 DEF Ready
<1>4. CASE SyncArtifact
  <2>0. run.pc = "artifact_sync" /\ disk' = disk /\ log' = log
    BY <1>4 DEF SyncArtifact
  <2>1. durable'.artifacts = disk.artifacts
    BY <1>0, <1>4, StoreEffects DEF SyncArtifact
  <2>2. Safe' = disk.artifacts
    BY <2>0, <2>1 DEF Safe
  <2>3. run'.pc = "compare" /\ run'.key = run.key /\ run'.reported = run.reported
    BY <1>0, <1>4 DEF SyncArtifact, Go, Runs
  <2> QED BY <1>0, <2>0, <2>2, <2>3 DEF Ready
<1>5. CASE TakeUpsert
  <2>1. PICK k \in Keys :
          /\ Takes(k, "upsert")
          /\ run' = [Reported(k) EXCEPT !.pc = IF session'.rejected    THEN "draining"
                                               ELSE IF Missing(k) = {} THEN "compare"
                                               ELSE "artifact"]
    BY <1>5 DEF TakeUpsert
  <2>2. run.pc = "reading" /\ Version(k) \in 1 .. Len(log)
    BY <2>1, TakesEffect
  <2>3. UNCHANGED <<log, disk, durable>>
    BY <1>5 DEF TakeUpsert
  <2>4. run'.key = {k} /\ run'.reported[k] = Version(k)
    BY <1>0, <2>1 DEF Reported, Runs
  <2>5. run'.pc = "compare" => Missing(k) = {}
    BY <1>0, <2>1 DEF Reported, Runs
  <2>6. run'.pc \in {"draining", "compare", "artifact"}
    BY <1>0, <2>1 DEF Reported, Runs
  <2>7. run'.pc = "compare" => log[Version(k)].artifacts \subseteq disk.artifacts
    BY <2>5 DEF Missing, Stored
  <2>8. Lossy => disk.artifacts = durable.artifacts
    BY <1>0, <2>2 DEF Synced
  <2>9. disk.artifacts \subseteq Safe
    BY <2>8 DEF Safe
  <2> QED BY <1>0, <2>3, <2>4, <2>6, <2>7, <2>9 DEF Ready
<1>6. CASE Compare
  <2>0. run.pc = "compare" /\ (Existing = {} => FreshIds # {}) /\ run.pc \in Storing
    BY <1>6 DEF Compare, Storing
  <2>1. PICK k \in Keys : run.key = {k}
    BY <1>b, <2>0, OneKey
  <2>2. Candidate.artifacts = log[run.reported[k]].artifacts
    BY <2>0, <2>1, CandidateIsTyped
  <2>3. Candidate.artifacts \subseteq Safe
    BY <1>0, <2>0, <2>1, <2>2 DEF Ready
  <2>4. run'.pc = "reading" \/ (run'.pc = "note" /\ run'.note = {Candidate})
    BY <1>0, <1>6 DEF Compare, Runs
  <2> QED BY <1>0, <2>3, <2>4 DEF Ready
<1>7. run'.pc \in {"artifact_sync", "compare", "note"} =>
        run' = run \/ InstallArtifact \/ SyncArtifact \/ TakeUpsert \/ Compare
  BY PlacesFrom
<1> QED BY <1>2, <1>3, <1>4, <1>5, <1>6, <1>7 DEF Ready

LEMMA DurabilityStays ==
  ASSUME IInv, PowerComesAlone, Durability, [Next]_vars
  PROVE  Durability'
BY SyncedStays, CompleteStays, ReadyStays DEF Durability

LEMMA DurabilityBegins == Init => Durability
<1>1. ASSUME Init PROVE disk = EmptyNotebook /\ durable = EmptyNotebook /\ run.pc = "idle"
  BY <1>1 DEF Init, StoreInit, Idle
<1> QED BY <1>1 DEF EmptyNotebook, Durability, Synced, OneNameOff, Complete, Views, Ready

LEMMA DurabilityHolds ==
  ASSUME PowerComesAlone
  PROVE  Spec => [](IInv /\ Durability)
<1>1. Init => IInv /\ Durability
  BY InitKeeps, DurabilityBegins
<1>2. IInv /\ Durability /\ [Next]_vars => (IInv /\ Durability)'
  BY NextKeeps, DurabilityStays
<1> QED BY <1>1, <1>2, PTL DEF Spec

\* A Note never references an artifact the notebook does not hold, whatever is
\* killed and fails, or whatever power is lost.
THEOREM ArtifactsBeforeNotesAlways ==
  ASSUME PowerComesAlone
  PROVE  Spec => []ArtifactsBeforeNotes
<1>1. IInv /\ Durability => ArtifactsBeforeNotes
  BY DEF Durability, Complete, Views, Safe, ArtifactsBeforeNotes
<1> QED BY <1>1, DurabilityHolds, PTL

-----------------------------------------------------------------------------
(* What the cursor accounts for *)

\* `N` shows the state of `key` at its version `v`: a Note at least as new, or
\* the object was deleted upstream since.
Kept(N, key, v) ==
  IsUpsert(v) => (\E n \in N : n.key = key /\ n.version >= v) \/ DeletedSince(key, v)

\* Whatever is found, it shows it.
Held(key, v) == \A N \in Views : Kept(N, key, v)

\* What was accounted for is held, and so is what this run reported and stored.
Accounted ==
  /\ Marks \subseteq 0 .. Len(log)
  /\ \A k \in Covered, c \in Marks : Held(k, VersionAt(k, c))
  /\ run.pc # "idle" =>
       /\ run.cursor <= Len(log)
       /\ session.request.windowed => field.window_supported
       /\ \A k \in Covered : Held(k, VersionAt(k, run.cursor))
       /\ \A k \in Keys \ run.key : Held(k, run.reported[k])
  /\ run.pc = "cursor" =>
       \A o \in session.committed : /\ o.cursor <= Len(log)
                                    /\ \A k \in Covered : Held(k, VersionAt(k, o.cursor))

\* Every step of a run that has begun, as far as its reports are concerned.
LEMMA RunGoesOn ==
  ASSUME IInv, [Next]_vars, run'.pc # "idle", ~ Begin
  PROVE  /\ run.pc # "idle" /\ run'.cursor = run.cursor /\ SameRequest(session', session)
         /\ \/ run'.reported = run.reported /\ run.key \subseteq run'.key
            \/ TakeRepeat \/ TakeDelete \/ TakeUpsert
            \/ Compare \/ SyncNote \/ SyncSuperseded \/ SyncRemoval
<1>0. /\ run \in Runs /\ session \in Sessions /\ TypeOK /\ Place /\ field' = field
      /\ SameRequest(session, session)
  BY FaultsGrow DEF IInv, TypeOK, SameRequest
<1> DEFINE Goes == run.pc # "idle" /\ run'.cursor = run.cursor /\ SameRequest(session', session)
           Reads == run'.reported = run.reported /\ run.key \subseteq run'.key
<1>1. CASE UpstreamChanges \/ ForgetCursor \/ UNCHANGED vars
  <2>1. run' = run /\ session' = session
    BY <1>1 DEF UpstreamChanges, ForgetCursor, vars
  <2> QED BY <1>0, <2>1
<1>2. CASE \/ InstallArtifact \/ SyncArtifact \/ InstallNote \/ RemoveSuperseded \/ RemoveNote
           \/ WriteCursor \/ FinishCursor
  <2>1. run.pc # "idle" /\ session' = session
    BY <1>2 DEF InstallArtifact, SyncArtifact, InstallNote, RemoveSuperseded, RemoveNote,
      WriteCursor, FinishCursor
  <2>2. \E p \in Points : run' = [run EXCEPT !.pc = p]
    BY <1>2 DEF InstallArtifact, SyncArtifact, InstallNote, RemoveSuperseded, RemoveNote,
      WriteCursor, FinishCursor, Go, Points
  <2> QED BY <1>0, <2>1, <2>2, GoFields DEF SameReports
<1>3. CASE RecordWriteFails \/ CursorWriteFails \/ BadFrame \/ ErrorDiagnostic
  <2>1. run.pc # "idle" /\ run'.cursor = run.cursor /\ Reads
    BY <1>0, <1>3 DEF RecordWriteFails, CursorWriteFails, BadFrame, ErrorDiagnostic, Go, Runs
  <2>2. \/ session' = session \/ session' = NoteRejection(session)
        \/ \E e : e.type = "diagnostic" /\ session' = Accept(session, e)
    BY <1>3 DEF RecordWriteFails, CursorWriteFails, BadFrame, ErrorDiagnostic
  <2>3. SameRequest(session', session)
    BY <1>0, <2>2, SmallMethods, TakenDiagnostic
  <2> QED BY <2>1, <2>3
<1>4. CASE TakeCheckpoint \/ PartialSnapshot
  <2>1. PICK p \in 0 .. Len(log), final \in BOOLEAN, state \in {"complete", "partial"} :
          TakesOffer(CheckpointAt(p, final, state))
    BY <1>4 DEF TakeCheckpoint, PartialSnapshot
  <2> QED BY <1>0, <2>1, OfferEffect DEF SameReports
<1>5. CASE TakeRepeat \/ TakeDelete \/ TakeUpsert
  <2>0. PICK k \in Keys :
          \E d : /\ Takes(k, d)
                 /\ \/ session' = Accept(session, RecordOf(k))
                    \/ session' = Settled(Accept(session, RecordOf(k)))
                    \/ session' = ResolveArtifacts(Accept(session, RecordOf(k)), TRUE,
                                                   Cardinality(Missing(k)))
    BY <1>5 DEF TakeRepeat, TakeDelete, TakeUpsert
  <2>1. PICK d : /\ Takes(k, d)
                 /\ \/ session' = Accept(session, RecordOf(k))
                    \/ session' = Settled(Accept(session, RecordOf(k)))
                    \/ session' = ResolveArtifacts(Accept(session, RecordOf(k)), TRUE,
                                                   Cardinality(Missing(k)))
    BY <2>0
  <2>2. PICK t : t = Accept(session, RecordOf(k))
    OBVIOUS
  <2>3. /\ t \in Sessions /\ SameRequest(t, session) /\ run.pc = "reading"
        /\ Version(k) \in 1 .. Len(log)
    BY <2>1, <2>2, TakesEffect
  <2>4. Cardinality(Missing(k)) \in Nat
    BY <2>3, MissingIsCounted
  <2>5. session' \in {t, Settled(t), ResolveArtifacts(t, TRUE, Cardinality(Missing(k)))}
    BY <2>1, <2>2
  <2>6. SameRequest(session', session)
    <3>1. SameRequest(session', t)
      <4>1. CASE session' = t
        BY <4>1 DEF SameRequest
      <4>2. CASE session' = Settled(t)
        BY <2>3, <2>4, <4>2, SmallMethods
      <4>3. CASE session' = ResolveArtifacts(t, TRUE, Cardinality(Missing(k)))
        BY <2>3, <2>4, <4>3, SmallMethods
      <4> QED BY <2>5, <4>1, <4>2, <4>3
    <3> QED BY <2>3, <3>1 DEF SameRequest
  <2>7. run'.cursor = run.cursor
    BY <1>0, <1>5 DEF TakeRepeat, TakeDelete, TakeUpsert, Reported, Runs
  <2> QED BY <1>5, <2>3, <2>6, <2>7
<1>6. CASE Compare \/ SyncNote \/ SyncSuperseded \/ SyncRemoval
  <2>1. session' = session \/ session' = Settled(session)
    BY <1>6 DEF Compare, SyncNote, SyncSuperseded, SyncRemoval, Replaced
  <2>2. run.pc # "idle"
    BY <1>6 DEF Compare, SyncNote, SyncSuperseded, SyncRemoval
  <2>3. run'.cursor = run.cursor
    BY <1>0, <1>6 DEF Compare, SyncNote, SyncSuperseded, SyncRemoval, Replaced, Go, Runs
  <2>4. SameRequest(session', session)
    BY <1>0, <2>1, SmallMethods
  <2> QED BY <1>6, <2>2, <2>3, <2>4
<1>7. CASE EndOfStream \/ EarlyExit \/ Sweep \/ SyncSweep
  <2>1. ~ End
    BY DEF End, Idle
  <2>2. run.pc # "idle"
    BY <1>7 DEF EndOfStream, EarlyExit, Sweep, SyncSweep
  <2>3. session' = session /\ run'.cursor = run.cursor /\ Reads
    <3>1. \A exit : Finish(exit) => session' = session /\ run'.cursor = run.cursor /\ Reads
      BY <1>0, <2>1 DEF Finish, Runs
    <3>2. Sweep \/ SyncSweep => session' = session /\ run'.cursor = run.cursor /\ Reads
      BY <1>0, <2>1 DEF Sweep, SyncSweep, Go, Runs
    <3> QED BY <1>7, <3>1, <3>2 DEF EndOfStream, EarlyExit
  <2> QED BY <1>0, <2>2, <2>3
<1>8. CASE SweepFails \/ Kill \/ PowerLoss
  BY <1>8 DEF SweepFails, Kill, PowerLoss, End, Idle
<1> QED BY <1>1, <1>2, <1>3, <1>4, <1>5, <1>6, <1>7, <1>8 DEF Next, Work, Take, Apply, Faults

\* Views are sets of Notes, and there is always one.
LEMMA ViewsAreNotes ==
  ASSUME TypeOK
  PROVE  /\ \A N \in Views : N \in SUBSET Notes /\ N \subseteq NotesAbout
         /\ disk.notes \in Views
         /\ Marks \subseteq 0 .. MaxVersion
  BY DEF Views, Marks, TypeOK, StoreTypeOK, Directories, NotesAbout

\* A later state that is shown shows the earlier ones.
LEMMA KeptBelow ==
  ASSUME log \in Seq(Changes), NEW N \in SUBSET Notes, NEW k, NEW v \in Nat, NEW w \in Nat,
         v <= w, w <= Len(log), w > 0 => log[w].key = k, Kept(N, k, w)
  PROVE  Kept(N, k, v)
<1> SUFFICES ASSUME IsUpsert(v)
             PROVE  (\E n \in N : n.key = k /\ n.version >= v) \/ DeletedSince(k, v)
  BY DEF Kept
<1>1. v > 0 /\ w > 0 /\ log[w].key = k /\ Len(log) \in Nat
  BY DEF IsUpsert
<1>2. CASE IsUpsert(w)
  <2>1. CASE DeletedSince(k, w)
    BY <1>1, <2>1 DEF DeletedSince
  <2>2. CASE \E n \in N : n.key = k /\ n.version >= w
    BY <2>2 DEF Notes
  <2> QED BY <1>2, <2>1, <2>2 DEF Kept
<1>3. CASE ~ IsUpsert(w)
  <2>1. log[w] \in Changes
    BY <1>1
  <2>2. IsDelete(w)
    BY <1>1, <1>3, <2>1 DEF IsUpsert, IsDelete, Changes
  <2>3. w # v
    BY <1>3
  <2> QED BY <1>1, <2>2, <2>3 DEF DeletedSince
<1> QED BY <1>2, <1>3

\* Nothing that is found has gone back behind all that could be found before.
LEMMA ViewsGoForward ==
  ASSUME IInv, Synced, [Next]_vars, NEW M \in Views'
  PROVE  \E N \in Views : Forward(N, M)
<1>0. TypeOK
  BY DEF IInv
<1>1. CASE M \in Views
  BY <1>0, <1>1, ViewsAreNotes, StandingIsForward
<1>2. CASE M \notin Views
  <2>1. M = disk'.notes /\ ~ PowerLoss
    BY <1>2, ViewsFrom
  <2> QED BY <1>0, <2>1, StepIsForward, ViewsAreNotes
<1> QED BY <1>1, <1>2

\* What is held stays held.
LEMMA HeldGoesOn ==
  ASSUME IInv, Synced, [Next]_vars, NEW k \in Keys, NEW v \in 0 .. Len(log), Held(k, v)
  PROVE  Held(k, v)'
<1>0. TypeOK /\ IInv'
  BY NextKeeps DEF IInv
<1>1. /\ Len(log) \in Nat
      /\ IsUpsert(v)' <=> IsUpsert(v)
      /\ \A w : w \in Nat /\ DeletedSince(k, w) => DeletedSince(k, w)'
  BY <1>0, PastStays
<1>2. ASSUME NEW M \in Views', IsUpsert(v)
      PROVE  (\E m \in M : m.key = k /\ m.version >= v) \/ DeletedSince(k, v)'
  <2>1. PICK N \in Views : Forward(N, M)
    BY ViewsGoForward
  <2>2. N \in SUBSET Notes /\ M \in SUBSET Notes
    BY <1>0, <2>1, ViewsAreNotes DEF IInv, TypeOK, StoreTypeOK, Directories, Views
  <2>3. Kept(N, k, v)
    BY <2>1 DEF Held
  <2>4. CASE DeletedSince(k, v)
    BY <1>1, <2>4
  <2>5. ASSUME NEW n \in N, n.key = k, n.version >= v
        PROVE  (\E m \in M : m.key = k /\ m.version >= v) \/ DeletedSince(k, v)'
    <3>1. n.version \in Nat
      BY <2>2 DEF Notes
    <3>2. CASE \E m \in M : m.key = n.key /\ m.version >= n.version
      BY <2>2, <2>5, <3>1, <3>2 DEF Notes
    <3>3. CASE DeletedSince(n.key, n.version)
      <4>1. DeletedSince(k, v)
        BY <1>1, <2>5, <3>1, <3>3 DEF DeletedSince
      <4> QED BY <1>1, <4>1
    <3> QED BY <2>1, <3>2, <3>3 DEF Forward
  <2> QED BY <1>2, <2>3, <2>4, <2>5 DEF Kept
<1> QED BY <1>1, <1>2 DEF Held, Kept

\* A deletion, or no state at all, needs no Note.
LEMMA NothingToHold ==
  ASSUME NEW k, NEW v, ~ IsUpsert(v)
  PROVE  Held(k, v)
  BY DEF Held, Kept

\* An offer the run can make is of states that are held: the cursor it resumed
\* from accounts for them, or it has reported them since.
LEMMA OfferIsHeld ==
  ASSUME IInv, Accounted, run.pc = "reading", NEW p \in 0 .. Len(log),
         \A k \in Keys : ~ Owed(k, p), NEW k \in Covered
  PROVE  Held(k, VersionAt(k, p))
<1>0. /\ TypeOK /\ Facts /\ Place /\ run \in Runs /\ log \in Seq(Changes) /\ Len(log) \in Nat
      /\ k \in Keys /\ field \in FieldTypes
  BY FieldIsTyped DEF IInv, TypeOK, UpstreamTypeOK, Covered
<1>1. run.key = {}
  BY <1>0 DEF Place, OneRecord, Between
<1>2. /\ run.cursor \in 0 .. Len(log) /\ run.reported[k] \in 0 .. Len(log)
      /\ run.reported[k] > 0 => log[run.reported[k]].key = k
  BY <1>0 DEF Runs, Accounted, Facts, ReportsAreReal
<1> DEFINE v == VersionAt(k, p)
           w == VersionAt(k, run.cursor)
<1>3. /\ v \in 0 .. p /\ (v > 0 => log[v].key = k)
      /\ w \in 0 .. run.cursor /\ (w > 0 => log[w].key = k)
      /\ \A u \in 1 .. run.cursor : log[u].key = k => u <= w
  BY <1>0, <1>2, VersionIsLast
<1>4. Held(k, w) /\ Held(k, run.reported[k])
  BY <1>0, <1>1 DEF Accounted
<1>5. InWindow(k)
  BY <1>0 DEF InWindow, Accounted, Covered, FieldTypes
<1> HIDE DEF v, w
<1>6. v <= run.cursor \/ v <= run.reported[k] \/ IsDelete(v)
  <2>1. ~ Owed(k, p) /\ v \in Nat
    BY <1>0, <1>3
  <2> QED BY <1>2, <1>5, <2>1 DEF Owed, v
<1>7. \A N \in Views : N \in SUBSET Notes
  BY <1>0, ViewsAreNotes
<1>8. CASE ~ IsUpsert(v)
  BY <1>8, NothingToHold DEF v
<1>9. CASE v <= run.reported[k]
  <2>1. ASSUME NEW N \in Views PROVE Kept(N, k, v)
    <3>1. Kept(N, k, run.reported[k])
      BY <1>4 DEF Held
    <3>2. v \in Nat /\ run.reported[k] \in Nat /\ run.reported[k] <= Len(log)
      BY <1>2, <1>3
    <3> QED BY <1>0, <1>2, <1>7, <1>9, <3>1, <3>2, KeptBelow
  <2> QED BY <2>1 DEF Held, v
<1>10. CASE IsUpsert(v) /\ v <= run.cursor
  <2>1. v <= w /\ v \in Nat /\ w \in Nat /\ w <= Len(log)
    BY <1>2, <1>3, <1>10 DEF IsUpsert
  <2>2. ASSUME NEW N \in Views PROVE Kept(N, k, v)
    <3>1. Kept(N, k, w)
      BY <1>4 DEF Held
    <3> QED BY <1>0, <1>3, <1>7, <2>1, <3>1, KeptBelow
  <2> QED BY <2>2 DEF Held, v
<1>11. IsDelete(v) => ~ IsUpsert(v)
  BY DEF IsDelete, IsUpsert
<1> QED BY <1>6, <1>8, <1>9, <1>10, <1>11

\* Nor does what a position of the log accounts for change.
LEMMA HeldAtGoesOn ==
  ASSUME IInv, Synced, [Next]_vars, NEW k \in Keys, NEW p \in 0 .. Len(log),
         Held(k, VersionAt(k, p))
  PROVE  Held(k, VersionAt(k, p))'
<1>0. TypeOK
  BY DEF IInv
<1>1. PICK v : v = VersionAt(k, p)
  OBVIOUS
<1>2. VersionAt(k, p)' = v /\ v \in 0 .. Len(log)
  BY <1>0, <1>1, PastStays, VersionIsLast
<1>3. Held(k, v)'
  BY <1>1, <1>2, HeldGoesOn
<1> QED BY <1>2, <1>3 DEF Held, Kept, IsUpsert, DeletedSince

\* A cursor that may be found could be found before, or is of the offer the run
\* committed.
LEMMA MarksFrom ==
  ASSUME IInv, [Next]_vars, NEW c \in Marks'
  PROVE  c \in Marks \/ (run.pc = "cursor" /\ \E o \in session.committed : c = o.cursor)
<1>0. TypeOK /\ StoreTypeOK /\ (Lossy' => Lossy)
  BY FaultsGrow DEF IInv, TypeOK
<1>1. CASE PowerLoss
  <2>1. disk'.cursor \in {disk.cursor, durable.cursor} /\ durable' = disk' /\ Lossy
    BY <1>0, <1>1, PowerEffect, FaultsGrow DEF PowerLoss
  <2> QED BY <2>1 DEF Marks
<1>2. CASE WriteCursor
  <2>1. PICK o \in session.committed : RenameCursor(o.cursor)
    BY <1>2 DEF WriteCursor
  <2>2. o.cursor \in 0 .. MaxVersion /\ durable' = durable /\ run.pc = "cursor"
    BY <1>2 DEF IInv, TypeOK, Sessions, Offers, WriteCursor
  <2>3. disk'.cursor = {o.cursor}
    BY <1>0, <2>1, <2>2, StoreEffects
  <2> QED BY <1>0, <2>2, <2>3 DEF Marks
<1>3. CASE ~ PowerLoss /\ ~ WriteCursor
  <2>1. /\ disk'.cursor \in {disk.cursor, {}}
        /\ durable'.cursor = durable.cursor \/ durable'.cursor = disk.cursor
    BY <1>3, StoreFields
  <2> QED BY <1>0, <2>1 DEF Marks
<1> QED BY <1>1, <1>2, <1>3

\* So the marks stay accounted for.
LEMMA MarksStay ==
  ASSUME IInv, Synced, Accounted, [Next]_vars, NEW c \in Marks'
  PROVE  c \in 0 .. Len(log') /\ \A k \in Covered' : Held(k, VersionAt(k, c))'
<1>0. TypeOK /\ Len(log) \in Nat /\ Len(log') \in Nat /\ Len(log') >= Len(log)
  BY PastStays DEF IInv
<1>1. Covered' = Covered /\ Covered \subseteq Keys
  BY <1>0, FaultsGrow DEF Covered
<1>2. c \in 0 .. Len(log) /\ \A k \in Covered : Held(k, VersionAt(k, c))
  <2>1. CASE c \in Marks
    BY <2>1 DEF Accounted
  <2>2. CASE run.pc = "cursor" /\ \E o \in session.committed : c = o.cursor
    <3>1. PICK o \in session.committed : c = o.cursor
      BY <2>2
    <3>2. o.cursor \in Nat
      BY <1>0 DEF TypeOK, Sessions, Offers
    <3> QED BY <1>0, <2>2, <3>1, <3>2 DEF Accounted
  <2> QED BY <2>1, <2>2, MarksFrom
<1> QED BY <1>0, <1>1, <1>2, HeldAtGoesOn

\* What a run reported is held, as soon as it is no longer being applied.
LEMMA ReportsAreHeld ==
  ASSUME IInv, Durability, Accounted, [Next]_vars, run'.pc # "idle",
         NEW k \in Keys, k \notin run'.key, NEW v, v = run'.reported[k]
  PROVE  Held(k, v)'
<1>0. /\ TypeOK /\ StoreTypeOK /\ Facts /\ Place /\ Synced /\ run \in Runs
      /\ IInv' /\ log \in Seq(Changes)
  BY NextKeeps DEF IInv, TypeOK, UpstreamTypeOK, Durability
<1>1. ASSUME run.pc # "idle", v = run.reported[k], k \notin run.key PROVE Held(k, v)'
  <2>1. v \in 0 .. Len(log) /\ Held(k, v)
    BY <1>0, <1>1 DEF Runs, Facts, ReportsAreReal, Accounted
  <2> QED BY <1>0, <2>1, HeldGoesOn
<1>2. ASSUME ~ IsUpsert(v)' PROVE Held(k, v)'
  BY <1>2 DEF Held, Kept
<1>3. CASE Begin
  <2>1. v = 0
    BY <1>0, <1>3, BeginEffect, FaultsGrow
  <2> QED BY <1>2, <2>1 DEF IsUpsert
<1>4. CASE TakeRepeat \/ TakeDelete \/ TakeUpsert
  <2>1. PICK j \in Keys, d \in {"no_change", "delete", "upsert"} :
          /\ Takes(j, d) /\ run'.reported = [run.reported EXCEPT ![j] = Version(j)]
          /\ d = "upsert" => run'.key = {j}
    BY <1>0, <1>4 DEF TakeRepeat, TakeDelete, TakeUpsert, Reported, Runs
  <2>2. /\ run.pc = "reading" /\ run.key = {} /\ Version(j) \in 1 .. Len(log)
        /\ d = "delete" => IsDelete(Version(j))
        /\ d = "no_change" => run.reported[j] = Version(j)
    BY <1>0, <2>1, TakesEffect
  <2>3. run.reported \in [Keys -> 0 .. MaxVersion]
    BY <1>0 DEF Runs
  <2>4. CASE k # j \/ d = "no_change"
    BY <1>1, <2>1, <2>2, <2>3, <2>4
  <2>5. CASE k = j /\ d = "delete"
    <3>1. v = Version(j) /\ IsDelete(v)
      BY <2>1, <2>2, <2>3, <2>5
    <3>2. log' = log
      BY <1>4 DEF TakeRepeat, TakeDelete, TakeUpsert
    <3> QED BY <1>2, <3>1, <3>2 DEF IsDelete, IsUpsert
  <2> QED BY <2>1, <2>4, <2>5
<1>5. CASE Compare
  <2>0. /\ run.pc = "compare" /\ (Existing = {} => FreshIds # {}) /\ run.pc \in Storing
        /\ run.pc \in Storing \cup Removing
    BY <1>5 DEF Compare, Storing
  <2>1. PICK j \in Keys : run.key = {j} /\ Existing = run.index[j] /\ run.reported[j] \in 1 .. Len(log)
    BY <1>0, <2>0, OneKey
  <2>2. run'.reported = run.reported /\ (run'.key = run.key \/ Existing = {Candidate})
    BY <1>0, <1>5 DEF Compare, Runs
  <2>3. CASE k \notin run.key
    BY <1>1, <2>0, <2>2, <2>3
  <2>4. CASE k \in run.key
    <3>1. k = j /\ run.index[k] = {Candidate} /\ v = run.reported[k] /\ v \in 0 .. Len(log)
      BY <2>1, <2>2, <2>4
    <3>2. Candidate.key = k /\ Candidate.version = v /\ Candidate \in Notes
      BY <1>0, <2>0, <2>1, <3>1, CandidateIsTyped
    <3>3. Candidate \in disk.notes
      BY <1>0, <2>0, <3>1 DEF Place, IndexStands, Untouched
    <3>4. \A N \in Views : Candidate \in N
      BY <1>0, <2>0, <3>3 DEF Synced, Views, Unsynced
    <3>5. Candidate.version >= v
      BY <3>1, <3>2
    <3>6. Held(k, v)
      BY <3>2, <3>4, <3>5 DEF Held, Kept
    <3> QED BY <1>0, <3>1, <3>6, HeldGoesOn
  <2> QED BY <2>3, <2>4
<1>6. CASE SyncNote \/ SyncSuperseded \/ SyncRemoval
  <2>0. /\ run.pc \in {"note_sync", "stale_sync", "unlink_sync"} /\ disk' = disk /\ SyncNotes
        /\ log' = log /\ run.pc \in Storing \cup Removing
    BY <1>6 DEF SyncNote, SyncSuperseded, SyncRemoval, Storing, Installing, Removing
  <2>1. run'.reported = run.reported
    BY <1>0, <1>6 DEF SyncNote, SyncSuperseded, SyncRemoval, Replaced, Go, Runs
  <2>2. CASE k \notin run.key
    BY <1>1, <2>0, <2>1, <2>2
  <2>3. CASE k \in run.key /\ run.pc = "unlink_sync"
    <3>1. IsDelete(v)
      BY <1>0, <2>0, <2>1, <2>3, OneKey DEF Removing
    <3> QED BY <1>2, <2>0, <3>1 DEF IsDelete, IsUpsert
  <2>4. CASE k \in run.key /\ run.pc # "unlink_sync"
    <3>0. run.pc \in Installing /\ run.pc \in Installing \ {"note"}
      BY <2>0, <2>4 DEF Installing
    <3>1. PICK n \in Notes : run.key = {n.key} /\ n.version = run.reported[n.key] /\ n \in disk.notes
      BY <1>0, <3>0, OneNote
    <3>2. n.key = k /\ n.version >= v
      BY <2>1, <2>4, <3>1 DEF Notes
    <3>3. durable'.notes = disk.notes
      BY <1>0, <2>0, StoreEffects
    <3>4. \A M \in Views' : n \in M
      BY <2>0, <3>1, <3>3 DEF Views
    <3> QED BY <3>2, <3>4 DEF Held, Kept
  <2> QED BY <2>2, <2>3, <2>4
<1>7. CASE ~ Begin /\ run'.reported = run.reported /\ run.key \subseteq run'.key
  BY <1>1, <1>7, RunGoesOn
<1> QED BY <1>3, <1>4, <1>5, <1>6, <1>7, RunGoesOn

\* The cursor the run resumed from stays accounted for.
LEMMA ResumedStays ==
  ASSUME IInv, Synced, Accounted, [Next]_vars, run'.pc # "idle"
  PROVE  /\ run'.cursor \in 0 .. Len(log')
         /\ session'.request.windowed => field'.window_supported
         /\ \A k \in Covered' : Held(k, VersionAt(k, run.cursor))'
<1>0. /\ TypeOK /\ run \in Runs /\ Len(log) \in Nat /\ Len(log') \in Nat /\ Len(log') >= Len(log)
      /\ field' = field
  BY PastStays, FaultsGrow DEF IInv, TypeOK
<1>1. Covered' = Covered /\ Covered \subseteq Keys
  BY <1>0 DEF Covered
<1>2. PICK c : c = run'.cursor
  OBVIOUS
<1>3. CASE Begin
  <2>1. c \in {0} \cup disk.cursor /\ (session'.request.windowed => field.window_supported)
    BY <1>0, <1>2, <1>3, BeginEffect
  <2>2. c \in 0 .. Len(log) /\ \A k \in Covered : Held(k, VersionAt(k, c))
    <3>1. CASE c = 0
      <4>1. \A k \in Covered : VersionAt(k, 0) = 0
        BY VersionIsLast
      <4>2. \A k \in Covered : Held(k, 0)
        BY NothingToHold DEF IsUpsert
      <4> QED BY <1>0, <3>1, <4>1, <4>2
    <3>2. CASE c \in disk.cursor
      BY <3>2 DEF Accounted, Marks
    <3> QED BY <2>1, <3>1, <3>2
  <2>3. \A k \in Covered : Held(k, VersionAt(k, c))'
    BY <1>1, <2>2, HeldAtGoesOn
  <2> QED BY <1>0, <1>1, <1>2, <2>1, <2>2, <2>3 DEF Held, Kept, IsUpsert, DeletedSince, VersionAt
<1>4. CASE ~ Begin
  <2>1. run.pc # "idle" /\ c = run.cursor /\ SameRequest(session', session)
    BY <1>2, <1>4, RunGoesOn
  <2>2. c \in 0 .. Len(log) /\ \A k \in Covered : Held(k, VersionAt(k, c))
    BY <1>0, <2>1 DEF Accounted, Runs
  <2>3. \A k \in Covered : Held(k, VersionAt(k, c))'
    BY <1>1, <2>2, HeldAtGoesOn
  <2>4. session'.request.windowed => field.window_supported
    BY <2>1 DEF Accounted, SameRequest
  <2> QED BY <1>0, <1>1, <1>2, <2>2, <2>3, <2>4 DEF Held, Kept, IsUpsert, DeletedSince, VersionAt
<1> QED BY <1>3, <1>4

\* While a cursor is to be written the session stays as it is.
LEMMA CursorWaits ==
  ASSUME [Next]_vars, run.pc = "cursor", run' = run
  PROVE  session' = session
<1>1. UpstreamChanges \/ InstallArtifact \/ SyncArtifact \/ InstallNote \/ RemoveSuperseded
        \/ RemoveNote \/ WriteCursor \/ FinishCursor \/ Sweep \/ RecordWriteFails
        \/ CursorWriteFails \/ ForgetCursor \/ UNCHANGED vars => session' = session
  BY DEF UpstreamChanges, InstallArtifact, SyncArtifact, InstallNote, RemoveSuperseded, RemoveNote,
    WriteCursor, FinishCursor, Sweep, RecordWriteFails, CursorWriteFails, ForgetCursor, vars
<1>2. ~ (Begin \/ TakeRepeat \/ TakeDelete \/ TakeUpsert \/ TakeCheckpoint \/ PartialSnapshot)
  BY DEF Begin, TakeRepeat, TakeDelete, TakeUpsert, Takes, TakeCheckpoint, PartialSnapshot,
    TakesOffer
<1>3. ~ (Compare \/ SyncNote \/ SyncSuperseded \/ SyncRemoval \/ SyncSweep)
  BY DEF Compare, SyncNote, SyncSuperseded, SyncRemoval, SyncSweep
<1>4. ~ (EndOfStream \/ EarlyExit \/ BadFrame \/ ErrorDiagnostic \/ SweepFails)
  BY DEF EndOfStream, EarlyExit, BadFrame, ErrorDiagnostic, SweepFails
<1>5. ~ (Kill \/ PowerLoss)
  BY DEF Kill, PowerLoss, End, Idle
<1> QED BY <1>1, <1>2, <1>3, <1>4, <1>5 DEF Next, Work, Take, Apply, Faults

\* An offer is only committed over what is held.
LEMMA OffersAreHeld ==
  ASSUME IInv, Synced, Accounted, [Next]_vars, run'.pc = "cursor", NEW o \in session'.committed
  PROVE  o.cursor <= Len(log') /\ \A k \in Covered' : Held(k, VersionAt(k, o.cursor))'
<1>0. /\ TypeOK /\ session \in Sessions /\ Len(log) \in Nat /\ Len(log') \in Nat
      /\ Len(log') >= Len(log) /\ field' = field
  BY PastStays, FaultsGrow DEF IInv, TypeOK
<1>1. Covered' = Covered /\ Covered \subseteq Keys
  BY <1>0 DEF Covered
<1>2. PICK c : c = o.cursor
  OBVIOUS
<1>3. c \in 0 .. Len(log) /\ \A k \in Covered : Held(k, VersionAt(k, c))
  <2>1. CASE run' = run
    <3>1. o \in session.committed /\ run.pc = "cursor"
      BY <2>1, CursorWaits
    <3> QED BY <1>0, <1>2, <3>1 DEF Accounted, Sessions, Offers
  <2>2. CASE TakeCheckpoint \/ PartialSnapshot
    <3>1. PICK p \in 0 .. Len(log), final \in BOOLEAN, state \in {"complete", "partial"} :
            TakesOffer(CheckpointAt(p, final, state))
      BY <2>2 DEF TakeCheckpoint, PartialSnapshot
    <3>2. run.pc = "reading" /\ c = p /\ \A k \in Keys : ~ Owed(k, p)
      BY <1>0, <1>2, <3>1, OfferEffect
    <3> QED BY <3>2, OfferIsHeld
  <2> QED BY <2>1, <2>2, PlacesFrom
<1>4. \A k \in Covered : Held(k, VersionAt(k, c))'
  BY <1>1, <1>3, HeldAtGoesOn
<1> QED BY <1>0, <1>1, <1>2, <1>3, <1>4

LEMMA AccountedStays ==
  ASSUME IInv, Durability, Accounted, [Next]_vars
  PROVE  Accounted'
<1>0. Synced /\ IInv' /\ run' \in Runs
  BY NextKeeps DEF Durability, IInv, TypeOK
<1>1. (Marks \subseteq 0 .. Len(log) /\ \A k \in Covered, c \in Marks : Held(k, VersionAt(k, c)))'
  BY <1>0, MarksStay
<1>2. ASSUME run'.pc # "idle"
      PROVE  /\ run'.cursor <= Len(log')
             /\ session'.request.windowed => field'.window_supported
             /\ \A k \in Covered' : Held(k, VersionAt(k, run.cursor))'
  BY <1>0, <1>2, ResumedStays
<1>3. ASSUME run'.pc # "idle", NEW k \in Keys \ run'.key PROVE Held(k, run.reported[k])'
  <2>1. PICK v : v = run'.reported[k]
    OBVIOUS
  <2>2. Held(k, v)'
    BY <1>3, <2>1, ReportsAreHeld
  <2> QED BY <2>1, <2>2 DEF Held, Kept, IsUpsert, DeletedSince
<1>4. ASSUME run'.pc = "cursor", NEW o \in session'.committed
      PROVE  o.cursor <= Len(log') /\ \A k \in Covered' : Held(k, VersionAt(k, o.cursor))'
  BY <1>0, <1>4, OffersAreHeld
<1> QED BY <1>1, <1>2, <1>3, <1>4 DEF Accounted

LEMMA AccountedBegins == Init => Accounted
<1>1. ASSUME Init PROVE disk = EmptyNotebook /\ durable = EmptyNotebook /\ run.pc = "idle"
  BY <1>1 DEF Init, StoreInit, Idle
<1> QED BY <1>1 DEF EmptyNotebook, Accounted, Marks

LEMMA AccountsHold ==
  ASSUME PowerComesAlone
  PROVE  Spec => [](IInv /\ Durability /\ Accounted)
<1>1. Init => IInv /\ Durability /\ Accounted
  BY InitKeeps, DurabilityBegins, AccountedBegins
<1>2. IInv /\ Durability /\ Accounted /\ [Next]_vars => (IInv /\ Durability /\ Accounted)'
  BY NextKeeps, DurabilityStays, AccountedStays
<1> QED BY <1>1, <1>2, PTL DEF Spec

\* The cursor cannot lead: whatever was killed and failed in between, or whatever
\* power was lost, every object the stored cursor accounts for has a Note at
\* least as new, unless it was deleted upstream since.
THEOREM CursorNeverLeadsAlways ==
  ASSUME PowerComesAlone
  PROVE  Spec => []CursorNeverLeads
<1>1. IInv /\ Durability /\ Accounted => CursorNeverLeads
  <2> SUFFICES ASSUME IInv, Accounted, NEW c \in disk.cursor, NEW k \in Covered, NEW v,
                      v = VersionAt(k, c), IsUpsert(v)
               PROVE  \/ \E n \in NotesOf(disk.notes, k) : n.version >= v
                      \/ DeletedSince(k, v)
    BY DEF CursorNeverLeads
  <2>1. Held(k, v) /\ disk.notes \in Views
    BY DEF Accounted, Marks, Views
  <2> QED BY <2>1 DEF Held, Kept, NotesOf
<1> QED BY <1>1, AccountsHold, PTL

-----------------------------------------------------------------------------
(* One Note of each object *)

\* Nothing interrupts a Field whose objects change their event time, and with it
\* the name of their Note.
TimesStand ==
  \A f \in Fields : \/ f.faults \cap {"kill", "io", "power"} = {}
                    \/ \A t, u \in Times \cap (f.times \cup {0}) : t = u

OneTime == \A t, u \in Times \cap (field.times \cup {0}) : t = u

\* The Notes that count: to be found, indexed or about to be installed.
Found ==
  {n \in Notes : n \in run.note \/ (\E N \in Views : n \in N) \/ (\E k \in Keys : n \in run.index[k])}

TimesAreOwn ==
  /\ \A n \in Found : n.time \in field.times \cup {0}
  /\ \A v \in 1 .. Len(log) : IsUpsert(v) => log[v].time \in field.times \cup {0}

\* An object has one Note ID.
SameIds == \A m, n \in Found : m.key = n.key => m.id = n.id

\* A name has one file.
UniqueNames == \A N \in Views : \A m, n \in N : Filename(m) = Filename(n) => m = n

OneEach(N) == \A m, n \in N : m.key = n.key => m = n

\* The index has every Note there is, but for the record being applied.
Indexed ==
  /\ run.pc \in Untouched => \A k \in Keys : NotesOf(disk.notes, k) \subseteq run.index[k]
  /\ run.pc \in Touched => \A k \in Keys \ run.key : NotesOf(disk.notes, k) \subseteq run.index[k]
  /\ run.pc \in {"note_sync", "stale"} =>
       \A k \in run.key : NotesOf(disk.notes, k) \subseteq run.index[k] \cup run.note
  /\ run.pc = "stale_sync" => \A k \in run.key : NotesOf(disk.notes, k) \subseteq run.note
  /\ run.pc = "unlink_sync" => \A k \in run.key : NotesOf(disk.notes, k) = {}

OneIndexed == \A k \in Keys : \A m, n \in run.index[k] : m = n

\* Where no record is being read or applied.
AtRest == run.pc \in {"idle", "draining"} \cup Sweeping => OneEach(disk.notes)

Exact == Indexed /\ OneIndexed /\ AtRest

Single == TimesAreOwn /\ SameIds /\ UniqueNames /\ Exact

\* Where the run's memory comes from.
LEMMA MemoryFrom ==
  ASSUME IInv, [Next]_vars
  PROVE  /\ \A k \in Keys : run'.index[k] \subseteq run.index[k] \cup run.note \cup disk.notes
         /\ run'.note \subseteq run.note \/ (Compare /\ run'.note = {Candidate})
<1>0. /\ run \in Runs /\ TypeOK /\ Place /\ field' = field /\ run.index \in [Keys -> SUBSET Notes]
  BY FaultsGrow DEF IInv, TypeOK, Runs
<1> DEFINE Same == run'.index = run.index /\ run'.note = run.note
<1>1. CASE UpstreamChanges \/ ForgetCursor \/ UNCHANGED vars
  BY <1>1 DEF UpstreamChanges, ForgetCursor, vars
<1>2. CASE Begin
  <2>1. run'.index = Index(disk.notes) /\ run'.note = {}
    BY <1>0, <1>2, BeginEffect
  <2> QED BY <2>1 DEF Index, NotesOf
<1>3. CASE TakeRepeat \/ TakeDelete \/ TakeUpsert
  <2>1. Same
    BY <1>0, <1>3 DEF TakeRepeat, TakeDelete, TakeUpsert, Reported, Runs
  <2> QED BY <2>1
<1>4. CASE \/ InstallArtifact \/ SyncArtifact \/ InstallNote \/ RemoveSuperseded \/ RemoveNote
           \/ WriteCursor \/ FinishCursor
  <2>1. Same
    BY <1>0, <1>4 DEF InstallArtifact, SyncArtifact, InstallNote, RemoveSuperseded, RemoveNote,
      WriteCursor, FinishCursor, Go, Runs
  <2> QED BY <2>1
<1>5. CASE RecordWriteFails \/ CursorWriteFails \/ BadFrame \/ ErrorDiagnostic
  <2>1. Same
    BY <1>0, <1>5 DEF RecordWriteFails, CursorWriteFails, BadFrame, ErrorDiagnostic, Go, Runs
  <2> QED BY <2>1
<1>6. CASE TakeCheckpoint \/ PartialSnapshot
  <2>1. PICK p \in 0 .. Len(log), final \in BOOLEAN, state \in {"complete", "partial"} :
          TakesOffer(CheckpointAt(p, final, state))
    BY <1>6 DEF TakeCheckpoint, PartialSnapshot
  <2> QED BY <1>0, <2>1, OfferEffect
<1>7. CASE Compare
  <2>1. run'.index = run.index /\ (run'.note = run.note \/ run'.note = {Candidate})
    BY <1>0, <1>7 DEF Compare, Runs
  <2> QED BY <1>7, <2>1
<1>8. CASE SyncNote \/ SyncSuperseded
  <2>1. CASE Replaced
    <3>1. run'.note = {} /\ run'.index = [run.index EXCEPT ![Key] = run.note]
      BY <1>0, <2>1 DEF Replaced, Runs
    <3> QED BY <1>0, <3>1
  <2>2. CASE ~ Replaced
    <3>1. Same
      BY <1>0, <1>8, <2>2 DEF SyncNote, SyncSuperseded, Go, Runs
    <3> QED BY <3>1
  <2> QED BY <2>1, <2>2
<1>9. CASE SyncRemoval
  <2>1. run' = [run EXCEPT !.pc = "reading", !.index[Key] = {}, !.key = {}]
    BY <1>9 DEF SyncRemoval
  <2> QED BY <1>0, <2>1 DEF Runs
<1>10. End => run'.note = {} /\ \A k \in Keys : run'.index[k] = {}
  BY DEF End, Idle
<1>11. CASE EndOfStream \/ EarlyExit \/ Sweep \/ SyncSweep
  <2>1. \A exit : Finish(exit) => End \/ Same
    BY <1>0 DEF Finish, Runs
  <2>2. Sweep \/ SyncSweep => End \/ Same
    BY <1>0 DEF Sweep, SyncSweep, Go, Runs
  <2> QED BY <1>10, <1>11, <2>1, <2>2 DEF EndOfStream, EarlyExit
<1>12. CASE SweepFails \/ Kill \/ PowerLoss
  BY <1>10, <1>12 DEF SweepFails, Kill, PowerLoss
<1> QED BY <1>1, <1>2, <1>3, <1>4, <1>5, <1>6, <1>7, <1>8, <1>9, <1>11, <1>12
        DEF Next, Work, Take, Apply, Faults

\* What a step does to the names that are visible.
LEMMA NotesTouched ==
  ASSUME IInv, [Next]_vars, ~ PowerLoss
  PROVE  \/ disk'.notes \subseteq disk.notes
         \/ \E n \in run.note : /\ run.pc = "note"
              /\ disk'.notes = (disk.notes \ Named(disk.notes, Filename(n))) \cup {n}
<1>0. StoreTypeOK
  BY DEF IInv, TypeOK
<1>1. CASE InstallNote
  <2>1. run.pc \in Installing /\ run.pc = "note"
    BY <1>1 DEF InstallNote, Installing
  <2>2. PICK n \in Notes : run.note = {n}
    BY <2>1, OneNote
  <2> QED BY <1>0, <1>1, <2>1, <2>2, StoreEffects DEF InstallNote
<1>2. CASE RemoveSuperseded \/ RemoveNote \/ Sweep
  <2>1. PICK name : UnlinkNote(name)
    BY <1>2 DEF RemoveSuperseded, RemoveNote, Sweep
  <2> QED BY <1>0, <2>1, StoreEffects
<1> QED BY <1>1, <1>2, NotesChangeIn

LEMMA FoundIs ==
  ASSUME TypeOK
  PROVE  /\ Found \subseteq Notes /\ run.note \subseteq Found /\ disk.notes \subseteq Found
         /\ \A N \in Views : N \subseteq Found
         /\ \A k \in Keys : run.index[k] \subseteq Found
<1>1. disk.notes \in Views /\ (\A N \in Views : N \in SUBSET Notes) /\ run \in Runs
  BY ViewsAreNotes DEF TypeOK
<1> QED BY <1>1 DEF Found, Runs

\* So no Note comes to be found but the one that is projected.
LEMMA FoundFrom ==
  ASSUME IInv, Synced, [Next]_vars
  PROVE  /\ Found' \subseteq Found \cup run'.note
         /\ disk'.notes \subseteq Found
         /\ Found' \subseteq Found \/ (Compare /\ Found' \subseteq Found \cup {Candidate})
<1>1. /\ run.note \subseteq Found /\ disk.notes \subseteq Found /\ \A N \in Views : N \subseteq Found
      /\ \A k \in Keys : run.index[k] \subseteq Found
  BY FoundIs DEF IInv
<1>2. disk'.notes \subseteq Found
  <2>1. CASE PowerLoss
    <3>1. disk'.notes \in Views'
      BY DEF Views
    <3>2. disk'.notes \in Views
      BY <2>1, <3>1, ViewsFrom
    <3> QED BY <1>1, <3>2
  <2>2. CASE ~ PowerLoss
    BY <1>1, <2>2, NotesTouched
  <2> QED BY <2>1, <2>2
<1>3. ASSUME NEW M \in Views' PROVE M \subseteq Found
  <2>1. M \in Views \/ M = disk'.notes
    BY ViewsFrom
  <2> QED BY <1>1, <1>2, <2>1
<1>4. \A k \in Keys : run'.index[k] \subseteq Found
  BY <1>1, MemoryFrom
<1>5. Found' \subseteq Found \cup run'.note
  BY <1>3, <1>4 DEF Found
<1> QED BY <1>1, <1>2, <1>5, MemoryFrom

\* One event time, one ID, one name: one Note.
LEMMA OneTimeOneNote ==
  ASSUME TypeOK, TimesAreOwn, SameIds, UniqueNames, OneTime, NEW N \in Views
  PROVE  OneEach(N)
<1> SUFFICES ASSUME NEW m \in N, NEW n \in N, m.key = n.key PROVE m = n
  BY DEF OneEach
<1>1. m \in Found /\ n \in Found /\ m \in Notes /\ n \in Notes
  BY FoundIs
<1>2. m.id = n.id
  BY <1>1 DEF SameIds
<1>3. m.time = n.time
  BY <1>1 DEF TimesAreOwn, OneTime, Notes
<1> QED BY <1>2, <1>3 DEF UniqueNames, Filename

\* What interrupts a run meets only objects that keep their event time.
LEMMA InterruptedInTime ==
  ASSUME TypeOK, TimesStand,
         RecordWriteFails \/ CursorWriteFails \/ SweepFails \/ Kill \/ PowerLoss
  PROVE  OneTime
<1>1. PICK kind \in {"io", "kill", "power"} : Fault(kind)
  BY DEF RecordWriteFails, CursorWriteFails, SweepFails, Kill, PowerLoss
<1>2. kind \in field.faults /\ field \in Fields
  BY <1>1 DEF Fault, TypeOK
<1> QED BY <1>2 DEF TimesStand, OneTime

\* Times are the upstream's.
LEMMA TimesStay ==
  ASSUME IInv, Synced, TimesAreOwn, [Next]_vars
  PROVE  TimesAreOwn'
<1>0. TypeOK /\ field' = field /\ Len(log) \in Nat /\ log \in Seq(Changes)
  BY FaultsGrow, PastStays DEF IInv
<1>1. ASSUME Compare PROVE Candidate.time \in field.times \cup {0}
  <2>1. /\ (Existing = {} => FreshIds # {}) /\ run.pc \in Storing
        /\ run.pc \in Storing \cup Removing
    BY <1>1 DEF Compare, Storing
  <2>2. PICK k \in Keys : /\ run.key = {k} /\ run.reported[k] \in 1 .. Len(log)
                          /\ IsUpsert(run.reported[k])
    BY <2>1, OneKey
  <2>3. Candidate.time = log[run.reported[k]].time
    BY <2>1, <2>2, CandidateIsTyped
  <2> QED BY <2>2, <2>3 DEF TimesAreOwn
<1>2. \A n \in Found' : n.time \in field.times \cup {0}
  BY <1>1, FoundFrom DEF TimesAreOwn
<1>3. CASE UpstreamChanges
  <2>1. PICK c \in Changes : log' = Append(log, c) /\ c.time \in field.times \cup {0}
    BY <1>0, <1>3, ChangeOfLog
  <2>2. \A v \in 1 .. Len(log') : v \in 1 .. Len(log) \/ log'[v] = c
    BY <1>0, <2>1
  <2>3. \A v \in 1 .. Len(log) : log'[v] = log[v]
    BY <1>0, <2>1
  <2> QED BY <1>0, <1>2, <2>1, <2>2, <2>3 DEF TimesAreOwn, IsUpsert
<1>4. CASE UNCHANGED log
  BY <1>0, <1>2, <1>4 DEF TimesAreOwn, IsUpsert
<1> QED BY <1>3, <1>4, LogChanges

\* A projection draws an ID only where its object has none.
LEMMA CandidateKeepsId ==
  ASSUME IInv, Synced, SameIds, Exact, Compare, NEW m \in Found, m.key = Candidate.key
  PROVE  m.id = Candidate.id
<1>0. /\ TypeOK /\ Place /\ Facts /\ run.pc = "compare" /\ (Existing = {} => FreshIds # {})
      /\ run.pc \in Storing /\ run.pc \in Storing \cup Removing /\ run.pc \in Untouched
  BY DEF IInv, Compare, Storing, Untouched
<1>1. PICK k \in Keys : run.key = {k}
  BY <1>0, OneKey
<1>2. /\ Candidate.key = k
      /\ run.index[k] # {} => \E n \in run.index[k] : Candidate.id = n.id
  BY <1>0, <1>1, CandidateIsTyped
<1>3. CASE run.index[k] # {}
  <2>1. PICK n \in run.index[k] : Candidate.id = n.id
    BY <1>2, <1>3
  <2>2. n \in Found /\ n.key = k
    BY <1>0, <2>1, FoundIs DEF Facts, IndexIsOwn
  <2> QED BY <1>2, <2>1, <2>2 DEF SameIds
<1>4. CASE run.index[k] = {}
  <2>1. run.note = {}
    BY <1>0, <1>1, CandidateIsOwn
  <2>2. NotesOf(disk.notes, k) = {}
    BY <1>0, <1>4 DEF Exact, Indexed
  <2>3. \A N \in Views : N = disk.notes
    BY <1>0 DEF Views, Synced, Unsynced
  <2>4. \E j \in Keys : m \in run.index[j]
    BY <1>2, <2>1, <2>2, <2>3 DEF Found, NotesOf
  <2> QED BY <1>0, <1>2, <1>4, <2>4 DEF Facts, IndexIsOwn
<1> QED BY <1>3, <1>4

LEMMA SameIdsStay ==
  ASSUME IInv, Synced, SameIds, Exact, [Next]_vars
  PROVE  SameIds'
<1>1. CASE Found' \subseteq Found
  BY <1>1 DEF SameIds
<1>2. CASE Compare /\ Found' \subseteq Found \cup {Candidate}
  <2>1. \A m \in Found : m.key = Candidate.key => m.id = Candidate.id
    BY <1>2, CandidateKeepsId
  <2> QED BY <1>2, <2>1 DEF SameIds
<1> QED BY <1>1, <1>2, FoundFrom

LEMMA UniqueNamesStay ==
  ASSUME IInv, Synced, UniqueNames, [Next]_vars
  PROVE  UniqueNames'
<1>1. ASSUME ~ PowerLoss, NEW m \in disk'.notes, NEW n \in disk'.notes, Filename(m) = Filename(n)
      PROVE  m = n
  <2>1. \A x, y \in disk.notes : Filename(x) = Filename(y) => x = y
    BY DEF UniqueNames, Views
  <2>2. CASE disk'.notes \subseteq disk.notes
    BY <1>1, <2>1, <2>2
  <2>3. ASSUME NEW l, disk'.notes = (disk.notes \ Named(disk.notes, Filename(l))) \cup {l}
        PROVE  m = n
    BY <1>1, <2>1, <2>3 DEF Named
  <2> QED BY <1>1, <2>2, <2>3, NotesTouched
<1>2. ASSUME NEW M \in Views', NEW m \in M, NEW n \in M, Filename(m) = Filename(n)
      PROVE  m = n
  <2>1. M \in Views \/ (~ PowerLoss /\ M = disk'.notes)
    BY ViewsFrom
  <2> QED BY <1>1, <1>2, <2>1 DEF UniqueNames
<1> QED BY <1>2 DEF UniqueNames, Filename

Rest == {"idle", "draining"} \cup Sweeping

\* An index of one Note each that misses none leaves no two.
LEMMA IndexedIsOneEach ==
  ASSUME TypeOK, Exact, run.pc \in Untouched \cup Rest
  PROVE  OneEach(disk.notes)
<1>1. CASE run.pc \in Rest
  BY <1>1 DEF Exact, AtRest, Rest
<1>2. CASE run.pc \in Untouched
  <2> SUFFICES ASSUME NEW m \in disk.notes, NEW n \in disk.notes, m.key = n.key PROVE m = n
    BY DEF OneEach
  <2>1. n.key \in Keys
    BY DEF TypeOK, StoreTypeOK, Directories, Notes
  <2>2. m \in run.index[n.key] /\ n \in run.index[n.key]
    BY <1>2, <2>1 DEF Exact, Indexed, NotesOf
  <2> QED BY <2>1, <2>2 DEF Exact, OneIndexed
<1> QED BY <1>1, <1>2

\* Steps that leave the Notes and the index alone.
LEMMA ExactGoesOn ==
  ASSUME TypeOK, Exact, disk'.notes = disk.notes, run'.index = run.index,
         run'.pc \in Untouched => run.pc \in Untouched,
         run'.pc \in Touched =>
           /\ run'.key = run.key /\ run'.note = run.note
           /\ run'.pc = run.pc \/ (run.pc = "note_sync" /\ run'.pc = "stale"),
         run'.pc \in Rest => run.pc \in Untouched \cup Rest \/ OneEach(disk.notes)
  PROVE  Exact'
<1>1. Indexed'
  BY DEF Exact, Indexed, NotesOf, Untouched, Touched, Between
<1>2. OneIndexed'
  BY DEF Exact, OneIndexed
<1>3. AtRest'
  <2> SUFFICES ASSUME run'.pc \in Rest PROVE OneEach(disk.notes)
    BY DEF AtRest, Rest, OneEach, Sweeping
  <2> QED BY IndexedIsOneEach
<1> QED BY <1>1, <1>2, <1>3 DEF Exact

LEMMA ExactEnds ==
  ASSUME End, OneEach(disk'.notes)
  PROVE  Exact'
<1>1. run'.pc = "idle" /\ \A k \in Keys : run'.index[k] = {}
  BY DEF End, Idle
<1> QED BY <1>1 DEF Exact, Indexed, OneIndexed, AtRest, OneEach, Untouched, Touched, Between

\* The steps of a run that leave the Notes and the index alone.
LEMMA QuietStepsAreExact ==
  ASSUME IInv, Exact, UNCHANGED field,
         \/ UpstreamChanges \/ ForgetCursor \/ UNCHANGED vars
         \/ TakeRepeat \/ TakeDelete \/ TakeUpsert \/ TakeCheckpoint \/ PartialSnapshot
         \/ InstallArtifact \/ SyncArtifact \/ Compare \/ WriteCursor \/ FinishCursor
         \/ CursorWriteFails \/ BadFrame \/ ErrorDiagnostic,
         disk'.notes = disk.notes
  PROVE  Exact'
<1>0. TypeOK /\ run \in Runs
  BY DEF IInv, TypeOK
<1>1. CASE UpstreamChanges \/ ForgetCursor \/ UNCHANGED vars
  <2>1. run' = run
    BY <1>1 DEF UpstreamChanges, ForgetCursor, vars
  <2> QED BY <1>0, <2>1, ExactGoesOn
<1> DEFINE From == run.pc \in Untouched /\ run'.index = run.index
<1>a. ASSUME From, run'.pc \in Untouched \cup {"draining"} PROVE Exact'
  <2>1. run'.pc \notin Touched
    BY <1>a DEF Untouched, Touched, Between
  <2> QED BY <1>0, <1>a, <2>1, ExactGoesOn
<1>2. CASE TakeRepeat \/ TakeDelete \/ TakeUpsert
  <2>1. From
    BY <1>0, <1>2 DEF TakeRepeat, TakeDelete, TakeUpsert, Takes, Reported, Runs, Untouched, Between
  <2>2. run'.pc \in Untouched \cup {"draining"}
    BY <1>0, <1>2 DEF TakeRepeat, TakeDelete, TakeUpsert, Takes, Reported, Runs, Untouched, Between
  <2> QED BY <1>a, <2>1, <2>2
<1>3. CASE TakeCheckpoint \/ PartialSnapshot
  <2>1. PICK p \in 0 .. Len(log), final \in BOOLEAN, state \in {"complete", "partial"} :
          TakesOffer(CheckpointAt(p, final, state))
    BY <1>3 DEF TakeCheckpoint, PartialSnapshot
  <2>2. From /\ run'.pc \in {"reading", "cursor"}
    BY <1>0, <2>1, OfferEffect DEF Untouched, Between
  <2> QED BY <1>a, <2>2 DEF Untouched, Between
<1>4. CASE InstallArtifact \/ SyncArtifact \/ Compare \/ WriteCursor \/ FinishCursor
  <2>1. From
    BY <1>0, <1>4 DEF InstallArtifact, SyncArtifact, Compare, WriteCursor, FinishCursor, Go, Runs,
      Untouched, Between
  <2>2. run'.pc \in Untouched
    BY <1>0, <1>4 DEF InstallArtifact, SyncArtifact, Compare, WriteCursor, FinishCursor, Go, Runs,
      Untouched, Between
  <2> QED BY <1>a, <2>1, <2>2
<1>5. CASE CursorWriteFails \/ BadFrame \/ ErrorDiagnostic
  <2>1. From /\ run'.pc \in {"reading", "draining"}
    BY <1>0, <1>5 DEF CursorWriteFails, BadFrame, ErrorDiagnostic, Go, Runs, Untouched, Between
  <2> QED BY <1>a, <2>1 DEF Untouched, Between
<1> QED BY <1>1, <1>2, <1>3, <1>4, <1>5

\* However a run ends, or stops on a failed write.
LEMMA EndsAreExact ==
  ASSUME IInv, Synced, Single, TimesStand, [Next]_vars,
         \/ EndOfStream \/ EarlyExit \/ Sweep \/ SyncSweep
         \/ RecordWriteFails \/ SweepFails \/ Kill \/ PowerLoss
  PROVE  Exact'
<1>0. /\ TypeOK /\ StoreTypeOK /\ run \in Runs /\ Exact
      /\ disk.notes \in Views
  BY ViewsAreNotes DEF IInv, TypeOK, Single
<1>1. RecordWriteFails \/ SweepFails \/ Kill \/ PowerLoss => \A N \in Views : OneEach(N)
  BY <1>0, InterruptedInTime, OneTimeOneNote DEF Single
<1>2. CASE PowerLoss
  <2>1. disk'.notes \in Views'
    BY DEF Views
  <2>2. OneEach(disk'.notes)
    BY <1>1, <1>2, <2>1, ViewsFrom
  <2> QED BY <1>2, <2>2, ExactEnds DEF PowerLoss
<1>3. CASE Kill \/ SweepFails
  <2>1. OneEach(disk'.notes)
    BY <1>0, <1>1, <1>3 DEF Kill, SweepFails
  <2> QED BY <1>3, <2>1, ExactEnds DEF Kill, SweepFails
<1>4. CASE RecordWriteFails
  <2>1. OneEach(disk.notes) /\ disk' = disk
    BY <1>0, <1>1, <1>4 DEF RecordWriteFails
  <2>2. run'.pc = "draining" /\ run'.index = run.index
    BY <1>0, <1>4 DEF RecordWriteFails, Runs
  <2> QED BY <1>0, <2>1, <2>2, ExactGoesOn DEF Untouched, Touched, Between
<1>5. ASSUME run.pc \in Untouched \cup Rest, disk' = disk,
             End \/ (run'.pc \in Sweeping /\ run'.index = run.index)
      PROVE  Exact'
  <2>1. OneEach(disk.notes)
    BY <1>0, <1>5, IndexedIsOneEach
  <2>2. CASE End
    BY <1>5, <2>1, <2>2, ExactEnds
  <2>3. CASE run'.pc \in Sweeping /\ run'.index = run.index
    BY <1>0, <1>5, <2>1, <2>3, ExactGoesOn DEF Untouched, Touched, Between, Sweeping
  <2> QED BY <1>5, <2>2, <2>3
<1>6. CASE EndOfStream \/ EarlyExit
  <2>1. \A exit : Finish(exit) => End \/ (run'.pc \in Sweeping /\ run'.index = run.index)
    BY <1>0 DEF Finish, Runs, Sweeping
  <2>2. run.pc \in {"reading", "draining"} /\ disk' = disk
    BY <1>6 DEF EndOfStream, EarlyExit
  <2>3. End \/ (run'.pc \in Sweeping /\ run'.index = run.index)
    BY <1>6, <2>1 DEF EndOfStream, EarlyExit
  <2> QED BY <1>5, <2>2, <2>3 DEF Untouched, Between, Rest
<1>7. CASE SyncSweep
  <2>1. run.pc \in Sweeping /\ disk' = disk
    BY <1>7 DEF SyncSweep, Sweeping
  <2>2. End \/ (run'.pc \in Sweeping /\ run'.index = run.index)
    BY <1>0, <1>7 DEF SyncSweep, Go, Runs, Sweeping
  <2> QED BY <1>5, <2>1, <2>2 DEF Rest
<1>8. CASE Sweep
  <2>1. OneEach(disk.notes)
    BY <1>0, <1>8, IndexedIsOneEach DEF Sweep, Rest, Sweeping
  <2>2. PICK name : UnlinkNote(name)
    BY <1>8 DEF Sweep
  <2>3. disk'.notes \subseteq disk.notes
    BY <1>0, <2>2, StoreEffects
  <2>4. run'.pc = "sweep_sync" /\ run'.index = run.index
    BY <1>0, <1>8 DEF Sweep, Runs
  <2> QED BY <1>0, <2>1, <2>3, <2>4
          DEF Exact, Indexed, OneIndexed, AtRest, OneEach, Untouched, Touched, Between
<1> QED BY <1>2, <1>3, <1>4, <1>6, <1>7, <1>8

\* A run indexes what it finds.
LEMMA BeginIsExact ==
  ASSUME IInv, Exact, Begin, UNCHANGED field
  PROVE  Exact'
<1>0. TypeOK /\ disk.notes \in SUBSET Notes /\ Times \subseteq Nat
  BY UpstreamAssumption DEF IInv, TypeOK, StoreTypeOK, Directories
<1>1. /\ run'.pc = "reading" /\ run'.index = Index(disk.notes) /\ disk' = disk /\ run.pc = "idle"
  BY <1>0, BeginEffect
<1>2. OneEach(disk.notes)
  BY <1>0, <1>1, IndexedIsOneEach DEF Rest
<1>3. ASSUME NEW k \in Keys PROVE run'.index[k] = NotesOf(disk.notes, k)
  <2>1. \A m, n \in NotesOf(disk.notes, k) : m = n
    BY <1>2 DEF OneEach, NotesOf
  <2>2. ASSUME NEW n \in NotesOf(disk.notes, k) PROVE ~ SortsAfter(n, n)
    <3>1. n \in Notes
      BY <1>0 DEF NotesOf
    <3>2. n.time \in Times /\ n.id \in 1 .. MaxNoteIds
      BY <3>1 DEF Notes
    <3>3. n.time \in Nat
      BY <3>2, UpstreamAssumption
    <3>4. n.id \in Nat
      BY <3>2
    <3> QED BY <3>3, <3>4 DEF SortsAfter
  <2>3. \A m, n \in NotesOf(disk.notes, k) : ~ SortsAfter(m, n)
    BY <2>1, <2>2
  <2>4. Index(disk.notes)[k] =
          {n \in NotesOf(disk.notes, k) : \A m \in NotesOf(disk.notes, k) : ~ SortsAfter(m, n)}
    BY DEF Index
  <2>5. Index(disk.notes)[k] = NotesOf(disk.notes, k)
    BY <2>3, <2>4
  <2> QED BY <1>1, <2>5
<1>4. \A k \in Keys : \A m, n \in run'.index[k] : m = n
  BY <1>2, <1>3 DEF OneEach, NotesOf
<1>5. Indexed'
  BY <1>1, <1>3 DEF Indexed, Touched, NotesOf
<1> QED BY <1>1, <1>4, <1>5 DEF Exact, OneIndexed, AtRest, Sweeping

\* A Note takes its place beside the one it replaces.
LEMMA InstallNoteIsExact ==
  ASSUME IInv, Exact, InstallNote
  PROVE  Exact'
<1>0. StoreTypeOK /\ run \in Runs /\ run.pc = "note" /\ run.pc \in Installing
  BY DEF IInv, TypeOK, InstallNote, Installing
<1>1. PICK n \in Notes : run.note = {n} /\ run.key = {n.key}
  BY <1>0, OneNote
<1>2. disk'.notes = (disk.notes \ Named(disk.notes, Filename(n))) \cup {n}
  BY <1>0, <1>1, StoreEffects DEF InstallNote
<1>3. /\ run'.pc = "note_sync" /\ run'.index = run.index /\ run'.key = run.key
      /\ run'.note = run.note
  BY <1>0 DEF InstallNote, Go, Runs
<1>4. \A k \in Keys : NotesOf(disk.notes, k) \subseteq run.index[k]
  BY <1>0 DEF Exact, Indexed, Untouched
<1>5. \A k \in Keys \ run.key : NotesOf(disk'.notes, k) \subseteq run.index[k]
  BY <1>1, <1>2, <1>4 DEF NotesOf
<1>6. \A k \in run.key : NotesOf(disk'.notes, k) \subseteq run.index[k] \cup run.note
  <2>1. n.key \in Keys
    BY DEF Notes
  <2> QED BY <1>1, <1>2, <1>4, <2>1 DEF NotesOf
<1>7. Indexed'
  BY <1>3, <1>5, <1>6 DEF Indexed, Untouched, Between, NotesOf
<1> QED BY <1>3, <1>7 DEF Exact, OneIndexed, AtRest, Sweeping

\* The replaced name is gone, or was the same.
LEMMA ReplacedIsExact ==
  ASSUME IInv, UniqueNames, Exact, SyncNote \/ SyncSuperseded
  PROVE  Exact'
<1>0. /\ TypeOK /\ run \in Runs /\ run.pc \in {"note_sync", "stale_sync"} /\ run.pc \in Installing
      /\ disk' = disk /\ run.pc \in Installing \ {"note"} /\ Facts /\ disk.notes \in Views
  BY ViewsAreNotes DEF IInv, TypeOK, SyncNote, SyncSuperseded, Installing
<1>1. PICK n \in Notes : /\ run.note = {n} /\ run.key = {n.key} /\ Key = n.key
                         /\ Existing = run.index[n.key] /\ n \in disk.notes
  BY <1>0, OneNote
<1>2. n.key \in Keys
  BY DEF Notes
<1>3. CASE Replaced
  <2>1. NotesOf(disk.notes, n.key) \subseteq {n}
    <3>1. CASE run.pc = "stale_sync"
      BY <1>1, <3>1 DEF Exact, Indexed
    <3>2. CASE run.pc = "note_sync"
      <4>1. Superseded = {}
        BY <1>0, <1>3, <3>2 DEF SyncNote, SyncSuperseded, Go, Replaced, Runs
      <4> SUFFICES ASSUME NEW m \in NotesOf(disk.notes, n.key), m # n PROVE FALSE
        OBVIOUS
      <4>2. m \in run.index[n.key] /\ m \in disk.notes
        BY <1>1, <3>2 DEF Exact, Indexed, NotesOf
      <4>3. Filename(m) # Filename(n)
        BY <1>0, <1>1, <4>2 DEF UniqueNames
      <4>4. m \in Named(disk.notes, Filename(m))
        BY <4>2 DEF Named
      <4>5. Filename(m) \in Superseded
        BY <1>1, <4>2, <4>3, <4>4 DEF Superseded
      <4> QED BY <4>1, <4>5
    <3> QED BY <1>0, <3>1, <3>2
  <2>2. /\ run'.pc = "reading" /\ run'.key = {} /\ run'.note = {}
        /\ run'.index = [run.index EXCEPT ![n.key] = {n}]
    BY <1>0, <1>1, <1>3 DEF Replaced, Runs
  <2>3. run.index \in [Keys -> SUBSET Notes]
    BY <1>0 DEF Runs
  <2>4. \A k \in Keys : NotesOf(disk.notes, k) \subseteq run'.index[k]
    <3>1. \A k \in Keys \ {n.key} : NotesOf(disk.notes, k) \subseteq run.index[k]
      BY <1>0, <1>1 DEF Exact, Indexed, Touched
    <3> QED BY <2>1, <2>2, <2>3, <3>1
  <2>5. Indexed'
    BY <1>0, <2>2, <2>4 DEF Indexed, Touched, NotesOf
  <2>6. OneIndexed'
    BY <2>2, <2>3 DEF Exact, OneIndexed
  <2> QED BY <2>2, <2>5, <2>6 DEF Exact, AtRest, Sweeping
<1>4. CASE ~ Replaced
  <2>1. /\ run.pc = "note_sync" /\ run'.pc = "stale" /\ run'.index = run.index
        /\ run'.key = run.key /\ run'.note = run.note
    BY <1>0, <1>4 DEF SyncNote, SyncSuperseded, Go, Runs
  <2> QED BY <1>0, <2>1, ExactGoesOn DEF Untouched, Between, Rest, Sweeping
<1> QED BY <1>3, <1>4

\* What is removed is the one Note the index has.
LEMMA RemovalsAreExact ==
  ASSUME IInv, Exact, RemoveSuperseded \/ RemoveNote
  PROVE  Exact'
<1>0. /\ TypeOK /\ StoreTypeOK /\ run \in Runs /\ run.pc \in {"stale", "unlink"} /\ Facts
      /\ run.pc \in Storing \cup Removing
  BY DEF IInv, TypeOK, RemoveSuperseded, RemoveNote, Storing, Installing, Removing
<1>1. PICK k \in Keys : run.key = {k} /\ Existing = run.index[k]
  BY <1>0, OneKey
<1>2. PICK m \in run.index[k] :
        /\ UnlinkNote(Filename(m))
        /\ run.pc = "stale" => \A c \in run.note : Filename(c) # Filename(m)
  BY <1>0, <1>1 DEF RemoveSuperseded, RemoveNote, Superseded
<1>3. disk'.notes = disk.notes \ Named(disk.notes, Filename(m))
  BY <1>0, <1>2, StoreEffects
<1>4. /\ run'.index = run.index /\ run'.key = run.key /\ run'.note = run.note
      /\ run'.pc = IF run.pc = "stale" THEN "stale_sync" ELSE "unlink_sync"
  BY <1>0 DEF RemoveSuperseded, RemoveNote, Go, Runs
<1>5. \A n \in run.index[k] : n = m
  BY <1>1, <1>2 DEF Exact, OneIndexed
<1>6. \A j \in Keys \ {k} : NotesOf(disk'.notes, j) \subseteq run.index[j]
  BY <1>0, <1>1, <1>3 DEF Exact, Indexed, Touched, Untouched, NotesOf
<1>7. run.pc = "stale" => NotesOf(disk'.notes, k) \subseteq run.note
  BY <1>1, <1>3, <1>5 DEF Exact, Indexed, NotesOf, Named
<1>8. run.pc = "unlink" => NotesOf(disk'.notes, k) = {}
  BY <1>1, <1>3, <1>5 DEF Exact, Indexed, NotesOf, Named, Untouched
<1>9. Indexed'
  BY <1>0, <1>1, <1>4, <1>6, <1>7, <1>8 DEF Indexed, Untouched, Between, NotesOf
<1> QED BY <1>0, <1>4, <1>9 DEF Exact, OneIndexed, AtRest, Sweeping

LEMMA SyncRemovalIsExact ==
  ASSUME IInv, Exact, SyncRemoval
  PROVE  Exact'
<1>0. /\ run \in Runs /\ run.pc = "unlink_sync" /\ disk' = disk /\ run.pc \in Storing \cup Removing
      /\ run.index \in [Keys -> SUBSET Notes]
  BY DEF IInv, TypeOK, Runs, SyncRemoval, Removing
<1>1. PICK k \in Keys : run.key = {k} /\ Key = k
  BY <1>0, OneKey
<1>2. run'.pc = "reading" /\ run'.index = [run.index EXCEPT ![k] = {}]
  BY <1>0, <1>1 DEF SyncRemoval, Runs
<1>3. \A j \in Keys : NotesOf(disk.notes, j) \subseteq run'.index[j]
  BY <1>0, <1>1, <1>2 DEF Exact, Indexed, Touched
<1>4. Indexed'
  BY <1>0, <1>2, <1>3 DEF Indexed, Touched, NotesOf
<1>5. OneIndexed'
  BY <1>0, <1>2 DEF Exact, OneIndexed
<1> QED BY <1>2, <1>4, <1>5 DEF Exact, AtRest, Sweeping

LEMMA ExactStays ==
  ASSUME IInv, Synced, Single, TimesStand, [Next]_vars
  PROVE  Exact'
<1>0. TypeOK /\ Exact /\ UniqueNames /\ UNCHANGED field
  BY FaultsGrow DEF IInv, Single
<1>1. CASE \/ UpstreamChanges \/ ForgetCursor \/ UNCHANGED vars
           \/ TakeRepeat \/ TakeDelete \/ TakeUpsert \/ TakeCheckpoint \/ PartialSnapshot
           \/ InstallArtifact \/ SyncArtifact \/ Compare \/ WriteCursor \/ FinishCursor
           \/ CursorWriteFails \/ BadFrame \/ ErrorDiagnostic
  <2>1. CASE disk'.notes = disk.notes
    BY <1>0, <1>1, <2>1, QuietStepsAreExact
  <2>2. CASE InstallNote
    BY <1>0, <2>2, InstallNoteIsExact
  <2>3. CASE RemoveSuperseded \/ RemoveNote
    BY <1>0, <2>3, RemovalsAreExact
  <2>4. CASE Sweep \/ PowerLoss
    BY <2>4, EndsAreExact
  <2> QED BY <2>1, <2>2, <2>3, <2>4, NotesChangeIn
<1>2. CASE \/ EndOfStream \/ EarlyExit \/ Sweep \/ SyncSweep
           \/ RecordWriteFails \/ SweepFails \/ Kill \/ PowerLoss
  BY <1>2, EndsAreExact
<1>3. CASE Begin
  BY <1>0, <1>3, BeginIsExact
<1>4. CASE InstallNote
  BY <1>0, <1>4, InstallNoteIsExact
<1>5. CASE SyncNote \/ SyncSuperseded
  BY <1>0, <1>5, ReplacedIsExact
<1>6. CASE RemoveSuperseded \/ RemoveNote
  BY <1>0, <1>6, RemovalsAreExact
<1>7. CASE SyncRemoval
  BY <1>0, <1>7, SyncRemovalIsExact
<1> QED BY <1>1, <1>2, <1>3, <1>4, <1>5, <1>6, <1>7 DEF Next, Work, Take, Apply, Faults

LEMMA SingleStays ==
  ASSUME IInv, Synced, Single, TimesStand, [Next]_vars
  PROVE  Single'
BY TimesStay, SameIdsStay, UniqueNamesStay, ExactStays DEF Single

LEMMA SingleBegins == Init => Single
<1>1. ASSUME Init
      PROVE  /\ disk = EmptyNotebook /\ durable = EmptyNotebook /\ run = Idle /\ log = <<>>
  BY <1>1 DEF Init, StoreInit, UpstreamInit
<1>2. ASSUME Init PROVE /\ disk.notes = {} /\ Views = {{}} /\ Len(log) = 0
                        /\ run.pc = "idle" /\ run.note = {} /\ \A k \in Keys : run.index[k] = {}
  <2>1. disk.notes = {} /\ durable.notes = {} /\ Len(log) = 0
    BY <1>1, <1>2 DEF EmptyNotebook
  <2>2. run.pc = "idle" /\ run.note = {} /\ \A k \in Keys : run.index[k] = {}
    BY <1>1, <1>2 DEF Idle
  <2> QED BY <2>1, <2>2 DEF Views
<1>3. ASSUME Init PROVE Found = {}
  BY <1>2, <1>3 DEF Found
<1> QED BY <1>2, <1>3 DEF Single, TimesAreOwn, SameIds, UniqueNames, Exact,
      Indexed, OneIndexed, AtRest, OneEach, Untouched, Touched, Between

LEMMA SinglesHold ==
  ASSUME PowerComesAlone, TimesStand
  PROVE  Spec => [](IInv /\ Durability /\ Single)
<1>1. Init => IInv /\ Durability /\ Single
  BY InitKeeps, DurabilityBegins, SingleBegins
<1>2. IInv /\ Durability /\ Single /\ [Next]_vars => (IInv /\ Durability /\ Single)'
  BY NextKeeps, DurabilityStays, SingleStays DEF Durability
<1> QED BY <1>1, <1>2, PTL DEF Spec

\* Between runs an object has at most one Note, however the runs before ended,
\* where an interrupted change never renames a Note.
THEOREM OneNotePerObjectAlways ==
  ASSUME PowerComesAlone, TimesStand
  PROVE  Spec => []OneNotePerObject
<1>1. IInv /\ Durability /\ Single => OneNotePerObject
  BY DEF Single, Exact, AtRest, OneEach, OneNotePerObject
<1> QED BY <1>1, SinglesHold, PTL

\* While an object has a Note its Note ID stays the same, under the same
\* provisos: an ID is drawn only where no Note of the object is to be found,
\* before or after a power loss.
THEOREM IdentityIsKeptAlways ==
  ASSUME PowerComesAlone, TimesStand
  PROVE  Spec => IdentityIsKept
<1>1. ASSUME IInv, Durability, Single, [Next]_vars
      PROVE  [\A m \in disk.notes, n \in disk'.notes : m.key = n.key => m.id = n.id]_vars
  BY <1>1, FoundFrom, FoundIs DEF IInv, Durability, Single, SameIds
<1> QED BY <1>1, SinglesHold, PTL DEF Spec, IdentityIsKept

-----------------------------------------------------------------------------
(* The Notes of deleted objects *)

\* If `key` was deleted at `v`, every Note of it that is found is newer.
Gone(key, v) ==
  field.tombstones /\ IsDelete(v) =>
    \A N \in Views : \A n \in N : n.key = key => n.version > v

\* The index holds what was reported, unless it is being applied, and that is
\* no older than what a cursor accounts for.
Current ==
  run.pc # "idle" =>
    /\ run.cursor <= run.offered
    /\ \A k \in Keys \ run.key : run.reported[k] > 0 =>
         \A n \in run.index[k] : n.version = run.reported[k]
    /\ \A k \in run.key, c \in Marks \cup {run.cursor} : VersionAt(k, c) <= run.reported[k]

\* What was accounted for as deleted is gone.
Cleared ==
  /\ \A k \in Covered, c \in Marks : Gone(k, VersionAt(k, c))
  /\ run.pc # "idle" => \A k \in Covered : Gone(k, VersionAt(k, run.cursor))
  /\ run.pc = "cursor" => \A o \in session.committed, k \in Covered : Gone(k, VersionAt(k, o.cursor))

\* The steps of a run that change its index, its record and its last offer.
LEMMA MemoryStands ==
  ASSUME IInv, [Next]_vars, run'.pc # "idle", ~ Begin
  PROVE  /\ \/ run'.index = run.index \/ SyncRemoval
            \/ (SyncNote \/ SyncSuperseded) /\ Replaced
         /\ run'.key \subseteq run.key \/ TakeRepeat \/ TakeDelete \/ TakeUpsert
         /\ \/ run'.offered = run.offered
            \/ run'.cursor = run.cursor /\ run'.offered >= run.offered
<1>0. run \in Runs /\ TypeOK /\ field' = field
  BY FaultsGrow DEF IInv, TypeOK
<1> DEFINE Same == run'.index = run.index /\ run'.key \subseteq run.key /\ run'.offered = run.offered
<1>1. CASE UpstreamChanges \/ ForgetCursor \/ UNCHANGED vars
  BY <1>1 DEF UpstreamChanges, ForgetCursor, vars
<1>2. CASE TakeRepeat \/ TakeDelete \/ TakeUpsert
  <2>1. run'.index = run.index /\ run'.offered = run.offered
    BY <1>0, <1>2 DEF TakeRepeat, TakeDelete, TakeUpsert, Reported, Runs
  <2> QED BY <1>2, <2>1
<1>3. CASE TakeCheckpoint \/ PartialSnapshot
  <2>1. PICK p \in 0 .. Len(log), final \in BOOLEAN, state \in {"complete", "partial"} :
          TakesOffer(CheckpointAt(p, final, state))
    BY <1>3 DEF TakeCheckpoint, PartialSnapshot
  <2>2. run'.offered = p /\ MayOffer(p, final)
    BY <1>0, <2>1 DEF TakesOffer, CheckpointAt, Runs
  <2>3. p >= run.offered
    BY <1>0, <2>2 DEF MayOffer, Runs
  <2> QED BY <1>0, <2>1, <2>2, <2>3, OfferEffect
<1>4. CASE \/ InstallArtifact \/ SyncArtifact \/ InstallNote \/ RemoveSuperseded \/ RemoveNote
           \/ WriteCursor \/ FinishCursor
  <2>1. Same
    BY <1>0, <1>4 DEF InstallArtifact, SyncArtifact, InstallNote, RemoveSuperseded, RemoveNote,
      WriteCursor, FinishCursor, Go, Runs
  <2> QED BY <2>1
<1>5. CASE RecordWriteFails \/ CursorWriteFails \/ BadFrame \/ ErrorDiagnostic
  <2>1. Same
    BY <1>0, <1>5 DEF RecordWriteFails, CursorWriteFails, BadFrame, ErrorDiagnostic, Go, Runs
  <2> QED BY <2>1
<1>6. CASE Compare
  <2>1. Same
    BY <1>0, <1>6 DEF Compare, Runs
  <2> QED BY <2>1
<1>7. CASE SyncNote \/ SyncSuperseded
  <2>1. Replaced => run'.key = {} /\ run'.offered = run.offered
    BY <1>0 DEF Replaced, Runs
  <2>2. ~ Replaced => Same
    BY <1>0, <1>7 DEF SyncNote, SyncSuperseded, Go, Runs
  <2> QED BY <1>7, <2>1, <2>2
<1>8. CASE SyncRemoval
  <2>1. run'.key = {} /\ run'.offered = run.offered
    BY <1>0, <1>8 DEF SyncRemoval, Runs
  <2> QED BY <1>8, <2>1
<1>9. ~ End
  BY DEF End, Idle
<1>10. CASE EndOfStream \/ EarlyExit \/ Sweep \/ SyncSweep
  <2>1. \A exit : Finish(exit) => Same
    BY <1>0, <1>9 DEF Finish, Runs
  <2>2. Sweep \/ SyncSweep => Same
    BY <1>0, <1>9 DEF Sweep, SyncSweep, Go, Runs
  <2> QED BY <1>10, <2>1, <2>2 DEF EndOfStream, EarlyExit
<1>11. CASE SweepFails \/ Kill \/ PowerLoss
  BY <1>9, <1>11 DEF SweepFails, Kill, PowerLoss
<1> QED BY <1>1, <1>2, <1>3, <1>4, <1>5, <1>6, <1>7, <1>8, <1>10, <1>11
        DEF Next, Work, Take, Apply, Faults

\* No Note comes back behind a deletion the run knows of.
LEMMA GoneGoesOn ==
  ASSUME IInv, Synced, [Next]_vars, NEW k \in Keys, NEW v \in 0 .. Len(log), Gone(k, v),
         run.pc = "note" /\ k \in run.key => v <= run.reported[k]
  PROVE  Gone(k, v)'
<1>0. /\ TypeOK /\ Facts /\ field' = field /\ disk.notes \in Views
      /\ IsDelete(v)' <=> IsDelete(v)
  BY PastStays, FaultsGrow, ViewsAreNotes DEF IInv
<1> SUFFICES ASSUME field.tombstones, IsDelete(v), NEW M \in Views', NEW n \in M, n.key = k
             PROVE  n.version > v
  BY <1>0 DEF Gone
<1>1. \A N \in Views : \A m \in N : m.key = k => m.version > v
  BY DEF Gone
<1>2. CASE M \in Views \/ M \subseteq disk.notes
  BY <1>0, <1>1, <1>2
<1>3. ASSUME NEW m \in run.note, run.pc = "note", n = m PROVE n.version > v
  <2>1. run.pc \in Installing
    BY <1>3 DEF Installing
  <2>2. /\ k \in run.key /\ n.version = run.reported[k] /\ n \in NotesAbout /\ n \in Notes
        /\ v <= run.reported[k]
    BY <1>3, <2>1, OneNote
  <2>3. IsUpsert(n.version)
    BY <1>0, <2>2 DEF Facts, NotesAreReal
  <2>4. n.version # v
    BY <2>3 DEF IsUpsert, IsDelete
  <2> QED BY <2>2, <2>4 DEF Notes
<1>4. CASE M \notin Views
  <2>1. M = disk'.notes /\ ~ PowerLoss
    BY <1>4, ViewsFrom
  <2>2. CASE disk'.notes \subseteq disk.notes
    BY <1>2, <2>1, <2>2
  <2>3. ASSUME NEW m \in run.note, run.pc = "note",
               disk'.notes = (disk.notes \ Named(disk.notes, Filename(m))) \cup {m}
        PROVE  n.version > v
    BY <1>0, <1>1, <1>3, <2>1, <2>3
  <2> QED BY <2>1, <2>2, <2>3, NotesTouched
<1> QED BY <1>2, <1>4

\* Where no record is being applied what is found is what is visible, and what
\* was reported of it is in the index.
LEMMA ReportedIsCurrent ==
  ASSUME IInv, Synced, Exact, Current, run.pc = "reading", NEW k \in Keys, run.reported[k] > 0,
         NEW N \in Views, NEW n \in N, n.key = k
  PROVE  n.version = run.reported[k]
<1>1. N = disk.notes
  BY DEF Synced, Views, Unsynced
<1>2. run.key = {}
  BY DEF IInv, Place, OneRecord, Between
<1>3. n \in run.index[k]
  BY <1>1 DEF Exact, Indexed, NotesOf, Untouched, Between
<1> QED BY <1>2, <1>3 DEF Current

\* An offer the run can make is of deletions that are done.
LEMMA OfferIsGone ==
  ASSUME IInv, Synced, Exact, Accounted, Current, Cleared,
         NEW p \in 0 .. Len(log), NEW final \in BOOLEAN, NEW state \in {"complete", "partial"},
         TakesOffer(CheckpointAt(p, final, state)), UNCHANGED field, NEW k \in Covered
  PROVE  Gone(k, VersionAt(k, p))
<1>0. /\ TypeOK /\ Facts /\ run \in Runs /\ log \in Seq(Changes) /\ Len(log) \in Nat
      /\ k \in Keys /\ field \in FieldTypes
  BY FieldIsTyped DEF IInv, TypeOK, UpstreamTypeOK, Covered
<1>1. run.pc = "reading" /\ ~ Owed(k, p) /\ MayOffer(p, final)
  <2>1. MayOffer(p, final)
    BY DEF TakesOffer, CheckpointAt
  <2>2. run.pc = "reading" /\ ~ Owed(k, p)
    BY <1>0, OfferEffect
  <2> QED BY <2>1, <2>2
<1>2. run.cursor <= p /\ run.cursor \in Nat /\ run.reported[k] \in 0 .. Len(log)
  BY <1>0, <1>1 DEF MayOffer, Current, Runs, Facts, ReportsAreReal
<1>3. InWindow(k)
  BY <1>0, <1>1 DEF InWindow, Accounted, Covered, FieldTypes
<1> DEFINE v == VersionAt(k, p)
           w == VersionAt(k, run.cursor)
<1>4. /\ v \in 0 .. p /\ (v > 0 => log[v].key = k)
      /\ w \in 0 .. run.cursor /\ w <= v
      /\ \A u \in 1 .. run.cursor : log[u].key = k => u <= w
  BY <1>0, <1>2, VersionIsLast, VersionGrows
<1>5. Gone(k, w)
  BY <1>1 DEF Cleared
<1>6. field.tombstones => v <= run.cursor \/ v <= run.reported[k]
  BY <1>1, <1>2, <1>3, <1>4 DEF Owed
<1> HIDE DEF v, w
<1> SUFFICES ASSUME field.tombstones, IsDelete(v), NEW N \in Views, NEW n \in N, n.key = k
             PROVE  n.version > v
  BY DEF Gone, v
<1>7. v > 0
  BY DEF IsDelete
<1>8. CASE v <= run.cursor
  <2>1. v = w
    BY <1>2, <1>4, <1>7, <1>8
  <2> QED BY <1>5, <2>1 DEF Gone
<1>9. CASE v <= run.reported[k]
  <2>1. n.version = run.reported[k]
    BY <1>0, <1>1, <1>2, <1>4, <1>7, <1>9, ReportedIsCurrent
  <2>2. n \in NotesAbout
    BY <1>0, ViewsAreNotes
  <2>3. IsUpsert(n.version)
    BY <1>0, <2>2 DEF Facts, NotesAreReal
  <2>4. n.version # v
    BY <2>3 DEF IsUpsert, IsDelete
  <2> QED BY <1>2, <1>4, <1>9, <2>1, <2>4
<1> QED BY <1>6, <1>8, <1>9

\* Nor does what a position of the log accounts for come back.
LEMMA GoneAtGoesOn ==
  ASSUME IInv, Synced, [Next]_vars, NEW k \in Keys, NEW p \in 0 .. Len(log),
         Gone(k, VersionAt(k, p)),
         run.pc = "note" /\ k \in run.key => VersionAt(k, p) <= run.reported[k]
  PROVE  Gone(k, VersionAt(k, p))'
<1>0. TypeOK
  BY DEF IInv
<1>1. PICK v : v = VersionAt(k, p)
  OBVIOUS
<1>2. VersionAt(k, p)' = v /\ v \in 0 .. Len(log)
  BY <1>0, <1>1, PastStays, VersionIsLast
<1>3. Gone(k, v)'
  BY <1>1, <1>2, GoneGoesOn
<1> QED BY <1>2, <1>3 DEF Gone, IsDelete

\* What the index holds was reported last.
LEMMA IndexIsCurrent ==
  ASSUME IInv, Current, [Next]_vars, run'.pc # "idle",
         NEW k \in Keys \ run'.key, run'.reported[k] > 0, NEW n \in run'.index[k]
  PROVE  n.version = run'.reported[k]
<1>0. run \in Runs /\ TypeOK /\ run.index \in [Keys -> SUBSET Notes] /\ field' = field
  BY FaultsGrow DEF IInv, TypeOK, Runs
<1>1. ~ Begin
  <2>1. Begin => run'.reported[k] = 0
    BY <1>0, BeginEffect
  <2> QED BY <2>1
<1>2. run.pc # "idle"
  BY <1>1, RunGoesOn
<1>3. ASSUME k \notin run.key, run'.reported[k] = run.reported[k], n \in run.index[k]
      PROVE  n.version = run'.reported[k]
  BY <1>2, <1>3 DEF Current
<1>4. CASE TakeRepeat \/ TakeDelete \/ TakeUpsert
  <2>1. PICK j \in Keys, d \in {"no_change", "delete", "upsert"} :
          /\ Takes(j, d) /\ run'.reported = [run.reported EXCEPT ![j] = Version(j)]
          /\ run'.index = run.index
          /\ d = "upsert" \/ (d = "delete" /\ run.index[j] # {}) => run'.key = {j}
    BY <1>0, <1>4 DEF TakeRepeat, TakeDelete, TakeUpsert, Reported, Runs
  <2>2. run.key = {} /\ (d = "no_change" => run.reported[j] = Version(j))
    BY <2>1, TakesEffect
  <2>3. run.reported \in [Keys -> 0 .. MaxVersion]
    BY <1>0 DEF Runs
  <2>4. CASE k # j \/ d = "no_change"
    BY <1>3, <2>1, <2>2, <2>3, <2>4
  <2>5. CASE k = j /\ d # "no_change"
    BY <2>1, <2>5
  <2> QED BY <2>4, <2>5
<1>5. CASE Compare
  <2>0. /\ run.pc = "compare" /\ (Existing = {} => FreshIds # {}) /\ run.pc \in Storing
        /\ run.pc \in Storing \cup Removing
    BY <1>5 DEF Compare, Storing
  <2>1. PICK j \in Keys : run.key = {j} /\ Existing = run.index[j]
    BY <2>0, OneKey
  <2>2. /\ run'.reported = run.reported /\ run'.index = run.index
        /\ run'.key = run.key \/ Existing = {Candidate}
    BY <1>0, <1>5 DEF Compare, Runs
  <2>3. CASE k \notin run.key
    BY <1>3, <2>2, <2>3
  <2>4. CASE k \in run.key
    <3>1. k = j /\ n = Candidate
      BY <2>1, <2>2, <2>4
    <3> QED BY <2>0, <2>1, <2>2, <3>1, CandidateIsTyped
  <2> QED BY <2>3, <2>4
<1>6. CASE (SyncNote \/ SyncSuperseded) /\ Replaced
  <2>0. run.pc \in Installing
    BY <1>6 DEF SyncNote, SyncSuperseded, Installing
  <2>1. PICK m \in Notes : /\ run.note = {m} /\ run.key = {m.key} /\ Key = m.key
                           /\ m.version = run.reported[m.key]
    BY <2>0, OneNote
  <2>2. run'.reported = run.reported /\ run'.index = [run.index EXCEPT ![m.key] = {m}]
    BY <1>0, <1>6, <2>1 DEF Replaced, Runs
  <2>3. CASE k = m.key
    BY <1>0, <2>1, <2>2, <2>3
  <2>4. CASE k # m.key
    BY <1>0, <1>3, <2>1, <2>2, <2>4
  <2> QED BY <2>3, <2>4
<1>7. CASE SyncRemoval
  <2>0. run.pc \in Storing \cup Removing
    BY <1>7 DEF SyncRemoval, Removing
  <2>1. PICK j \in Keys : run.key = {j} /\ Key = j
    BY <2>0, OneKey
  <2>2. run'.reported = run.reported /\ run'.index = [run.index EXCEPT ![j] = {}]
    BY <1>0, <1>7, <2>1 DEF SyncRemoval, Runs
  <2> QED BY <1>0, <1>3, <2>1, <2>2
<1>8. CASE (SyncNote \/ SyncSuperseded) /\ ~ Replaced
  <2>1. run'.reported = run.reported /\ run'.index = run.index /\ run'.key = run.key
    BY <1>0, <1>8 DEF SyncNote, SyncSuperseded, Go, Runs
  <2> QED BY <1>3, <2>1
<1>9. CASE /\ run'.reported = run.reported /\ run.key \subseteq run'.key
           /\ run'.index = run.index
  BY <1>3, <1>9
<1> QED BY <1>1, <1>4, <1>5, <1>6, <1>7, <1>8, <1>9, MemoryStands, RunGoesOn

\* The record being applied is as new as its object was when it was read.
LEMMA RecordIsCurrent ==
  ASSUME IInv, Accounted, Current, [Next]_vars, run'.pc # "idle",
         NEW k \in run'.key, NEW c \in Marks' \cup {run'.cursor}
  PROVE  VersionAt(k, c)' <= run'.reported[k]
<1>0. /\ run \in Runs /\ run' \in Runs /\ TypeOK /\ Place /\ field' = field /\ k \in Keys
      /\ log \in Seq(Changes) /\ Len(log) \in Nat
  <2>1. IInv' /\ TypeOK /\ Place
    BY NextKeeps DEF IInv
  <2>2. run \in Runs /\ run' \in Runs /\ log \in Seq(Changes) /\ Len(log) \in Nat
    BY <2>1 DEF IInv, TypeOK, UpstreamTypeOK
  <2>3. field' = field
    BY <2>1, FaultsGrow
  <2>4. k \in Keys
    BY <2>2 DEF Runs
  <2> QED BY <2>1, <2>2, <2>3, <2>4
<1>1. ~ Begin
  <2>1. Begin => run'.key = {}
    BY <1>0, BeginEffect
  <2> QED BY <2>1
<1>2. run.pc # "idle" /\ run'.cursor = run.cursor
  BY <1>1, RunGoesOn
<1>3. CASE TakeRepeat \/ TakeDelete \/ TakeUpsert
  <2>1. PICK j \in Keys, d \in {"no_change", "delete", "upsert"} :
          /\ Takes(j, d) /\ run'.reported = [run.reported EXCEPT ![j] = Version(j)]
          /\ run'.key = {} \/ run'.key = {j}
    BY <1>0, <1>3 DEF TakeRepeat, TakeDelete, TakeUpsert, Reported, Runs
  <2>2. run.pc = "reading"
    BY <2>1 DEF Takes
  <2>3. c \in Marks \cup {run.cursor}
    <3>1. CASE c \in Marks'
      BY <2>2, <3>1, MarksFrom
    <3> QED BY <1>2, <3>1
  <2>4. c \in Nat /\ c \in 0 .. Len(log)
    BY <1>0, <1>2, <2>3 DEF Accounted, Runs
  <2>5. run'.reported[k] = VersionAt(k, Len(log))
    BY <1>0, <2>1 DEF Runs, Version
  <2>6. VersionAt(k, c)' = VersionAt(k, c)
    BY <1>0, <2>4, PastStays
  <2> QED BY <1>0, <2>4, <2>5, <2>6, VersionGrows
<1>4. CASE ~ (TakeRepeat \/ TakeDelete \/ TakeUpsert)
  <2>1. k \in run.key
    BY <1>1, <1>4, MemoryStands
  <2>2. run.pc # "cursor"
    BY <1>0, <2>1 DEF Place, OneRecord, Between
  <2>3. c \in Marks \cup {run.cursor}
    BY <1>2, <2>2, MarksFrom
  <2>4. c \in 0 .. Len(log)
    BY <1>0, <1>2, <2>3 DEF Accounted, Runs
  <2>5. VersionAt(k, c)' = VersionAt(k, c)
    BY <1>0, <2>4, PastStays
  <2>6. run'.reported = run.reported
    <3>1. Compare => run'.reported = run.reported
      BY <1>0 DEF Compare, Runs
    <3>2. SyncNote \/ SyncSuperseded \/ SyncRemoval => run'.reported = run.reported
      BY <1>0 DEF SyncNote, SyncSuperseded, SyncRemoval, Replaced, Go, Runs
    <3> QED BY <1>1, <1>4, <3>1, <3>2, RunGoesOn
  <2> QED BY <1>2, <2>1, <2>3, <2>5, <2>6 DEF Current
<1> QED BY <1>3, <1>4

LEMMA CurrentStays ==
  ASSUME IInv, Accounted, Current, [Next]_vars
  PROVE  Current'
<1> SUFFICES ASSUME run'.pc # "idle"
             PROVE  /\ run'.cursor <= run'.offered
                    /\ \A k \in Keys \ run'.key : run'.reported[k] > 0 =>
                         \A n \in run'.index[k] : n.version = run'.reported[k]
                    /\ \A k \in run'.key, c \in Marks' \cup {run'.cursor} :
                         VersionAt(k, c)' <= run'.reported[k]
  BY DEF Current
<1>0. run \in Runs /\ run' \in Runs
  BY NextKeeps DEF IInv, TypeOK
<1>1. run'.cursor <= run'.offered
  <2>1. CASE Begin
    <3>1. run'.cursor = run'.offered
      BY <2>1 DEF Begin, Idle
    <3> QED BY <1>0, <3>1 DEF Runs
  <2>2. CASE ~ Begin
    <3>1. run.pc # "idle" /\ run'.cursor = run.cursor /\ run'.offered >= run.offered
      BY <1>0, <2>2, RunGoesOn, MemoryStands DEF Runs
    <3> QED BY <1>0, <3>1 DEF Current, Runs
  <2> QED BY <2>1, <2>2
<1> QED BY <1>1, IndexIsCurrent, RecordIsCurrent

\* What was accounted for as deleted stays gone, for the cursors a run leaves and
\* the one it resumed from.
LEMMA ClearedStays ==
  ASSUME IInv, Synced, Exact, Accounted, Current, Cleared, [Next]_vars
  PROVE  Cleared'
<1>0. /\ TypeOK /\ Place /\ run \in Runs /\ session \in Sessions /\ Len(log) \in Nat
      /\ field' = field /\ Covered' = Covered /\ Covered \subseteq Keys
  BY PastStays, FaultsGrow DEF IInv, TypeOK, Covered
<1> DEFINE Fits(k, p) == /\ p \in 0 .. Len(log) /\ Gone(k, VersionAt(k, p))
                         /\ run.pc = "note" /\ k \in run.key => VersionAt(k, p) <= run.reported[k]
<1>1. ASSUME NEW k \in Covered, NEW p, Fits(k, p) PROVE Gone(k, VersionAt(k, p))'
  BY <1>0, <1>1, GoneAtGoesOn
<1>2. ASSUME NEW k \in Covered, NEW c \in Marks PROVE Fits(k, c)
  BY DEF Accounted, Current, Cleared
<1>3. ASSUME run.pc # "idle", NEW k \in Covered PROVE Fits(k, run.cursor)
  BY <1>0, <1>3 DEF Accounted, Current, Cleared, Runs
<1>4. ASSUME run.pc = "cursor", NEW k \in Covered, NEW o \in session.committed
      PROVE  Fits(k, o.cursor)
  BY <1>0, <1>4 DEF Accounted, Cleared, Sessions, Offers
<1> HIDE DEF Fits
<1>5. ASSUME NEW k \in Covered, NEW c \in Marks' PROVE Gone(k, VersionAt(k, c))'
  <2>1. Fits(k, c)
    BY <1>2, <1>4, MarksFrom
  <2> QED BY <1>1, <2>1
<1>6. ASSUME run'.pc # "idle", NEW k \in Covered PROVE Gone(k, VersionAt(k, run.cursor))'
  <2>1. PICK c : c = run'.cursor
    OBVIOUS
  <2>2. Fits(k, c)
    <3>1. CASE Begin
      <4>1. run.pc = "idle" /\ c \in {0} \cup disk.cursor
        BY <1>0, <2>1, <3>1, BeginEffect
      <4>2. VersionAt(k, 0) = 0
        BY VersionIsLast
      <4>3. Fits(k, 0)
        BY <1>0, <4>1, <4>2 DEF Fits, Gone, IsDelete
      <4> QED BY <1>2, <4>1, <4>3 DEF Marks
    <3>2. CASE ~ Begin
      BY <1>3, <1>6, <2>1, <3>2, RunGoesOn
    <3> QED BY <3>1, <3>2
  <2>3. Gone(k, VersionAt(k, c))'
    BY <1>1, <2>2
  <2> QED BY <2>1, <2>3 DEF Gone, VersionAt, IsDelete
<1>7. ASSUME run'.pc = "cursor", NEW o \in session'.committed, NEW k \in Covered
      PROVE  Gone(k, VersionAt(k, o.cursor))'
  <2>1. PICK c : c = o.cursor
    OBVIOUS
  <2>2. Fits(k, c)
    <3>1. CASE run' = run
      <4>1. o \in session.committed /\ run.pc = "cursor"
        BY <1>7, <3>1, CursorWaits
      <4> QED BY <1>4, <2>1, <4>1
    <3>2. CASE TakeCheckpoint \/ PartialSnapshot
      <4>1. PICK p \in 0 .. Len(log), final \in BOOLEAN, state \in {"complete", "partial"} :
              TakesOffer(CheckpointAt(p, final, state))
        BY <3>2 DEF TakeCheckpoint, PartialSnapshot
      <4>2. run.pc = "reading" /\ c = p
        BY <1>0, <1>7, <2>1, <4>1, OfferEffect
      <4>3. Gone(k, VersionAt(k, p))
        BY <1>0, <4>1, OfferIsGone
      <4> QED BY <4>2, <4>3 DEF Fits
    <3> QED BY <1>7, <3>1, <3>2, PlacesFrom
  <2>3. Gone(k, VersionAt(k, c))'
    BY <1>1, <2>2
  <2> QED BY <2>1, <2>3
<1> QED BY <1>0, <1>5, <1>6, <1>7 DEF Cleared

LEMMA ClearedBegins == Init => Current /\ Cleared
<1>1. ASSUME Init PROVE disk = EmptyNotebook /\ durable = EmptyNotebook /\ run.pc = "idle"
  BY <1>1 DEF Init, StoreInit, Idle
<1> QED BY <1>1 DEF EmptyNotebook, Current, Cleared, Marks

\* All of it holds together.
Whole == IInv /\ Durability /\ Single /\ Accounted /\ Current /\ Cleared

LEMMA WholeHolds ==
  ASSUME PowerComesAlone, TimesStand
  PROVE  Spec => []Whole
<1>1. Init => Whole
  BY InitKeeps, DurabilityBegins, SingleBegins, AccountedBegins, ClearedBegins DEF Whole
<1>2. Whole /\ [Next]_vars => Whole'
  BY NextKeeps, DurabilityStays, SingleStays, AccountedStays, CurrentStays, ClearedStays
  DEF Whole, Durability, Single
<1> QED BY <1>1, <1>2, PTL DEF Spec

\* Once the stored cursor accounts for a deletion the Field reports, no Note of
\* the deleted object is left, under the same provisos: a delete removes the one
\* Note that the index knows.
THEOREM DeletedNotesAreGoneAlways ==
  ASSUME PowerComesAlone, TimesStand
  PROVE  Spec => []DeletedNotesAreGone
<1>1. Whole => DeletedNotesAreGone
  <2> SUFFICES ASSUME Whole, NEW c \in disk.cursor, NEW k \in Covered, NEW v,
                      v = VersionAt(k, c), field.tombstones, IsDelete(v),
                      NEW n \in NotesOf(disk.notes, k)
               PROVE  n.version > v
    BY DEF DeletedNotesAreGone
  <2>1. Gone(k, v) /\ disk.notes \in Views
    BY DEF Whole, Cleared, Marks, Views
  <2> QED BY <2>1 DEF Gone, NotesOf
<1> QED BY <1>1, WholeHolds, PTL

-----------------------------------------------------------------------------
(* The contract *)

\* No Field's notebook loses power: a loss may bring an older Note back.
PowerStays == \A f \in Fields : "power" \notin f.faults

\* The versions the notebook shows, and the position its cursor marks.
Newest(N, key) == Max({0} \cup {n.version : n \in NotesOf(N, key)})
Shelf == [k \in Keys |-> Newest(disk.notes, k)]
Mark  == Max({0} \cup disk.cursor)

\* A run never offers less than is stored, and commits what it offered.
Ahead ==
  run.pc # "idle" =>
    /\ \A c \in disk.cursor : c <= run.offered
    /\ run.pc = "cursor" => \A o \in session.committed : o.cursor = run.offered

LEMMA GreatestIs ==
  ASSUME NEW S \in SUBSET (0 .. MaxVersion), NEW m, m = Max({0} \cup S)
  PROVE  m \in {0} \cup S /\ m \in 0 .. MaxVersion /\ \A x \in S : x <= m
<1>1. MaxVersion \in Nat /\ {0} \cup S \in SUBSET (0 .. MaxVersion)
  BY UpstreamAssumption
<1>2. \E x \in {0} \cup S : \A y \in {0} \cup S : x >= y
  BY <1>1, HasGreatest
<1>3. m \in {0} \cup S /\ \A y \in {0} \cup S : m >= y
  BY <1>2 DEF Max
<1>4. \A x \in S : x \in Nat
  BY <1>1
<1> QED BY <1>1, <1>3, <1>4

LEMMA NewestIs ==
  ASSUME NEW N \in SUBSET Notes, NEW k, NEW m, m = Newest(N, k)
  PROVE  /\ m \in 0 .. MaxVersion
         /\ \A n \in N : n.key = k => n.version <= m
         /\ m > 0 => \E n \in N : n.key = k /\ n.version = m
<1> DEFINE S == {n.version : n \in NotesOf(N, k)}
<1>1. S \in SUBSET (0 .. MaxVersion)
  BY UpstreamAssumption DEF NotesOf, Notes
<1>2. m = Max({0} \cup S)
  BY DEF Newest
<1>3. (m \in {0} \cup S) /\ m \in 0 .. MaxVersion /\ \A x \in S : x <= m
  BY <1>1, <1>2, GreatestIs
<1> QED BY <1>3 DEF NotesOf

LEMMA MarkIs ==
  ASSUME TypeOK
  PROVE  Mark \in {0} \cup disk.cursor /\ Mark \in 0 .. MaxVersion /\ \A c \in disk.cursor : c <= Mark
<1>1. disk.cursor \in SUBSET (0 .. MaxVersion)
  BY DEF TypeOK, StoreTypeOK, Directories
<1> QED BY <1>1, GreatestIs DEF Mark

LEMMA AheadStays ==
  ASSUME IInv, Ahead, [Next]_vars
  PROVE  Ahead'
<1> SUFFICES ASSUME run'.pc # "idle"
             PROVE  /\ \A c \in disk'.cursor : c <= run'.offered
                    /\ run'.pc = "cursor" => \A o \in session'.committed : o.cursor = run'.offered
  BY DEF Ahead
<1>0. /\ TypeOK /\ StoreTypeOK /\ run \in Runs /\ run' \in Runs /\ session \in Sessions
      /\ field' = field
  <2>1. IInv' /\ TypeOK
    BY NextKeeps DEF IInv
  <2> QED BY <2>1, FaultsGrow DEF IInv, TypeOK
<1>1. \A c \in disk'.cursor : c <= run'.offered
  <2>1. CASE Begin
    <3>1. run'.offered = Mark /\ disk' = disk
      BY <2>1 DEF Begin, Idle, Mark
    <3> QED BY <1>0, <3>1, MarkIs
  <2>2. CASE ~ Begin
    <3>0. ~ PowerLoss
      BY DEF PowerLoss, End, Idle
    <3>1. run.pc # "idle" /\ run'.offered >= run.offered
      BY <1>0, <2>2, RunGoesOn, MemoryStands DEF Runs
    <3>2. CASE disk'.cursor \in {disk.cursor, {}}
      <4>1. \A c \in disk.cursor : c <= run.offered /\ c \in Nat
        BY <1>0, <3>1 DEF Ahead, StoreTypeOK, Directories
      <4> QED BY <1>0, <3>1, <3>2, <4>1 DEF Runs
    <3>3. CASE WriteCursor
      <4>1. PICK o \in session.committed : RenameCursor(o.cursor)
        BY <3>3 DEF WriteCursor
      <4>2. o.cursor \in 0 .. MaxVersion
        BY <1>0 DEF Sessions, Offers
      <4>3. disk'.cursor = {o.cursor}
        BY <1>0, <4>1, <4>2, StoreEffects
      <4>4. o.cursor = run.offered
        BY <3>3, <4>1 DEF WriteCursor, Ahead
      <4> QED BY <1>0, <3>1, <4>3, <4>4 DEF Runs
    <3> QED BY <3>0, <3>2, <3>3, StoreFields
  <2> QED BY <2>1, <2>2
<1>2. ASSUME run'.pc = "cursor", NEW o \in session'.committed PROVE o.cursor = run'.offered
  <2>1. CASE run' = run
    BY <1>2, <2>1, CursorWaits DEF Ahead
  <2>2. CASE TakeCheckpoint \/ PartialSnapshot
    <3>1. PICK p \in 0 .. Len(log), final \in BOOLEAN, state \in {"complete", "partial"} :
            TakesOffer(CheckpointAt(p, final, state))
      BY <2>2 DEF TakeCheckpoint, PartialSnapshot
    <3>2. o.cursor = p
      BY <1>0, <1>2, <3>1, OfferEffect
    <3>3. run'.offered = p
      BY <1>0, <3>1 DEF TakesOffer, CheckpointAt, Runs
    <3> QED BY <3>2, <3>3
  <2> QED BY <1>2, <2>1, <2>2, PlacesFrom
<1> QED BY <1>1, <1>2

-----------------------------------------------------------------------------
(* Its steps *)

\* The contract's words about the log are the notebook's.
LEMMA SameWords ==
        /\ \A k, p : /\ Contract!VersionAt(k, p) = VersionAt(k, p)
                     /\ Contract!LiveAt(k, p) <=> LiveAt(k, p)
        /\ \A v : /\ Contract!IsUpsert(v) <=> IsUpsert(v)
                  /\ Contract!IsDelete(v) <=> IsDelete(v)
        /\ \A k, v : Contract!DeletedSince(k, v) <=> DeletedSince(k, v)
BY DEF Contract!VersionAt, VersionAt, Contract!LiveAt, LiveAt, Contract!IsUpsert, IsUpsert,
  Contract!IsDelete, IsDelete, Contract!DeletedSince, DeletedSince, Contract!Max, Max

\* Notes of one key come or go.
LEMMA OneKeyChanges ==
  ASSUME NEW k \in Keys, \A j \in Keys \ {k} : NotesOf(disk'.notes, j) = NotesOf(disk.notes, j)
  PROVE  Shelf' = [Shelf EXCEPT ![k] = Newest(disk'.notes, k)]
  BY DEF Shelf, Newest, NotesOf

LEMMA ShelfStays ==
  ASSUME NEW k \in Keys, NEW v, v = Shelf[k], Shelf' = [Shelf EXCEPT ![k] = v]
  PROVE  Shelf' = Shelf
<1>1. [Shelf EXCEPT ![k] = v] = Shelf
  BY DEF Shelf
<1> QED BY <1>1

\* Installing a Note shelves its object, at a version from the mark on.
LEMMA InstallShelves ==
  ASSUME IInv, Accounted, Current, InstallNote
  PROVE  /\ disk'.cursor = disk.cursor
         /\ Shelf' = Shelf \/ \E k \in Keys, p \in Mark .. Len(log) :
              /\ LiveAt(k, p) /\ VersionAt(k, p) > Shelf[k]
              /\ Shelf' = [Shelf EXCEPT ![k] = VersionAt(k, p)]
<1>0. /\ TypeOK /\ Facts /\ StoreTypeOK /\ disk.notes \in SUBSET Notes /\ disk.notes \subseteq NotesAbout
      /\ run.pc \in Installing /\ run.pc = "note" /\ Len(log) \in Nat
  BY DEF IInv, TypeOK, StoreTypeOK, Directories, InstallNote, Installing, NotesAbout, UpstreamTypeOK
<1>1. PICK n \in Notes :
        /\ run.note = {n} /\ run.key = {n.key} /\ n \in NotesAbout
        /\ n.version = run.reported[n.key] /\ n.version > 0
        /\ \A m \in NotesAbout : m.key = n.key => m.version <= n.version
  BY <1>0, OneNote
<1> DEFINE k == n.key
           v == n.version
<1>2. /\ disk'.notes = (disk.notes \ Named(disk.notes, Filename(n))) \cup {n}
      /\ disk'.cursor = disk.cursor
  BY <1>0, <1>1, StoreEffects DEF InstallNote
<1>3. /\ k \in Keys /\ v \in 1 .. Len(log) /\ IsUpsert(v) /\ log[v].key = k
  BY <1>0, <1>1 DEF Notes, Facts, NotesAreReal
<1>4. \A j \in Keys \ {k} : NotesOf(disk'.notes, j) = NotesOf(disk.notes, j)
  <2>1. \A m \in disk.notes : Filename(m) = Filename(n) => m.key = k
    BY <1>0, <1>1, NamesAreOwn
  <2> QED BY <1>2, <2>1 DEF NotesOf, Named
<1>5. Newest(disk'.notes, k) = v
  <2>1. disk'.notes \in SUBSET Notes
    BY <1>0, <1>2
  <2>2. PICK m : m = Newest(disk'.notes, k)
    OBVIOUS
  <2>3. \A l \in disk'.notes : l.key = k => l.version <= v
    BY <1>0, <1>1, <1>2 DEF Notes
  <2>4. m \in 0 .. MaxVersion /\ v <= m /\ (m > 0 => \E l \in disk'.notes : l.key = k /\ l.version = m)
    BY <1>2, <2>1, <2>2, NewestIs
  <2> QED BY <1>3, <2>2, <2>3, <2>4
<1>6. Shelf' = [Shelf EXCEPT ![k] = v]
  BY <1>3, <1>4, <1>5, OneKeyChanges
<1>7. PICK s : s = Newest(disk.notes, k)
  OBVIOUS
<1>8. s \in 0 .. MaxVersion /\ s <= v
  <2>1. s \in 0 .. MaxVersion /\ (s > 0 => \E l \in disk.notes : l.key = k /\ l.version = s)
    BY <1>0, <1>7, NewestIs
  <2> QED BY <1>0, <1>1, <1>3, <2>1
<1>9. Shelf[k] = s
  BY <1>3, <1>7 DEF Shelf
<1>10. CASE s = v
  BY <1>2, <1>3, <1>6, <1>9, <1>10, ShelfStays
<1>11. CASE s # v
  <2>1. /\ Mark \in Nat /\ Mark <= Len(log) /\ VersionAt(k, Mark) <= v
    <3>1. Mark \in {0} \cup disk.cursor
      BY <1>0, MarkIs
    <3>2. CASE Mark = 0
      BY <1>0, <1>3, <3>2, VersionIsLast
    <3>3. CASE Mark \in disk.cursor
      <4>1. Mark \in Marks
        BY <3>3 DEF Marks
      <4> QED BY <1>0, <1>1, <4>1 DEF Accounted, Current
    <3> QED BY <3>1, <3>2, <3>3
  <2>2. PICK p : p = IF Mark >= v THEN Mark ELSE v
    OBVIOUS
  <2>3. p \in Mark .. Len(log) /\ p \in Nat /\ v \in 1 .. p
    BY <1>0, <1>3, <2>1, <2>2
  <2>4. VersionAt(k, p) = v
    <3>1. VersionAt(k, p) \in 0 .. p /\ v <= VersionAt(k, p)
      BY <1>3, <2>3, VersionIsLast
    <3> QED BY <1>3, <2>1, <2>2, <3>1
  <2>5. LiveAt(k, p) /\ VersionAt(k, p) > Shelf[k]
    BY <1>3, <1>8, <1>9, <1>11, <2>4 DEF LiveAt
  <2> QED BY <1>2, <1>3, <1>6, <2>3, <2>4, <2>5
<1> QED BY <1>2, <1>10, <1>11

\* The name replaced had no newer version of its object.
LEMMA SupersededIsOlder ==
  ASSUME IInv, RemoveSuperseded
  PROVE  disk'.cursor = disk.cursor /\ Shelf' = Shelf
<1>0. /\ TypeOK /\ Facts /\ StoreTypeOK /\ disk.notes \in SUBSET Notes /\ disk.notes \subseteq NotesAbout
      /\ run.pc \in Installing /\ run.pc \in Installing \ {"note"}
  BY DEF IInv, TypeOK, StoreTypeOK, Directories, RemoveSuperseded, Installing, NotesAbout
<1>1. PICK n \in Notes :
        /\ run.note = {n} /\ n \in disk.notes
        /\ \A m \in NotesAbout : m.key = n.key => m.version <= n.version
  BY <1>0, OneNote
<1>2. PICK name \in Superseded : UnlinkNote(name)
  BY DEF RemoveSuperseded
<1>3. disk'.notes = disk.notes \ Named(disk.notes, name) /\ disk'.cursor = disk.cursor
  BY <1>0, <1>2, StoreEffects
<1>4. PICK l \in NotesAbout : l.key = n.key /\ name = Filename(l) /\ name # Filename(n)
  BY <1>0, <1>1, SupersededIsOwn
<1>5. n \in disk'.notes /\ disk'.notes \subseteq disk.notes /\ n.key \in Keys
  BY <1>1, <1>3, <1>4 DEF Named, Notes
<1>6. \A j \in Keys \ {n.key} : NotesOf(disk'.notes, j) = NotesOf(disk.notes, j)
  <2>1. \A m \in disk.notes : Filename(m) = name => m.key = n.key
    BY <1>0, <1>4, NamesAreOwn
  <2> QED BY <1>3, <2>1 DEF NotesOf, Named
<1>7. ASSUME NEW N, n \in N, N \subseteq disk.notes PROVE Newest(N, n.key) = n.version
  <2>1. PICK m : m = Newest(N, n.key)
    OBVIOUS
  <2>2. \A x \in N : x.key = n.key => x.version <= n.version
    BY <1>0, <1>1, <1>7
  <2>3. /\ m \in 0 .. MaxVersion /\ n.version <= m
        /\ m > 0 => \E x \in N : x.key = n.key /\ x.version = m
    BY <1>0, <1>7, <2>1, NewestIs
  <2>4. n.version \in 1 .. MaxVersion
    BY DEF Notes
  <2> QED BY <2>1, <2>2, <2>3, <2>4
<1>8. Newest(disk'.notes, n.key) = n.version /\ Newest(disk.notes, n.key) = n.version
  BY <1>1, <1>5, <1>7
<1>9. Shelf' = [Shelf EXCEPT ![n.key] = n.version]
  BY <1>5, <1>6, <1>8, OneKeyChanges
<1>10. Shelf[n.key] = n.version
  BY <1>5, <1>8 DEF Shelf
<1> QED BY <1>3, <1>5, <1>9, <1>10, ShelfStays

\* A removal takes the one Note of its object, which was deleted upstream.
LEMMA RemovalUnshelves ==
  ASSUME IInv, Exact, RemoveNote \/ Sweep, [Next]_vars, ~ PowerLoss
  PROVE  /\ disk'.cursor = disk.cursor
         /\ Shelf' = Shelf \/ \E k \in Keys :
              /\ Shelf[k] > 0 /\ DeletedSince(k, Shelf[k])
              /\ Shelf' = [Shelf EXCEPT ![k] = 0]
<1>0. /\ TypeOK /\ Facts /\ StoreTypeOK /\ disk.notes \in SUBSET Notes /\ disk.notes \subseteq NotesAbout
  BY DEF IInv, TypeOK, StoreTypeOK, Directories, NotesAbout
<1>1. OneEach(disk.notes)
  BY <1>0, IndexedIsOneEach DEF RemoveNote, Sweep, Untouched, Rest, Sweeping
<1>2. PICK name : UnlinkNote(name)
  BY DEF RemoveNote, Sweep
<1>3. disk'.notes = disk.notes \ Named(disk.notes, name) /\ disk'.cursor = disk.cursor
  BY <1>0, <1>2, StoreEffects
<1>4. CASE Named(disk.notes, name) = {}
  BY <1>3, <1>4 DEF Shelf, Newest
<1>5. CASE Named(disk.notes, name) # {}
  <2>1. PICK n \in disk.notes : Filename(n) = name
    BY <1>5 DEF Named
  <2>2. n \in NotesAbout /\ n \in Notes /\ n.key \in Keys /\ n.version \in 1 .. MaxVersion
    BY <1>0 DEF Notes
  <2>3. \A j \in Keys \ {n.key} : NotesOf(disk'.notes, j) = NotesOf(disk.notes, j)
    <3>1. \A m \in disk.notes : Filename(m) = name => m.key = n.key
      BY <1>0, <2>1, <2>2, NamesAreOwn
    <3> QED BY <1>3, <3>1 DEF NotesOf, Named
  <2>4. \A m \in disk'.notes : m.key # n.key
    <3>1. \A m \in disk.notes : m.key = n.key => m = n
      BY <1>1 DEF OneEach
    <3> QED BY <1>3, <2>1, <3>1 DEF Named
  <2>5. Newest(disk'.notes, n.key) = 0
    <3>1. disk'.notes \in SUBSET Notes
      BY <1>0, <1>3
    <3>2. PICK m : m = Newest(disk'.notes, n.key)
      OBVIOUS
    <3>3. m \in 0 .. MaxVersion /\ (m > 0 => \E x \in disk'.notes : x.key = n.key /\ x.version = m)
      BY <3>1, <3>2, NewestIs
    <3> QED BY <2>4, <3>2, <3>3
  <2>6. Newest(disk.notes, n.key) = n.version
    <3>1. PICK m : m = Newest(disk.notes, n.key)
      OBVIOUS
    <3>2. /\ m \in 0 .. MaxVersion /\ n.version <= m
          /\ m > 0 => \E x \in disk.notes : x.key = n.key /\ x.version = m
      BY <1>0, <3>1, NewestIs
    <3>3. \A x \in disk.notes : x.key = n.key => x = n
      BY <1>1 DEF OneEach
    <3> QED BY <2>2, <3>1, <3>2, <3>3
  <2>7. DeletedSince(n.key, n.version)
    BY <2>4, StepIsForward DEF Forward
  <2>8. Shelf' = [Shelf EXCEPT ![n.key] = 0]
    BY <2>2, <2>3, <2>5, OneKeyChanges
  <2>9. Shelf[n.key] = n.version
    BY <2>2, <2>6 DEF Shelf
  <2>10. Shelf[n.key] > 0 /\ DeletedSince(n.key, Shelf[n.key])
    BY <2>2, <2>7, <2>9
  <2> QED BY <1>3, <2>2, <2>8, <2>10
<1> QED BY <1>3, <1>4, <1>5

\* The cursor advances over what the Notes show.
LEMMA CursorAdvances ==
  ASSUME IInv, Accounted, Cleared, Ahead, WriteCursor
  PROVE  /\ disk'.notes = disk.notes
         /\ \E p \in Mark .. Len(log) :
              /\ Mark' = p
              /\ \A k \in Covered : LET v == VersionAt(k, p) IN
                   /\ IsUpsert(v) => Shelf[k] >= v \/ DeletedSince(k, v)
                   /\ IsDelete(v) /\ field.tombstones => Shelf[k] = 0 \/ Shelf[k] > v
<1>0. /\ TypeOK /\ StoreTypeOK /\ run \in Runs /\ session \in Sessions /\ Len(log) \in Nat
      /\ disk.notes \in SUBSET Notes /\ disk.notes \in Views /\ run.pc = "cursor"
  BY ViewsAreNotes DEF IInv, TypeOK, StoreTypeOK, Directories, UpstreamTypeOK, WriteCursor
<1>1. PICK o \in session.committed : RenameCursor(o.cursor)
  BY DEF WriteCursor
<1>2. PICK p : p = o.cursor
  OBVIOUS
<1>3. p \in 0 .. MaxVersion /\ p <= Len(log) /\ \A c \in disk.cursor : c <= p
  BY <1>0, <1>2 DEF Sessions, Offers, Accounted, Ahead
<1>4. disk'.cursor = {p} /\ disk'.notes = disk.notes
  BY <1>0, <1>1, <1>2, <1>3, StoreEffects
<1>5. p \in Mark .. Len(log)
  BY <1>0, <1>3, MarkIs
<1>6. Mark' = p
  <2>1. PICK S \in SUBSET (0 .. MaxVersion) : S = {p}
    BY <1>3
  <2>2. PICK m : m = Max({0} \cup S)
    OBVIOUS
  <2>3. m \in {0} \cup S /\ p <= m
    BY <2>1, <2>2, GreatestIs
  <2>4. m = p
    BY <1>3, <2>1, <2>3
  <2> QED BY <1>4, <2>1, <2>2, <2>4 DEF Mark
<1>7. ASSUME NEW k \in Covered, NEW v, v = VersionAt(k, p)
      PROVE  /\ IsUpsert(v) => Shelf[k] >= v \/ DeletedSince(k, v)
             /\ IsDelete(v) /\ field.tombstones => Shelf[k] = 0 \/ Shelf[k] > v
  <2>1. k \in Keys /\ v \in Nat
    BY <1>3, <1>7, VersionIsLast DEF Covered
  <2>2. Held(k, v) /\ Gone(k, v)
    BY <1>0, <1>2, <1>7 DEF Accounted, Cleared
  <2>a. disk.notes \in SUBSET Notes
    BY <1>0
  <2>3. PICK m : m = Newest(disk.notes, k)
    OBVIOUS
  <2>4. /\ m \in 0 .. MaxVersion /\ (\A n \in disk.notes : n.key = k => n.version <= m)
        /\ m > 0 => \E n \in disk.notes : n.key = k /\ n.version = m
    BY <2>a, <2>3, NewestIs
  <2>5. Shelf[k] = m
    BY <2>1, <2>3 DEF Shelf
  <2>6. IsUpsert(v) => m >= v \/ DeletedSince(k, v)
    <3>1. IsUpsert(v) => (\E n \in disk.notes : n.key = k /\ n.version >= v) \/ DeletedSince(k, v)
      BY <1>0, <2>2 DEF Held, Kept
    <3>2. \A n \in disk.notes : n.version \in Nat
      BY <1>0 DEF Notes
    <3> QED BY <2>1, <2>4, <3>1, <3>2
  <2>7. IsDelete(v) /\ field.tombstones => m = 0 \/ m > v
    BY <1>0, <2>2, <2>4 DEF Gone
  <2> QED BY <2>5, <2>6, <2>7
<1> QED BY <1>4, <1>5, <1>6, <1>7

\* A cursor that is forgotten marks the beginning.
LEMMA ForgottenMark ==
  ASSUME disk'.cursor = {}
  PROVE  Mark' = 0
<1>1. PICK m : m = Max({0} \cup {})
  OBVIOUS
<1>2. m \in {0} \cup {}
  BY <1>1, GreatestIs
<1> QED BY <1>1, <1>2 DEF Mark

\* What the contract calls a step, in the notebook's words.
LEMMA ContractWords ==
  /\ UNCHANGED <<log, Mark>> /\ (\E k \in Keys, p \in Mark .. Len(log) :
              /\ LiveAt(k, p) /\ VersionAt(k, p) > Shelf[k]
              /\ Shelf' = [Shelf EXCEPT ![k] = VersionAt(k, p)])
        => Contract!Shelve
  /\ UNCHANGED <<log, Mark>> /\ (\E k \in Keys :
              /\ Shelf[k] > 0 /\ DeletedSince(k, Shelf[k])
              /\ Shelf' = [Shelf EXCEPT ![k] = 0])
        => Contract!Unshelve
  /\ UNCHANGED <<log, Shelf>> /\ (\E p \in Mark .. Len(log) :
              /\ Mark' = p
              /\ \A k \in Covered : LET v == VersionAt(k, p) IN
                   /\ IsUpsert(v) => Shelf[k] >= v \/ DeletedSince(k, v)
                   /\ IsDelete(v) /\ field.tombstones => Shelf[k] = 0 \/ Shelf[k] > v)
        => Contract!AdvanceMark
  /\ UNCHANGED <<log, Shelf>> /\ Mark' = 0 => Contract!Rewind
<1>1. /\ UNCHANGED <<log, Mark>> /\ (\E k \in Keys, p \in Mark .. Len(log) :
              /\ LiveAt(k, p) /\ VersionAt(k, p) > Shelf[k]
              /\ Shelf' = [Shelf EXCEPT ![k] = VersionAt(k, p)])
      => Contract!Shelve
  BY SameWords DEF Contract!Shelve, Shelf, Mark, Newest
<1>2. /\ UNCHANGED <<log, Mark>> /\ (\E k \in Keys :
              /\ Shelf[k] > 0 /\ DeletedSince(k, Shelf[k])
              /\ Shelf' = [Shelf EXCEPT ![k] = 0])
      => Contract!Unshelve
  BY SameWords DEF Contract!Unshelve, Shelf, Mark, Newest
<1>3. /\ UNCHANGED <<log, Shelf>> /\ (\E p \in Mark .. Len(log) :
              /\ Mark' = p
              /\ \A k \in Covered : LET v == VersionAt(k, p) IN
                   /\ IsUpsert(v) => Shelf[k] >= v \/ DeletedSince(k, v)
                   /\ IsDelete(v) /\ field.tombstones => Shelf[k] = 0 \/ Shelf[k] > v)
      => Contract!AdvanceMark
  BY SameWords DEF Contract!AdvanceMark, Contract!Shows, Shelf, Mark, Newest
<1>4. UNCHANGED <<log, Shelf>> /\ Mark' = 0 => Contract!Rewind
  BY DEF Contract!Rewind, Shelf, Mark, Newest
<1> QED BY <1>1, <1>2, <1>3, <1>4

\* The upstream of a run is the contract's.
LEMMA UpstreamIsTheContracts ==
  ASSUME TypeOK, UpstreamChanges
  PROVE  Contract!UpstreamStep
<1>1. /\ field.changes <= MaxVersion /\ field.times \subseteq Times
      /\ field.artifacts \subseteq Artifacts
      /\ field.changes \in Nat /\ Len(log) \in Nat /\ MaxVersion \in Nat
  BY SyncAssumption, UpstreamAssumption DEF TypeOK, FieldTypes, UpstreamTypeOK
<1>2. Len(log) < field.changes
  BY DEF UpstreamChanges, ChangeWithin
<1>3. Len(log) < MaxVersion
  BY <1>1, <1>2
<1>4. PICK c \in Changes :
        /\ c.time \in field.times \cup {0} /\ c.artifacts \subseteq field.artifacts
        /\ c.change = "delete" => LiveAt(c.key, Len(log))
        /\ \A a, b \in c.artifacts : a = b
        /\ log' = Append(log, c)
  BY DEF UpstreamChanges, ChangeWithin
<1>5. c.time \in Times \cup {0} /\ c.artifacts \subseteq Artifacts /\ c \in Contract!Changes
  BY <1>1, <1>4 DEF Changes, Contract!Changes
<1>6. Contract!Change
  BY <1>3, <1>4, <1>5, SameWords DEF Contract!Change, Contract!ChangeWithin
<1> QED BY <1>6 DEF Contract!UpstreamStep, UpstreamChanges

\* Every step of a sync is a step of the contract, or none.
LEMMA StepsAreTheContracts ==
  ASSUME IInv, Ahead, Exact, Accounted, Current, Cleared, [Next]_vars, ~ PowerLoss
  PROVE  [Contract!ContractNext]_(Contract!contractVars)
<1>0. TypeOK /\ field' = field
  BY FaultsGrow DEF IInv
<1>1. UNCHANGED <<Covered, field.tombstones>>
  BY <1>0 DEF Covered
<1>2. CASE UpstreamChanges
  BY <1>0, <1>1, <1>2, UpstreamIsTheContracts DEF Contract!ContractNext
<1>3. CASE UNCHANGED log
  <2> DEFINE Steps == \/ Contract!Shelve \/ Contract!Unshelve \/ Contract!AdvanceMark
                      \/ Contract!Rewind \/ UNCHANGED <<Shelf, Mark>>
  <2>1. ASSUME InstallNote PROVE Steps
    <3>1. Mark' = Mark
      BY <2>1, InstallShelves DEF Mark
    <3> QED BY <1>3, <2>1, <3>1, InstallShelves, ContractWords
  <2>2. ASSUME RemoveSuperseded PROVE Steps
    BY <2>2, SupersededIsOlder DEF Mark
  <2>3. ASSUME RemoveNote \/ Sweep PROVE Steps
    <3>1. Mark' = Mark
      BY <2>3, RemovalUnshelves DEF Mark
    <3> QED BY <1>3, <2>3, <3>1, RemovalUnshelves, ContractWords
  <2>4. ASSUME disk'.notes = disk.notes PROVE Steps
    <3>0. Shelf' = Shelf
      BY <2>4 DEF Shelf, Newest
    <3>1. CASE WriteCursor
      BY <1>3, <3>0, <3>1, CursorAdvances, ContractWords
    <3>2. CASE disk'.cursor = disk.cursor
      BY <3>0, <3>2 DEF Mark
    <3>3. CASE disk'.cursor = {}
      BY <1>3, <3>0, <3>3, ForgottenMark, ContractWords
    <3> QED BY <3>1, <3>2, <3>3, StoreFields
  <2>5. Steps
    BY <2>1, <2>2, <2>3, <2>4, NotesChangeIn
  <2>6. UNCHANGED <<Shelf, Mark>> => UNCHANGED Contract!contractVars
    BY <1>1, <1>3 DEF Contract!contractVars, Shelf, Mark, Newest
  <2> QED BY <1>1, <2>5, <2>6 DEF Contract!ContractNext
<1> QED BY <1>2, <1>3, LogChanges

LEMMA ContractBegins == Init => Contract!ContractInit /\ Ahead
<1> SUFFICES ASSUME Init PROVE Contract!ContractInit /\ Ahead
  OBVIOUS
<1>1. TypeOK /\ disk = EmptyNotebook /\ log = <<>> /\ run.pc = "idle"
  BY InitKeeps DEF IInv, Init, StoreInit, UpstreamInit, Idle
<1>2. Covered \subseteq Keys /\ field.tombstones \in BOOLEAN
  BY <1>1, FieldIsTyped DEF Covered
<1>3. PICK m : m = Max({0} \cup {})
  OBVIOUS
<1>4. m = 0
  <2>1. m \in {0} \cup {}
    BY <1>3, GreatestIs
  <2> QED BY <2>1
<1>5. Mark = 0
  BY <1>1, <1>3, <1>4 DEF Mark, EmptyNotebook
<1>6. \A k \in Keys : Newest(disk.notes, k) = 0
  <2> SUFFICES ASSUME NEW k \in Keys PROVE Newest(disk.notes, k) = 0
    OBVIOUS
  <2>1. {n.version : n \in NotesOf(disk.notes, k)} = {}
    BY <1>1 DEF EmptyNotebook, NotesOf
  <2> QED BY <1>3, <1>4, <2>1 DEF Newest
<1>7. Shelf = [k \in Keys |-> 0]
  BY <1>6 DEF Shelf
<1> QED BY <1>1, <1>2, <1>5, <1>7
        DEF Contract!ContractInit, Contract!UpstreamInit, Shelf, Mark, Newest, Ahead

\* A sync keeps the contract: what any run does to the notebook, kills and
\* failures included, is a step of the shelf and the mark or leaves both alone.
THEOREM KeepsTheContractAlways ==
  ASSUME PowerStays, TimesStand
  PROVE  Spec => KeepsTheContract
<1>1. PowerComesAlone
  BY DEF PowerStays, PowerComesAlone
<1>2. Init => Contract!ContractInit /\ Ahead
  BY ContractBegins
<1>3. Spec => []Whole
  BY <1>1, WholeHolds
<1>4. Whole /\ Ahead /\ [Next]_vars => Ahead'
  BY AheadStays DEF Whole
<1>5. Whole /\ Ahead /\ [Next]_vars => [Contract!ContractNext]_(Contract!contractVars)
  <2> SUFFICES ASSUME Whole, Ahead, [Next]_vars
               PROVE  [Contract!ContractNext]_(Contract!contractVars)
    OBVIOUS
  <2>1. ~ PowerLoss
    BY SyncAssumption DEF PowerLoss, Fault, PowerStays, Whole, IInv, TypeOK
  <2> QED BY <2>1, StepsAreTheContracts DEF Whole, Single
<1> QED BY <1>2, <1>3, <1>4, <1>5, PTL DEF Spec, KeepsTheContract, Contract!ContractSpec
=============================================================================
