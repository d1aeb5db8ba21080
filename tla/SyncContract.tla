---------------------------- MODULE SyncContract ----------------------------
(***************************************************************************)
(* What syncing a Field promises, without runs, sessions or files: a shelf *)
(* with the version of each object the notebook holds, and a mark up to    *)
(* which the upstream is accounted for.                                    *)
(***************************************************************************)
EXTENDS Upstream

VARIABLES
  accountable,     \* keys the mark speaks for, the same for ever
  tombstones,      \* whether the mark accounts for deletions as well, likewise
  shelf,           \* version of each object on the shelf, 0 if it has none
  mark             \* position in the log up to which everything is accounted for

contractVars == <<accountable, tombstones, log, shelf, mark>>

ContractInit ==
  /\ accountable \subseteq Keys /\ tombstones \in BOOLEAN
  /\ UpstreamInit
  /\ shelf = [k \in Keys |-> 0] /\ mark = 0

\* The shelf shows the change of `k` at or before `p`, or a later one.
Shows(k, p) ==
  LET v == VersionAt(k, p) IN
  /\ IsUpsert(v) => shelf[k] >= v \/ DeletedSince(k, v)
  /\ IsDelete(v) /\ tombstones => shelf[k] = 0 \/ shelf[k] > v

UpstreamStep == Change /\ UNCHANGED <<shelf, mark>>

\* An object is shelved at a version it had no earlier than the mark, and never
\* put back to an older one.
Shelve ==
  /\ \E k \in Keys, p \in mark .. Len(log) :
       /\ LiveAt(k, p) /\ VersionAt(k, p) > shelf[k]
       /\ shelf' = [shelf EXCEPT ![k] = VersionAt(k, p)]
  /\ UNCHANGED <<log, mark>>

\* An object leaves the shelf when it was deleted upstream.
Unshelve ==
  /\ \E k \in Keys :
       /\ shelf[k] > 0 /\ DeletedSince(k, shelf[k])
       /\ shelf' = [shelf EXCEPT ![k] = 0]
  /\ UNCHANGED <<log, mark>>

\* The mark advances only over what the shelf shows.
AdvanceMark ==
  /\ \E p \in mark .. Len(log) :
       /\ \A k \in accountable : Shows(k, p)
       /\ mark' = p
  /\ UNCHANGED <<log, shelf>>

\* A mark may be forgotten: that costs repeated work and nothing else.
Rewind == mark' = 0 /\ UNCHANGED <<log, shelf>>

ContractNext ==
  /\ UpstreamStep \/ Shelve \/ Unshelve \/ AdvanceMark \/ Rewind
  /\ UNCHANGED <<accountable, tombstones>>

ContractSpec == ContractInit /\ [][ContractNext]_contractVars

\* The mark never leads: whatever it accounts for is on the shelf, or was
\* deleted upstream since (sync/mod.rs, "why the cursor cannot lead").
MarkNeverLeads == \A k \in accountable : Shows(k, mark)
=============================================================================
