----------------------------- MODULE MCSyncRun ------------------------------
(* Small instances of SyncRun for TLC. *)
EXTENDS SyncRun, TLC

CONSTANTS k1, k2, a1, a2

OneScope == [k \in Keys |-> "first"]

\* A Field that reports deletions, with an artifact of each object, while core
\* is killed, a write fails or the machine loses power.
CrashField ==
  [ tombstones |-> TRUE, version_ordering |-> FALSE, window_supported |-> FALSE,
    old |-> {}, scope_of |-> OneScope, modes |-> {"incremental", "snapshot"},
    changes |-> 3, times |-> {1}, artifacts |-> {a1}, faults |-> {"kill", "io", "power"} ]

\* A Field that is only asked for what changed, with more artifacts than fit one
\* run's budget.
IncrementalField ==
  [CrashField EXCEPT !.modes = {"incremental"}, !.changes = 2, !.artifacts = {a1, a2},
                     !.faults = {"kill", "io", "frame", "exit", "forget"}]

\* A Field that does not report deletions: only its snapshots show them.
SnapshotField ==
  [CrashField EXCEPT !.tombstones = FALSE, !.modes = {"snapshot"}, !.changes = 2, !.artifacts = {},
                     !.faults = {"kill", "io", "frame", "exit", "partial", "forget"}]

\* A Field with two scopes, ordered versions and a window on its first run that
\* leaves out the object of `k`; its objects change their event time, and it
\* breaks off in every way.
WindowedField(k) ==
  [CrashField EXCEPT !.version_ordering = TRUE, !.window_supported = TRUE, !.old = {k},
                     !.scope_of = [OneScope EXCEPT ![k] = "second"],
                     !.changes = 2, !.times = {1, 2}, !.artifacts = {},
                     !.faults = {"frame", "exit", "diagnostic", "partial", "forget"}]

\* Closed under the permutations of the keys, as the symmetry needs it.
FaultyFields    == {CrashField} \cup {WindowedField(k) : k \in Keys}
RepeatingFields == {IncrementalField, SnapshotField}

KeySymmetry == Permutations(Keys)
=============================================================================
