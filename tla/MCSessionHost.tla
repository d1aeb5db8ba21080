---------------------------- MODULE MCSessionHost ---------------------------
(* Small instances of SessionHost for TLC. *)
EXTENDS SessionHost, TLC

CONSTANTS k1, u1, u2, d1

\* A Field with deletion authority and no version ordering, as the shipped ones
\* are, and one that orders its versions and reports no tombstones.
Trusted == [tombstones |-> TRUE, snapshots |-> TRUE, version_ordering |-> FALSE]
Ordered == [tombstones |-> FALSE, snapshots |-> TRUE, version_ordering |-> TRUE]

Incremental        == [mode |-> "incremental", scope |-> {}, windowed |-> FALSE]
Snapshot(windowed) == [mode |-> "snapshot", scope |-> {"all"}, windowed |-> windowed]

MCRuns == { <<Trusted, Incremental>>, <<Trusted, Snapshot(FALSE)>>,
            <<Ordered, Snapshot(TRUE)>> }

Symmetry == Permutations({u1, u2})

\* Core's own runs seed nothing.
MCUnseeded == {NothingSeen}
=============================================================================
