------------------------------ MODULE Upstream ------------------------------
(***************************************************************************)
(* The world a Field collects from (external to the repository): objects   *)
(* under portable source keys that are created, edited and deleted.  The   *)
(* upstream is the log of these changes; the version of an object is the   *)
(* position of its last change.                                            *)
(***************************************************************************)
EXTENDS Integers, Sequences, FiniteSets, FiniteSetsExt

CONSTANTS
  Keys,          \* portable exact-source keys of one Field
  Times,         \* event times of upstream objects
  Artifacts,     \* digests of original artifacts
  MaxVersion     \* bound: the upstream changes this often

ASSUME UpstreamAssumption == Times \subseteq Nat /\ MaxVersion \in Nat

VARIABLE log

Changes ==
  [key : Keys, change : {"upsert"}, time : Times, artifacts : SUBSET Artifacts]
  \cup [key : Keys, change : {"delete"}, time : {0}, artifacts : {{}}]

UpstreamTypeOK == log \in Seq(Changes) /\ Len(log) <= MaxVersion

\* The version of a key at the moment the log had length `p`, 0 if it had none.
VersionAt(key, p) == Max({0} \cup {v \in 1 .. p : log[v].key = key})
Version(key) == VersionAt(key, Len(log))

IsUpsert(v) == v > 0 /\ log[v].change = "upsert"
IsDelete(v) == v > 0 /\ log[v].change = "delete"

LiveAt(key, p) == IsUpsert(VersionAt(key, p))

\* The key had an object upstream at every moment from `from` until now.
LiveSince(key, from) == \A p \in from .. Len(log) : LiveAt(key, p)

\* The key was deleted upstream after its version `v`.
DeletedSince(key, v) == \E d \in v + 1 .. Len(log) : IsDelete(d) /\ log[d].key = key

UpstreamInit == log = <<>>

\* An object is created or edited, or a live one deleted; at most one artifact
\* belongs to it.  The parameters bound what comes up.
ChangeWithin(changes, times, artifacts) ==
  /\ Len(log) < changes
  /\ \E c \in Changes :
       /\ c.time \in times \cup {0} /\ c.artifacts \subseteq artifacts
       /\ c.change = "delete" => LiveAt(c.key, Len(log))
       /\ \A a, b \in c.artifacts : a = b
       /\ log' = Append(log, c)

Change == ChangeWithin(MaxVersion, Times, Artifacts)
=============================================================================
