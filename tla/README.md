# Fieldnotes: TLA+ models and proofs

Fieldnotes collects a person's objects (mail, contacts, calendar events, local
files) into a notebook: a directory of Markdown Notes with their original
artifacts. Core runs one short-lived child process per source, a *Field*, which
writes a stream of frames to standard output: records, checkpoints that offer a
resume cursor, diagnostics. Core turns the records into durable Notes and stores
the cursor last. Other commands configure Fields, write Notes by hand, inspect
the notebook, and derive a graph of people from it.

The promise that is hard to test is about what is left after things go wrong:
**the cursor may lag, it never leads; a Note goes only when its object is gone;
a replay changes nothing that is right.** The modules here state that promise,
check it on small instances with every crash point and interleaving, and prove
it for all instances, from the session's frames to the notebook that a kill or a
power loss leaves. Around it they follow the same promise outwards: to the Fields
that offer the cursors, the process and the frames that carry them, the credential
that lets a Field run, the configuration a run starts from, and the bytes and the
graph that come out.

## 1. The system

| component | state it keeps | operations | talks to | hard because |
|---|---|---|---|---|
| collect session, `field-protocol/session.rs` | sequence, counters, accepted and durable records, pending offer, committed cursor, last assertion per key, claim | `accept`, `resolve_artifacts`, `record_durable`, `commit`, `withhold`, `note_rejection`, `finish` | called by sync and by the conformance kit | order of calls; stale offers; rejection with an offer pending; a claim that outlives its checkpoint |
| sync orchestration, `app/sync/mod.rs` | one run: index, reported keys, failure, withheld checkpoints | `prepare_and_collect`, `collect`, `apply_record`, `commit_checkpoint`, `remove_absent_notes` | Field process (frames, exit), session, store, credentials | a crash or failed write between two durable steps; deletion by absence |
| notebook store, `store/{note,atomic,artifact,source_index,fields}.rs` | `notes/`, `artifacts/`, cursor files, configuration | stage, rename, fsync of directories, unlink, scan | sync, notebook commands | what a kill leaves and what a power loss leaves are different things |
| local Field, `fields/fieldnotes-field-local` | none but its cursor, which core stores | walk, build a record, encode and advance the cursor, claim completeness | the directory (which changes meanwhile), core | whole-second watermark; record bound; files that go away |
| Outlook mail, calendar, contacts Fields; Graph client | delta link in the cursor | delta pages, retries, records, staging | Graph, core, credential channel | record bound against page boundaries; retries; items that cannot be mapped |
| Field SDK, `field-sdk` | sequence number, counters, `write_failed` | `record`, `diagnostic`, `checkpoint`, `write` | a Field's loop, core's session | a number taken for a frame that is not written |
| Field process host, `field-protocol/host.rs` | child, two reader threads, a bounded channel | `send`, `next_frame`, `wait`, kill, join | operating system | timeouts; blocked writers; inherited pipes |
| frames and messages, `field-protocol/{framing,message,declared,artifact}.rs` | none | decode, validate, resolve an artifact | host, session, kit | five layers refuse for their own reasons, in a fixed order |
| conformance kit and fixture | a run, a simulated notebook | describe, collect, resume | host, session | a scenario must be refused for its own reason |
| credential channel, token broker | socket, grants, token; stored refresh token | serve, mint, refresh, store | Field process, OAuth endpoint, key store | one connection at a time; a rotated token that cannot be stored |
| Field configuration, `app/fields.rs` | config file with the manifest snapshot, cursor, last-run summary | add, remove, auth, status, record_manifest, migration check | sync, key store | a manifest that changes under stored state; kills between two files |
| notebook commands | notebook tree, profile | init, note, inspect, status, config set | store, record format, the user's editor | several processes and the user at once, without locks |
| record format, domain, projection | none | emit, parse, build, validate, project an event | sync, notebook commands | what is written must read back as what it was |
| graph derivation | the projections of the last build | reconcile, resolve, build, reuse IDs | Note records | merges and splits against stable record IDs |

What makes each right: the *session* commits only over durable records, moves
the cursor forward only, and authorizes deletion only on a whole, clean,
unwindowed snapshot of the requested scope. *Sync* keeps the persistence order
(artifact, Note, superseded name, durability mark, cursor), keeps identities,
and comes to rest at the upstream's state. The *store* never exposes partial
contents, and a name it has reported durable survives. A *Field* offers a cursor
only over what it has sent, and claims completeness only of what it enumerated.
The *host* ends every run and reports the child's own exit; the *channel* answers
this run's Field whoever else is connected; the *broker* never loses the only
valid refresh token. *Configuration* never hands a Field a cursor in a format it
does not declare. A *Note* a command wrote parses, validates and hashes; *inspect*
neither hides nor invents damage. The *graph* joins what a contact record joins and
no more, and its IDs follow their subject.

Sync runs one Field's run sequentially, so its interleavings are those with the
environment: the upstream that keeps changing, the Field that can send anything or
stop anywhere, the file system under a walk, and kills, power losses and failed
writes between any two durable operations. The host and the channel have threads,
and the notebook commands run as several processes: there the interleavings are
the system's own. `PROJECT.json` lists every hazard at its line, with the
properties that would catch it.

## 2. Modules

```
CollectSession            the session as operators over a session record
  SessionHost             any Field x any caller                MCSessionHost
    SessionProofs
Upstream                  the source (external)
  NotebookStore           notes, artifacts, cursor; kill and power loss
    SyncRun               runs of one Field: INSTANCE CollectSession   MCSyncRun
  SyncContract            what syncing promises; SyncRun refines it
    SyncRunProofs         the proofs of both
LocalField                the local Field and a directory that changes
  LocalFieldProofs
GraphStream, FieldEmitter a Graph collection and its pages; the SDK's emitter
  DeltaField              the three Graph Fields, run after run
    DeltaFieldProofs
ProtectedChannel          the endpoint of a run's grant
  FieldProcess            child, helper, threads, queue, core's two operations
    FieldProcessProofs
Credentials               settings, providers, endpoint, keychain
  FieldAdmin              add, remove, auth, status, sync        MCFieldAdmin
    FieldAdminProofs
Wire, Messages            checks of values and frames
  Manifests, FieldRecords, Fixture    what the Fields declare and send
    Kit                   the conformance driver: INSTANCE CollectSession   MCKit
RecordFormat, Projection  bytes of a Note; from a record event to a Note
  Notebook                init, note, inspect, config, collect   MCNotebook
    NotebookProofs
Identity                  anchors and their normalization
  IdentityGraph           the derivation, build after build      MCIdentityGraph
    IdentityGraphProofs
```

**CollectSession** has no variables: a session is a record with the fields of
`struct CollectSession`, and every method is an operator from a session (and a
frame) to the next session. An `Option` is a set with at most one element. The
checks of a record that read only the frame and the manifest are one flag,
`well_formed`; a payload stands for the semantic fingerprint. It is stateless so
that the same text is checked under an arbitrary caller (SessionHost), run by sync
(SyncRun) and by the conformance driver (Kit), and proved about.

**SessionHost** is the session's environment at its widest: frames with any
claim, coverage and cursor, out of sequence, of another run or malformed, and a
caller that marks records durable in any order and commits or withholds any offer
it ever held. `history` records what was accepted and committed, and no action
reads it to decide what the session does. `finish` changes nothing, so its answers are
state functions.

**Upstream** is a log of creations, edits and deletions; the version of an
object is the position of its last change. **NotebookStore** keeps two copies of
the directories: `disk`, what a process sees, and `durable`, what a power loss is
sure to leave. A rename or unlink changes `disk`; `sync_directory` copies it to
`durable`; a power loss picks, for each name that differs, either state. File
contents are fsynced before the rename, so a name always has whole contents.

**SyncRun** is `fieldnotes sync` of one Field, run after run. `pc` names the next
durable operation:

| step of `apply_record` and `collect` | actions |
|---|---|
| read cursor, scan Notes, window, request | `Begin` |
| accept a record; no change, delete, upsert | `TakeRepeat`, `TakeDelete`, `TakeUpsert` |
| artifact: rename, fsync | `InstallArtifact`, `SyncArtifact` |
| project and compare (`unchanged`) | `Compare` |
| Note: rename, fsync; superseded name: unlink, fsync | `InstallNote`, `SyncNote`, `RemoveSuperseded`, `SyncSuperseded` |
| tombstone: unlink, fsync | `RemoveNote`, `SyncRemoval` |
| checkpoint: session commit, cursor rename, fsync | `TakeCheckpoint`, `WriteCursor`, `FinishCursor` |
| `finish` and `remove_absent_notes` | `EndOfStream`, `Sweep`, `SyncSweep` |
| faults | `RecordWriteFails`, `CursorWriteFails`, `SweepFails`, `BadFrame`, `ErrorDiagnostic`, `PartialSnapshot`, `EarlyExit`, `Kill`, `PowerLoss`, `ForgetCursor` |

The Field of SyncRun is any Field that keeps the collection contract: it may
send in any order and repeat itself, and it offers a cursor at `p` only once
everything up to `p` has been reported. What kind of Field it is (tombstones,
version ordering, a window, scopes, modes, what may go wrong) is chosen in `Init`
from the constant `Fields` and kept in the variable `field`, so that one run covers
several kinds. A windowed first run leaves out the keys in `field.old`, which the
properties therefore do not hold the cursor to.

**SyncContract** is the promise without runs or files: a shelf with one version
of each object, and a mark that advances only over what the shelf shows. The
refinement mapping of SyncRun takes the newest Note of a key as the shelf and the
stored cursor as the mark.

**LocalField** is one Field from the other side: the directory and its clock, the
walk (listing first, then one `symlink_metadata` per child), the records, the
cursor with its tie-break list and its two ways of widening, the claim. Core is
reduced to what SyncRun shows of it: it holds what it was sent, commits the offered
cursor or not, and removes what a complete snapshot did not assert. A write sets
the file's modification time to the clock; tools that set older times are outside
the model, as they are outside what the cursor's documentation promises.

**GraphStream** is the collection Graph keeps (external) and the page stream over
it: pages bring changes in any order, the last page brings the delta link, which is
as old as the stream, and calls are tried again as `execute_get` does.
**FieldEmitter** is the SDK's emitter with the two disciplines that share it: the
calendar and contacts Fields take a number and then ask, the mail Field asks first.
**DeltaField** is the loop of the three Graph Fields over both, run after run, with
core reduced as in LocalField. A behaviour is one Field (`field.name`), its limits
and one oddity of an object: outside the window, without an event time, an
attachment whose size Graph does not state, or that cannot be decoded. A mail
attachment that cannot be fetched freezes the cursor (`TakeMessageInPart`); a
contact's photo that cannot goes missing with a warning and no more
(`TakeContactWithoutPhoto`).

**ProtectedChannel** is the worker thread that serves one connection at a time:
`Connect`, the checks of a request, the count of grants, the connection given up,
and `close` (stop, join the worker, remove the socket). **FieldProcess** puts it together with the child,
its pipes, the reader and standard-error threads, the queue of core and the two
operations of core that use them (describe and collect). The child does what it
likes and may leave a *helper* behind that inherited its input, its output or both
(`Helpers`) and knows the grant; a write of the request breaks only when nobody has
the reading end any more. Time is not counted: a timeout may fire whenever its condition holds.

**Credentials** is the choice of a provider from configuration and manifest, the
endpoint, and what the loopback redirect takes; **FieldAdmin** is the commands over
the files of each Field and the keychain, one command at a time, each a sequence of
steps with at most one durable change, between any two of which it may be killed
or fail. A collect run is one step here that may store a cursor (SyncRun has its
inside). `life` numbers the configurations of one Field ID, so that a cursor can be
told from its predecessor's; `leftover` and `mislaid` are histories of what a fault
left behind, and no action reads them.

**Wire** and **Messages** are the checks a frame meets: `decode` of a line, the
`validate` of each message, the declared properties, artifact resolution. A check is
an operator that gives `"ok"` or the rejection code, so that the order of the checks
is in the text. **Manifests** and **FieldRecords** are what each Field declares and
how it builds a record; **Fixture** is the script each scenario plays. **Kit** is the
conformance driver over them and `CollectSession`: a behaviour is one test, a
scenario or a few objects of a Field under a plan, from the manifest to the verdict.

**RecordFormat** and **Projection** are the bytes of a Note by the classes of text
the rules tell apart: how a scalar is spelt and read back, how a body is normalized,
what the validator asks, how an event becomes a Note. **Notebook** is the commands
on it as processes that run at once, with a user who edits files and crashes that
come between two steps; `watch` is the history of each process's own run: the
damage that has been there ever since it began, and whether anything has changed.

**Identity** is the namespaces, normalization and refusal of anchors;
**IdentityGraph** is `derive_graph`: `reconcile_input`, `resolve_identities`,
entities, relationships, conflicts and candidates, reuse of record IDs. A behaviour
adds and removes copies of Notes and rebuilds; the caller that writes the result in
place of the earlier projections is external, since the repository has none yet.

The modules keep their `TypeOK` as documentation of the state's shape; a run
checks it where a mutant of the code can break it (`session`).

## 3. Runs

| run | bounds | shows |
|---|---|---|
| `session` | 1 key, 3 payloads, 4 frames, 3 kinds of run | the session's invariants, in every order of calls |
| `session_claim` | the same | **violated**: `ClaimIsFinal` |
| `sync_crash` | 2 keys, 2 to 3 changes, 2 event times and scopes, 1 fault | the persistence order survives every crash point; renames, ordering, windows and snapshots remove nothing live |
| `sync_converge` | 2 keys, 2 changes, 2 artifacts, budget of 1, 1 fault | convergence, by snapshots alone too, and refinement of SyncContract |
| `local` | 2 files, 2 versions, 2 seconds, 1 fault, list of 1 path | watermark, snapshots and repair |
| `local_bound` | snapshot, 1 record per run | **violated**: `OnlyGoneFilesAreRemoved` |
| `delta` | 3 Fields, 2 objects, 3 changes, pages of 2, 1 fault, at most one scarce limit | the delta link against what core holds; collection in the end |
| `process` | 1 queue slot, 1 frame of pipe, 3 frames written and 2 allowed, a helper with the child's output or all its ends, 1 grant, 2 requests | ends, exits and answers, against every schedule |
| `admin` | 1 Field, 3 settings, 3 manifests, 2 accounts, 5 commands, 1 fault | files and tokens stay in step |
| `graph` | 6 copies of 5 Notes, at most 3 at a time | partitions and IDs, after every sequence of changes and builds |
| `notebook` | 2 processes, 16 inputs, 2 Notes, 3 commands, 1 edit or crash | what was written stands; inspect tells the truth |
| `kit` | every scenario x 7 plans, objects at the edge of each bound | refusals, admissions, absence |

Why the bounds are enough: a stale offer, a rejection with an offer pending, a
superseded claim and an empty coverage range each need at most two checkpoints
and a record or two, and four frames hold them; one key suffices because keys
meet only in `seen_keys`, a function by key. In SyncRun one key can be in the
middle of its durable steps while the cursor speaks for the other, and three
changes hold a creation, an update and a deletion of one key or a recreation
under a new identity. One fault reaches each crash point of each run; the Fields
are chosen so that each fault meets the features it can hurt. The budget of one staged
artifact in `sync_converge` is the smallest that a replay charging stored bytes
again would exceed. In LocalField two files share a second, or not, and a list of
one path makes the token outgrow its bound. `MaxRunRecords` of SyncRun leaves the
Field room for every object once, since a Field below that bound never converges
in any implementation; what it then does is DeltaField's and LocalField's subject.

In DeltaField two objects and pages of two give a collection of one page and one of
two, a bound inside the last page and one before it; three changes hold a creation,
its removal and a return, or a change under the stream. In FieldProcess a queue and
a pipe of one slot block as soon as core stops reading, and the request that does
not fit the pipe is the case that can wait (`RequestFits = FALSE`). Two connections are
enough to make one wait for the other. Five commands in FieldAdmin hold an add, a
login, a sync, a removal and the same again under an upgrade. Three copies in the
graph hold two Notes and the contact record that joins them, or the three that
conflict. Tests of the kit are independent of each other, so the suite is a set.

Deadlock is checked except in `admin`, `notebook` and `kit`, whose commands or tests
come to an end. Symmetry is used in `session` (the two upserts),
`sync_crash` (the keys) and `notebook` (the processes), all without liveness
properties; event times and Note IDs are ordered and never permuted.

### What the violated runs say about the code

- `local_bound`: the record bound leaves `had_error` false, so a truncated
  snapshot claims to be complete, and core removes the Notes of unsent files.
- `session_claim`: a claim on an earlier checkpoint is kept when the final checkpoint
  carries none (`session.rs:944`), and `finish` authorizes deletion on it. A2 section
  10 asks for the final checkpoint's own claim, and `ClaimNotFinal` is documented as
  "not carried by the run's final checkpoint". What the code does keep is
  `AuthorizationIsEarned`: the last claim made is complete and exactly the requested
  scope, the final checkpoint is the last frame, and it is itself committed.

### Weak points the properties step around

Each of these is behaviour of the code that a property excepts by name, or that
needs more faults than a run gives:

- The local Field bounds a body by `max_body_bytes`, which is a whole frame
  (`record.rs:266`), so a large text file makes a record no frame can hold. The
  emitter then writes nothing more (`emit.rs:188`), the Field does not look, and the
  run counts as complete, where `collect.rs:15` of the Field says that a partial
  result is never promoted to a complete one. Kit's actions have it; no property of
  a run can hold against it.
- `with_current_state` fills the map that detects divergence *within* a run, so an
  object changed since the seed is rejected. Core's runs do not seed; the
  conformance kit does.
- A kill between a rename and the directory fsync, a next run that finds the Note
  unchanged and commits the cursor, and then a power loss: the cursor leads. One
  fault alone does not do it (`CursorNeverLeads`).
- A kill between installing a Note under a new event time and removing the old
  name leaves two Notes; the index picks the new one and nothing removes the other.
  A later deletion takes the indexed one only, and the object's return then draws a
  second ID (`IdentityIsKept`).
  `sync_crash` gives event times only to Fields whose faults are not kills.
- A file rewritten in the second in which it was reported is not due again
  (`raced` in `SettledFilesAreHeld`); a snapshot repairs it.
- A calendar run stopped by its record bound inside the last page adopts the new
  link and skips the rest, which `cursor.rs:17` of that Field rules out. The events
  left in the page are in `cut` until they come again, and `LinkNeverLeads` and
  `DeletionsAreReported` except them and nothing else.
- A contact's photo that cannot be fetched for now is left out with a warning
  (`record.rs:277`), the link is adopted, and the photo is not asked for again before
  the contact changes. `LinkNeverLeads` therefore holds a contacts link to the
  contact's record, and a mail link to the message with its attachments.
- A removal of a Field that is cut short leaves its cursor to the next Field of that
  ID (`leftover` in `CursorIsOwn`, until a run has committed its own); a refresh
  token that a fault loses, and a login cut short before the account is recorded,
  are not recovered (`mislaid` in `TokenStaysUsable` and `LabelIsTrue`).
- Objects deleted before a stream without a link enumerates the collection are
  never reported (`unseen` in `DeletionsAreReported`).
- A body with two byte-order marks is hashed before its last normalization
  (`HashedTooEarly` in `NotesStand`).
- Core waits without a bound in three cases: for a child that never reads a request
  larger than the pipe; for a process the child left behind that keeps the child's
  input open and does not read it either, so that the write never breaks; and for
  one that keeps its standard error open. `host.rs:333` says that a hung connector
  must not hold an unbounded run; the deadline of `wait` covers only what lies
  between. `EndsOrWaitsOutside` names the waits and shows that there is no other.

## 4. Fairness

`SyncRun!FairSpec` is weak fairness of core's next step: an operator or a
scheduler keeps starting runs, and a started run goes on; core is sequential and
waits for the Field with a timeout, and the Field of the contract always has a
next frame. The upstream and the faults are bounded and not fair.
`LocalField!FairSpec` is weak fairness of the run's steps, and strong fairness of
starting a run in each mode, since a run of one mode disables the start of the
other and the operator must go on asking for snapshots for them to repair
anything. `DeltaField!FairSpec` is weak fairness of the Field's steps and strong
fairness of receiving the last page once nothing else is owed: Graph ends an
enumeration, though any one page may be empty. `FieldProcess!FairSpec` is weak
fairness of the three things core runs (its reader threads, its main thread with
its timeouts, the channel's worker); the child, its helper and whoever connects owe
nothing. No property assumes that a fault stops by fairness: each has a bound.

## 5. Proofs

Each theorem is about the whole specification of its module, for every value of
the constants: any sets of objects, paths, profiles or frames, any limits, any
number of runs, changes and faults. The assumptions are the ones the modules
name (`ASSUME`), which say what kind of thing a constant is; TLC evaluates each of
them in a run. A theorem that needs more states it as its own hypothesis.

| module | theorem | property | hypothesis |
|---|---|---|---|
| `SessionProofs` | `TypeCorrect` | `TypeOK` | |
| | `CursorIsDurable` | `CommittedCursorIsDurable` | |
| | `RejectionIsFinal` | `RejectedRunCommitsNothing` | |
| | `CursorIsMonotonic` | `CommitNeverRegresses` | |
| | `FramesAreContiguous` | `NoFrameIsMissing` | |
| | `LastAssertionIsRemembered` | `LastAssertionRules` | |
| | `DeletionIsEarned` | `AuthorizationIsEarned` | |
| `SyncRunProofs` | `MarkIsHonest` | `MarkNeverLeads` | |
| | `TypeCorrect` | `TypeOK` | |
| | `RemovalIsJustifiedAlways` | `RemovalIsJustified` | |
| | `ArtifactsBeforeNotesAlways` | `ArtifactsBeforeNotes` | `PowerComesAlone` |
| | `CursorNeverLeadsAlways` | `CursorNeverLeads` | `PowerComesAlone` |
| | `OneNotePerObjectAlways` | `OneNotePerObject` | and `TimesStand` |
| | `IdentityIsKeptAlways` | `IdentityIsKept` | and `TimesStand` |
| | `DeletedNotesAreGoneAlways` | `DeletedNotesAreGone` | and `TimesStand` |
| | `KeepsTheContractAlways` | `KeepsTheContract` | `PowerStays`, `TimesStand` |
| `LocalFieldProofs` | `TypeCorrect` | `TypeOK` | |
| | `SettledAlways` | `SettledFilesAreHeld` | `RoomForAll` |
| | `OnlyGoneFilesAreRemovedAlways` | `OnlyGoneFilesAreRemoved` | `RoomForAll` |
| `DeltaFieldProofs` | `TypeCorrect` | `TypeOK` | |
| | `LinkNeverLeadsAlways` | `LinkNeverLeads` | |
| | `DeletionsAreReportedAlways` | `DeletionsAreReported` | |
| | `RejectionsAreEarnedAlways` | `RejectionsAreEarned` | |
| | `OnlyDeletionsRemoveAlways` | `OnlyDeletionsRemove` | |
| `FieldProcessProofs` | `TypeCorrect` | `TypeOK` | |
| | `OutcomeIsTrueAlways` | `OutcomeIsTrue` | |
| | `ExitIsTrueAlways` | `ExitIsTrue` | |
| `FieldAdminProofs` | `TypeCorrect` | `TypeOK` | |
| | `StatusPredictsTheRunAlways` | `StatusPredictsTheRun` | |
| | `TokenStaysUsableAlways` | `TokenStaysUsable` | |
| | `CursorIsOwnAlways` | `CursorIsOwn` | |
| | `LabelIsTrueAlways` | `LabelIsTrue` | |
| | `SnapshotNeverForgetsAlways` | `SnapshotNeverForgets` | |
| `NotebookProofs` | `TypeCorrect` | `TypeOK` | |
| | `NotesStandAlways` | `NotesStand` | |
| | `InspectTellsTheTruthAlways` | `InspectTellsTheTruth` | |
| `IdentityGraphProofs` | `EntitiesFollowTheEvidenceAlways` | `EntitiesFollowTheEvidence` | |
| | `IdsFollowTheirSubjectAlways` | `IdsFollowTheirSubject` | |
| | `RebuildSettlesAlways` | `RebuildSettles` | |

The hypotheses, and why they are there. The runs meet them: `sync_crash` and
`sync_converge` have one fault, and no Field that may be cut short has a second event
time; `local` has room for its two paths. Without its hypotheses TLC refutes each of
the properties on an instance of their size. `IdentityIsKept` takes the longest to
lose: a kill between a change of event time and the removal of the old file, then a
run of a Field with ordered versions that reports the object's deletion, which takes
the newer file, and its return, which draws a new ID beside the older one (four
changes; a Field without ordered versions may not report a key twice in a run).

- `PowerComesAlone`: at most one fault in all, or no Field that may lose power is
  also killed or has a write that fails. A kill between a rename and its directory
  fsync, a next run that builds on what it sees, and then a power loss take away
  what the cursor accounts for (section 3, weak points).
- `TimesStand`: a Field whose runs are cut short keeps one event time. An interrupted
  change of event time leaves two Notes of one object, and only one of them is indexed.
- `PowerStays`: no power loss. One may bring an older Note back under an older
  cursor, which is no step of the contract.
- `RoomForAll`: a run may send a record for every path. `local_bound` shows what
  happens otherwise.

None of the invariants is inductive by itself. What each proof adds:

**Session.** `IInv` adds that the offers lie in order (the committed offer is at or
before the pending one, in sequence and in coverage, and the coverage counters agree
with them) and that the session's `records_by_seq` is exactly the history's records:
without the first, a commit could step back; without the second, "every record in
`records_by_seq` is durable" would say nothing of what was accepted. A new record has
a sequence number above every earlier coverage, which is why accepting it cannot
break a commit already made. `FInv` adds that history is finite and lies at or below
`last_seq`, so that a new event is new to its set and cardinalities grow by one.
`AInv` adds `ClaimsTracked`: the session's final claim is that of the last claiming
checkpoint, and the session is closed exactly by a final checkpoint that is the last
frame it accepted, so that a commit after it is a commit of that checkpoint's offer.

**Contract.** `MarkNeverLeads` says of the contract what `CursorNeverLeads` and
`DeletedNotesAreGone` say of SyncRun. `SyncRunProofs` begins with what every proof
about a log needs: the last change up to a position exists (`HasGreatest`, by well-founded
induction, and `VersionIsLast`) and a longer log changes no earlier version
(`VersionGrows`).

**SyncRun**, in layers, each inductive on top of the ones before:

1. `IInv`: what a run remembers. A Note anywhere (visible, durable, indexed or about to
   be installed) holds a state its object had upstream; IDs are not shared; the
   index names Notes that are there, except for the record being applied; a complete
   claim is true and what is removed by absence was not live throughout the run.
   `RemovalIsJustified` follows step by step.
2. `Durability`: as long as power can be lost, `disk` and `durable` differ in one name
   at most, and only at the step that has just renamed or unlinked it. So every
   directory a loss can leave is one of two `Views`, and each Note in a view has its
   artifacts in both copies.
3. `Accounted`: at every cursor a loss can leave and in every view, a covered key is
   held at that position or was deleted since. Together with the run's memory
   (what was reported is held, except for the record in hand) it survives the
   cursor's own rename and fsync.
4. `Single`: one ID per object over everything that may be found, one file per name,
   an index that has every Note there is. From it, `OneNotePerObject` and, step by
   step, `IdentityIsKept`.
5. `Current` and `Cleared`: the index has what was reported last, and a deletion that
   some cursor accounts for has left no Note in any view.

The refinement maps the newest Note of each key and the stored cursor to the shelf
and the mark of SyncContract. `StepsAreTheContracts` shows that each step is one of
the contract's or changes neither; `Ahead` (a stored cursor never passes what the run
has offered) makes the commit a step forward. With `MarkIsHonest` it is the whole
argument twice over: directly, and through the contract.

**LocalField.** A file the cursor settles is held. The invariant follows the file
through the run: the walk has seen what is behind it as it still is (`WalkIsTrue`), what a run
owes is due in it or changed after the walk, at or after everything it saw
(`DebtIsKnown`), and what the offered token does not settle stays due (`OfferIsTrue`).

**DeltaField.** A run that may adopt its link has settled every object it has no more
to read of (`DoneIsSettled`), where anything that goes wrong, from a refused frame to a
record bound, is in `Troubled`. Looking for this invariant showed
that `DeletionsAreReported` must except an object that has come back since: a page may
bring its return before the link that covers it.

**FieldProcess.** Frames are conserved: those read and those in the pipe are those
written (`Flow`), those taken and those queued are those read (`Counted`), and what is no
frame is last in the queue and arrives when nobody can write any more (`Order`). Of
the channel, every answer was asked for.

**FieldAdmin.** `Place` says what other commands cannot have changed while one is
between its steps: the settings and the life of the configurations it has read.
`TokenInv` says that no token is in two places and that the one in hand during a
rotation has the account of the one it replaces; this is why the endpoint may revoke
the token it was shown without breaking another profile, and it needs tokens to be
finitely many, for a fresh one to exist. `Forecast` carries what `fields status` said
to the step that decides. `CursorIsOwn` and `LabelIsTrue` need to know what is left of
a removal or a login that is under way (`Own`, `Login`): a cursor without its
configuration is one whose removal is under way or was cut short.

**Notebook.** That a text which is written reads back the same is a matter of the
classes of text: a lemma for each (how line ends are normalized and that doing it
twice changes nothing, how sections are composed), up to `BuiltReadsBack` and
`WrittenStands`: the file a command writes reads back, validates and has the hash of
its body. The invariant carries it through the interleaving: the places and the names
in them, the written files nobody touched, what each command on its way holds
(`CommandsAreOnTheirWay`). For `inspect` it relates the damage that has been there
since the scan began to what the scan has listed and read: a damaged file is still
unread or was found bad (`DamageIsMet`), of two files with one ID the second is still to
come or was met (`CopiesAreMet`), and a scan of a notebook that stayed as it was has
cause for what it found (`FindingsAreTrue`). The history follows a damaged *record*,
not its name: with four user edits during one scan a damaged file can be deleted after
the listing and another damaged one come under a name already read, so that under every
name there was damage all along and no command could have seen it.

**IdentityGraph.** The joining of anchors is a fold, and there is no induction over
data to say what a fold computes; its function is shown to exist by the least
cardinality at which it would not (`FoldExists`), and the same argument carries
`IsForest` from the single keys over every join: joined keys have one root, and no
set closed under the joins tells two keys of one root apart. So a component is kept together by
its contact records (`ContactsAreKeptTogether`, along the chain of neighbours in key
order) and by nothing else (`NothingElseIsJoined`), and its keys are of one kind. IDs:
the n-th number not taken exists and is one number (`FreshIs`), components get
different places (`PlacesAreApart`), and an ID is reused only for the one component that the
record's anchors touch (`ReuseIsExact`). The invariant adds `PriorsStand`: the records in
the notebook have distinct IDs, and their anchors are of their kind. `RebuildSettles`
needs `GraphStands`: while there is a graph it is a derivation of the present copies,
and the records are those it left. Each copy is followed through the exclusions to
the gap, conflict or collapse that names it (`EveryCopyIsHeard`).
`RebuildSettles` speaks of entities whose record keeps an anchor
(`Recognizable`): an anchor of a scoped namespace is written without its scope and not
read back, and a kind that is not materialized leaves no record; both draw new IDs.

Only model-checked: `Kit`, whose three properties rest on the enumeration of texts,
frames and scenarios, where exploring the instance says more than a proof over
uninterpreted values would (`RefusedForItsReason`, `OwnRecordsAreAdmitted`,
`AbsenceIsProven`); and all liveness (`EventuallyConverged`, `EventuallyMirrored`,
`EventuallyCollected`, `EndsOrWaitsOutside`, `AskedIsAnswered`), which is out of the
prover's reach, as is ENABLED.

## 6. Not modelled

- Text as text: canonical JSON and YAML spelling, MIME and vCard parsing, time-zone
  arithmetic, redaction, the wording of reports and diagnostics. A module that
  depends on one of these has its classes of text, and says which.
- The operating system's side: HTTP, the key store, socket permissions and paths,
  symbolic links, command-line parsing and printing.
- Jira and Teams: their programs are placeholders.
- Two syncs of one Field at a time. `docs/operations.md` describes locks that the
  code does not take and `A2-implementation-findings.md` records as missing; the
  hazard is listed without a property.
- Wall-clock bounds: timeouts fire nondeterministically, so a run that outlives its
  deadline while frames keep arriving is outside FieldProcess.
- Several mail folders at a time, and the second of two concurrent `config set`.

## 7. Plan

Done: all modules above.

1. **Two syncs at once**: SyncRun's durable steps by two processes on one store,
   when the code takes the locks its documentation names; staging names with reused
   process IDs.
2. **Several folders**: DeltaField with one stream per mail folder and one cursor for
   all of them; moves between folders.
3. **Proofs**: `IdentityIsKept` for Fields without ordered versions, whose runs may be
   cut at any change of event time; `PowerComesAlone` narrowed to the histories in
   which a kill or a failed write comes before a power loss with no later write to
   the same directory; `AbsenceIsProven` of `Kit` for any suite of scenarios.
