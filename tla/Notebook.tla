------------------------------ MODULE Notebook ------------------------------
(***************************************************************************)
(* The commands that work on a notebook without a Field: init, note,       *)
(* inspect and status, config set, and a sync's projection of one event.   *)
(* Each runs as a process of its own, in steps that other processes, the   *)
(* user's editor and crashes come between (crates/fieldnotes-cli main.rs   *)
(* and config.rs, crates/fieldnotes-app init.rs, note.rs, inspect.rs,      *)
(* status.rs, crates/fieldnotes-store layout.rs, instance.rs, scan.rs,     *)
(* profile.rs).                                                            *)
(***************************************************************************)
EXTENDS Projection, FiniteSetsExt, SequencesExt

CONSTANTS Procs,          \* command processes
          Inputs,         \* what note and collect may be given
          MaxNotes,       \* bound: Note IDs drawn
          MaxInstances,   \* bound: instance IDs drawn
          MaxCommands,    \* bound: commands started
          MaxUpsets       \* bound: user edits and crashes

ASSUME BoundsAssumption == MaxNotes \in Nat /\ MaxInstances \in Nat

ASSUME InputsAssumption ==
  \A i \in Inputs :
    /\ i.cmd \in {"note", "collect"} /\ i.body \in Seq(Characters)
    /\ i.cmd = "collect" => \A k \in DOMAIN i.props : ToSet(i.props[k].items) \subseteq Spellings

VARIABLES tree,     \* what is on disk at each place
          profile,  \* the user's profile file
          proc,     \* the running commands
          drawn,    \* IDs drawn so far, and commands and upsets counted
          watch     \* history of a running scan: what was wrong, and whether its place moved
vars == <<tree, profile, proc, drawn, watch>>

Places == {"outer", "inner", "away"}
Ancestors == [inner |-> <<"inner", "outer">>, outer |-> <<"outer">>, away |-> <<"away">>]
Nowhere == "nowhere"

EmptyPlace == [instance |-> 0, foreign |-> FALSE, notes |-> {}, artifacts |-> {},
               corrupt |-> {}, strays |-> {}, broken |-> {}]
Malformed == MaxInstances + 1
InstanceReads(i) == i \in 1..MaxInstances

ProfileReads(file) == file.state = "ok"
NoProfile == [state |-> "ok", notebook |-> Nowhere, timezone |-> FALSE]
Idle == [cmd |-> "none", step |-> "idle", explicit |-> Nowhere, cwd |-> Nowhere,
         place |-> Nowhere, in |-> "none", instance |-> 0, seen |-> NoProfile,
         stored |-> {}, todo |-> <<>>, problems |-> {}, exit |-> "none"]

---------------------------------------------------------------------------
(* Finding the notebook *)

HasInstance(p) == tree[p].instance # 0

Discover(p) ==
  LET found == {i \in DOMAIN Ancestors[p] : HasInstance(Ancestors[p][i])}
  IN IF found = {} THEN Nowhere ELSE Ancestors[p][Min(found)]

\* resolve_notebook: an explicit path, else the working directory, else the profile.
ResolveNotebook(explicit, cwd, seen) ==
  CASE explicit # Nowhere -> Discover(explicit)
    [] explicit = Nowhere /\ Discover(cwd) # Nowhere -> Discover(cwd)
    [] OTHER -> IF seen.notebook = Nowhere THEN Nowhere ELSE Discover(seen.notebook)

\* The exit code of each kind of error.
ExitOf(kind) ==
  CASE kind = "io" -> "EXIT_IO"
    [] kind \in {"not_a_notebook", "unexpected_tree"} -> "EXIT_NOTEBOOK"
    [] kind \in {"invalid_record", "invalid_file", "unhealthy"} -> "EXIT_CONTRACT"
    [] kind \in {"empty_note", "not_audio", "unknown_target", "invalid_profile"} -> "EXIT_USAGE"
    [] kind = "ok" -> "EXIT_OK"

Ends(p, kind) == proc' = [proc EXCEPT ![p] = [@ EXCEPT !.step = "done", !.exit = ExitOf(kind)]]
Goes(p, step) == proc' = [proc EXCEPT ![p].step = step]

---------------------------------------------------------------------------
(* Starting a command: the profile is read once, before anything else *)

Start(p, cmd, explicit, cwd, in) ==
  /\ proc[p].step \in {"idle", "done"} /\ drawn.commands < MaxCommands
  /\ drawn' = [drawn EXCEPT !.commands = @ + 1]
  /\ proc' = [proc EXCEPT ![p] = [Idle EXCEPT
       !.cmd = cmd, !.explicit = explicit, !.cwd = cwd, !.in = in,
       !.step = IF ProfileReads(profile) THEN "resolve" ELSE "done",
       !.exit = IF ProfileReads(profile) THEN "none" ELSE ExitOf("invalid_profile"),
       !.seen = profile]]
  /\ UNCHANGED <<tree, profile>>

\* open_notebook
OpenNotebook(p) ==
  /\ proc[p].step = "resolve" /\ proc[p].cmd \in {"note", "collect", "inspect", "status"}
  /\ LET place == ResolveNotebook(proc[p].explicit, proc[p].cwd, proc[p].seen)
     IN IF place = Nowhere
          THEN Ends(p, "not_a_notebook")
          ELSE proc' = [proc EXCEPT ![p] = [@ EXCEPT !.step = "open", !.place = place]]
  /\ UNCHANGED <<tree, profile, drawn>>

\* read_instance, the first call of every command that found its notebook.
ReadInstance(p) ==
  /\ proc[p].step = "open"
  /\ CASE tree[proc[p].place].instance = 0 -> Ends(p, "io")
       [] ~InstanceReads(tree[proc[p].place].instance) /\ HasInstance(proc[p].place) ->
            Ends(p, "invalid_file")
       [] OTHER -> proc' = [proc EXCEPT ![p] = [@ EXCEPT
            !.instance = tree[proc[p].place].instance,
            !.step = IF proc[p].cmd \in {"note", "collect"} THEN "import" ELSE "list"]]
  /\ UNCHANGED <<tree, profile, drawn>>

---------------------------------------------------------------------------
(* init *)

\* Notebook::create: an initialized place is kept, a place with other files refused.
RefusesTree(place) == ~HasInstance(place) /\ tree[place].foreign

CreateLayout(p) ==
  /\ proc[p].step = "resolve" /\ proc[p].cmd = "init"
  /\ LET place == IF proc[p].explicit = Nowhere THEN proc[p].cwd ELSE proc[p].explicit
     IN IF RefusesTree(place)
          THEN Ends(p, "unexpected_tree")
          ELSE proc' = [proc EXCEPT ![p] = [@ EXCEPT !.place = place,
                 !.step = IF HasInstance(place) THEN "already" ELSE "create"]]
  /\ UNCHANGED <<tree, profile, drawn>>

AlreadyInitialized(p) ==
  /\ proc[p].step = "already"
  /\ CASE tree[proc[p].place].instance = 0 -> Ends(p, "io")
       [] ~InstanceReads(tree[proc[p].place].instance) /\ HasInstance(proc[p].place) ->
            Ends(p, "invalid_file")
       [] OTHER -> Goes(p, "default")
  /\ UNCHANGED <<tree, profile, drawn>>

WriteInstance(p) ==
  /\ proc[p].step = "create" /\ drawn.instances < MaxInstances
  /\ drawn' = [drawn EXCEPT !.instances = @ + 1]
  /\ tree' = [tree EXCEPT ![proc[p].place].instance = drawn.instances + 1]
  /\ Goes(p, "default")
  /\ UNCHANGED profile

\* record_default_notebook_if_absent writes the profile this process read.
RecordDefault(p) ==
  /\ proc[p].step = "default"
  /\ \E force \in BOOLEAN :
       profile' = IF proc[p].seen.notebook # Nowhere /\ ~force THEN profile
                  ELSE [proc[p].seen EXCEPT !.notebook = proc[p].place]
  /\ Ends(p, "ok")
  /\ UNCHANGED <<tree, drawn>>

SetNotebook(p) ==
  /\ proc[p].step = "resolve" /\ proc[p].cmd = "set notebook"
  /\ IF Discover(proc[p].explicit) = Nowhere
       THEN Ends(p, "not_a_notebook") /\ UNCHANGED profile
       ELSE /\ profile' = [proc[p].seen EXCEPT !.notebook = Discover(proc[p].explicit)]
            /\ Ends(p, "ok")
  /\ UNCHANGED <<tree, drawn>>

SetTimezone(p) ==
  /\ proc[p].step = "resolve" /\ proc[p].cmd = "set timezone"
  /\ profile' = [proc[p].seen EXCEPT !.timezone = TRUE]
  /\ Ends(p, "ok")
  /\ UNCHANGED <<tree, drawn>>

---------------------------------------------------------------------------
(* note and collect: artifacts first, then the Note *)

IsAudio(in) == in.audio

\* store_import: a voice note must be audio; the bytes are stored by their digest.
StoreImport(p) ==
  /\ proc[p].step = "import"
  /\ IF proc[p].in.type = "voice" /\ ~IsAudio(proc[p].in)
       THEN Ends(p, "not_audio") /\ UNCHANGED tree
       ELSE /\ tree' = [tree EXCEPT ![proc[p].place].artifacts = @ \cup proc[p].in.retained]
            /\ Goes(p, "write")
  /\ UNCHANGED <<profile, drawn>>

Admitted(in) == in.cmd = "collect" => Admits(in)

FilesFor(p) ==
  IF proc[p].cmd = "note" THEN ComposedNote(drawn.notes + 1, proc[p].instance, proc[p].in)
                          ELSE ProjectEvent(drawn.notes + 1, proc[p].instance, proc[p].in)

\* write_note under the name the record asks for; a refused record leaves its artifacts.
WriteNote(p) ==
  /\ proc[p].step = "write" /\ drawn.notes < MaxNotes
  /\ drawn' = [drawn EXCEPT !.notes = @ + 1]
  /\ LET named == {[name |-> n, file |-> f, touched |-> FALSE] :
                     n \in UNION {NoteFilename(f) : f \in FilesFor(p)}, f \in FilesFor(p)}
         empty == proc[p].cmd = "note" /\ Blank(ComposeNote(proc[p].in))
     IN /\ tree' = [tree EXCEPT ![proc[p].place].notes = @ \cup named]
        /\ Ends(p, CASE named # {} -> "ok" [] empty -> "empty_note" [] OTHER -> "invalid_record")
  /\ UNCHANGED profile

---------------------------------------------------------------------------
(* inspect and status: a scan in several reads *)

\* The artifacts are listed before any Note is read.
ListArtifacts(p) ==
  /\ proc[p].step = "list"
  /\ proc' = [proc EXCEPT ![p] = [@ EXCEPT !.step = "names",
                !.stored = tree[proc[p].place].artifacts]]
  /\ UNCHANGED <<tree, profile, drawn>>

ListNotes(p) ==
  /\ proc[p].step = "names"
  /\ proc' = [proc EXCEPT ![p] = [@ EXCEPT !.step = "read",
                !.todo = SetToSeq({n.name : n \in tree[proc[p].place].notes})]]
  /\ UNCHANGED <<tree, profile, drawn>>

Validates(file) == \E r \in ParseRecord(file) : ValidNote(r)

\* What is wrong with one file, read against the artifacts listed.
NoteProblems(note, stored) ==
  LET r == CHOOSE x \in ParseRecord(note.file) : TRUE
      when(cond, kind) == {k \in {kind} : cond}
  IN IF ~Validates(note.file) THEN {"invalid"}
     ELSE when(NoteFilename(r) = {}, "invalid")
          \cup when(\E n \in NoteFilename(r) : n # note.name, "filename_mismatch")
          \cup when(r.hash # ContentHash(r.body), "content_hash_mismatch")
          \cup when(~(r.artifacts \cup r.attachments \subseteq stored), "missing_artifact")

NamedNote(p, name) == {n \in tree[proc[p].place].notes : n.name = name}

\* Every record that validates claims its ID, whatever else is wrong with its file.
Claims(note) == {<<"id", i>> : i \in {x \in {note.file.id} : Validates(note.file)}}
Findings(p, note) ==
  LET again == {k \in {"duplicate_note_id"} : Claims(note) \cap proc[p].problems # {}}
  IN {<<k, note.name>> : k \in NoteProblems(note, proc[p].stored) \cup again}

\* A file that went away between the listing and the read ends the command.
ReadNote(p) ==
  /\ proc[p].step = "read" /\ proc[p].todo # <<>>
  /\ LET found == NamedNote(p, Head(proc[p].todo))
         note == CHOOSE n \in found : TRUE
     IN IF found = {} THEN Ends(p, "io")
        ELSE proc' = [proc EXCEPT ![p] = [@ EXCEPT !.todo = Tail(proc[p].todo),
               !.problems = proc[p].problems \cup Claims(note) \cup Findings(p, note)]]
  /\ UNCHANGED <<tree, profile, drawn>>

\* inspect reads the artifacts themselves, status leaves them.
Corrupted(p) ==
  {x \in {<<"artifact_corrupt", a>> : a \in proc[p].stored \cap tree[proc[p].place].corrupt} :
     proc[p].cmd = "inspect"}

VerifyArtifacts(p) ==
  /\ proc[p].step = "read" /\ proc[p].todo = <<>>
  /\ IF ~(proc[p].stored \subseteq tree[proc[p].place].artifacts) THEN Ends(p, "io")
     ELSE proc' = [proc EXCEPT ![p] = [@ EXCEPT !.step = "strays",
       !.problems = proc[p].problems \cup Corrupted(p)]]
  /\ UNCHANGED <<tree, profile, drawn>>

HealthyNotes(p) == \A x \in proc[p].problems : x[1] = "id"
Healthy(p) ==
  (\A x \in proc[p].problems : x[1] = "id") /\ tree[proc[p].place].strays = {}

\* inspect fails on an unhealthy notebook; status reports and always succeeds.
Report(p) ==
  /\ proc[p].step = "strays"
  /\ Ends(p, IF proc[p].cmd = "inspect" /\ ~Healthy(p) THEN "unhealthy" ELSE "ok")
  /\ UNCHANGED <<tree, profile, drawn>>

---------------------------------------------------------------------------
(* The user and the machine *)

Upset == drawn.upsets < MaxUpsets /\ drawn' = [drawn EXCEPT !.upsets = @ + 1]

Edits(f) ==
  {[f EXCEPT !.fault = x] : x \in {"duplicate key", "closing"}}
  \cup {[f EXCEPT !.body = @ \o <<"w">>], [f EXCEPT !.type = "unknown"],
        [f EXCEPT !.attachments = @ \cup {"x"}], [f EXCEPT !.source = @ \ {"scope"}]}
  \cup {[f EXCEPT !.props[k].items[1].plain = TRUE] : k \in DOMAIN f.props}

\* A file takes the place of the one of its name.
Saved(notes, n) == {m \in notes : m.name # n.name} \cup {n}

\* An editor saves a Note: its text, its name, or a second copy of it.
UserEdits(pl) ==
  /\ Upset
  /\ \E n \in tree[pl].notes :
       \/ \E f \in Edits(n.file) :
            tree' = [tree EXCEPT ![pl].notes = Saved(@, [n EXCEPT !.file = f, !.touched = TRUE])]
       \/ tree' = [tree EXCEPT ![pl].notes =
            Saved(@ \ {n}, [n EXCEPT !.name.at = "renamed", !.touched = TRUE])]
       \/ tree' = [tree EXCEPT ![pl].notes =
            Saved(@, [n EXCEPT !.name.at = "later", !.file.occurred = "later", !.touched = TRUE])]
       \/ tree' = [tree EXCEPT ![pl].notes = @ \ {n}]
  /\ UNCHANGED <<profile, proc>>

UserBreaks(pl) ==
  /\ Upset
  /\ \/ \E a \in tree[pl].artifacts \ tree[pl].corrupt :
          tree' = [tree EXCEPT ![pl].corrupt = @ \cup {a}, ![pl].broken = @ \cup {a}]
     \/ \E a \in tree[pl].artifacts :
          tree' = [tree EXCEPT ![pl].artifacts = @ \ {a}, ![pl].corrupt = @ \ {a}, ![pl].broken = @ \cup {a}]
     \/ /\ InstanceReads(tree[pl].instance)
        /\ \E i \in {0, Malformed} :
             tree' = [tree EXCEPT ![pl].instance = i, ![pl].broken = @ \cup {"instance"}]
     \/ ~tree[pl].foreign /\ tree' = [tree EXCEPT ![pl].foreign = TRUE]
  /\ UNCHANGED <<profile, proc>>

UserWritesProfile ==
  /\ Upset /\ profile.state = "ok"
  /\ profile' = [profile EXCEPT !.state = "malformed"]
  /\ UNCHANGED <<tree, proc>>

\* A process dies; one that was writing may leave its staged file behind.
Crash(p) ==
  /\ proc[p].step \notin {"idle", "done"} /\ Upset
  /\ \E left \in BOOLEAN :
       tree' = [pl \in Places |->
         IF left /\ pl = proc[p].place /\ proc[p].step \in {"create", "import", "write"}
           THEN [tree[pl] EXCEPT !.strays = @ \cup {proc[p].step}] ELSE tree[pl]]
  /\ proc' = [proc EXCEPT ![p] = Idle]
  /\ UNCHANGED profile

---------------------------------------------------------------------------
(* History: what was wrong all the while a scan ran *)

Sound(place) == {n \in place.notes : NoteProblems(n, place.artifacts) = {}}

Damage(place) ==
  {<<"note", n>> : n \in place.notes \ Sound(place)}
  \cup {<<"copies", n.file.id>> : n \in
          {x \in Sound(place) : \E y \in Sound(place) \ {x} : y.file.id = x.file.id}}
  \cup {<<"artifact", a>> : a \in place.corrupt} \cup {<<"stray", d>> : d \in place.strays}

Scanning(p) == proc[p].step \in {"list", "names", "read", "strays"}

Watching ==
  watch' = [p \in Procs |->
    CASE Scanning(p)' /\ ~Scanning(p) ->
           [standing |-> Damage(tree'[proc'[p].place]), moved |-> FALSE]
      [] Scanning(p) ->
           [standing |-> watch[p].standing \cap Damage(tree'[proc[p].place]),
            moved |-> watch[p].moved \/ tree'[proc[p].place] # tree[proc[p].place]]
      [] OTHER -> watch[p]]

---------------------------------------------------------------------------
Init ==
  /\ tree = [pl \in Places |-> EmptyPlace]
  /\ profile = NoProfile
  /\ proc = [p \in Procs |-> Idle]
  /\ drawn = [notes |-> 0, instances |-> 0, commands |-> 0, upsets |-> 0]
  /\ watch = [p \in Procs |-> [standing |-> {}, moved |-> FALSE]]

Starts(p) ==
  \/ \E at \in {"outer", "inner"} : Start(p, "init", at, "away", "none")
  \/ \E in \in {x \in Inputs : Admitted(x)} :
       Start(p, in.cmd, Nowhere, IF in.cmd = "note" THEN "away" ELSE "inner", in)
  \/ \E cmd \in {"inspect", "status"} : Start(p, cmd, "outer", "away", "none")
  \/ Start(p, "set notebook", "inner", "away", "none")
  \/ Start(p, "set timezone", Nowhere, "away", "none")

Step(p) ==
  \/ Starts(p) \/ OpenNotebook(p) \/ ReadInstance(p)
  \/ CreateLayout(p) \/ AlreadyInitialized(p) \/ WriteInstance(p) \/ RecordDefault(p)
  \/ SetNotebook(p) \/ SetTimezone(p) \/ StoreImport(p) \/ WriteNote(p)
  \/ ListArtifacts(p) \/ ListNotes(p) \/ ReadNote(p) \/ VerifyArtifacts(p) \/ Report(p)

Next ==
  /\ \/ \E p \in Procs : Step(p) \/ Crash(p)
     \/ \E pl \in Places : UserEdits(pl) \/ UserBreaks(pl)
     \/ UserWritesProfile
  /\ Watching

Spec == Init /\ [][Next]_vars

---------------------------------------------------------------------------
(* Type invariant: places hold what a notebook holds, and a command that    *)
(* ended has an exit code.                                                  *)
TypeOK ==
  /\ \A pl \in Places : tree[pl].instance \in 0..Malformed /\ tree[pl].corrupt \subseteq tree[pl].artifacts
  /\ profile.notebook \in Places \cup {Nowhere}
  /\ \A p \in Procs : (proc[p].step = "done") <=> (proc[p].exit # "none")

\* A body with two marks before it: normalization takes one away at each pass, and the hash
\* is computed after the first pass, the stored body after the second.
HashedTooEarly(f) == Head(f.hash[1]) = "bom"

(* A Note the commands wrote and nobody touched stands: whatever text came  *)
(* in, it parses, validates, has the name and the hash its bytes ask for,   *)
(* and its artifacts are stored, at every moment and after any crash.       *)
NotesStand ==
  \A pl \in Places : \A n \in tree[pl].notes :
    ~n.touched /\ ~HashedTooEarly(n.file) /\ n.file.artifacts \cap tree[pl].broken = {}
      => n \in Sound(tree[pl])

(* inspect tells the truth.  Damage that was there all the while the scan   *)
(* ran is reported, and a notebook that did not change while it was scanned *)
(* and has nothing wrong is not called unhealthy.                           *)
InspectTellsTheTruth ==
  \A p \in Procs : proc[p].cmd = "inspect" =>
    /\ proc[p].exit = "EXIT_OK" => watch[p].standing = {}
    /\ proc[p].exit = "EXIT_CONTRACT" /\ proc[p].instance # 0 /\ ~watch[p].moved
         => watch[p].standing # {}

=============================================================================
