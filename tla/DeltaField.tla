---------------------------- MODULE DeltaField ----------------------------
(***************************************************************************)
(* The Outlook mail, calendar and contacts Fields: run after run, each     *)
(* reads a delta stream of one Graph collection, sends a record per item,  *)
(* and ends with at most one checkpoint whose cursor is a delta link.      *)
(* They differ in what a bound, an item that cannot be mapped, a removal   *)
(* and a first run mean, and a behaviour is one of the three.              *)
(*                                                                         *)
(* Core is what SyncRun and CollectSession show of it: it holds what it    *)
(* has taken, in sequence, and stores the cursor of a checkpoint it takes. *)
(***************************************************************************)
EXTENDS GraphStream, FieldEmitter

CONSTANTS
    Fields,            \* which of the three Fields a behaviour may be
    OddObjects,        \* the objects an oddity is about
    Oddities,          \* what may be odd about them
    Attached,          \* the others that have an attachment or a photo
    Scarce, Ample,     \* a limit that bites, and one that does not
    NoCursor,          \* core stores no cursor
    NoLink,            \* a mail cursor without a delta link
    MaxChanges,        \* bound: changes of the collection
    MaxFaults          \* bound: failures of Graph, the sink and the process

\* old: outside the window of a first run; no_instant: there is no event time
\* to map; the rest: an attachment (a photo) of one unit, whose size Graph
\* states or does not state, or whose bytes cannot be decoded (fetched).
AttachmentOddities == {"undeclared", "unreadable"}

ASSUME FieldAssumption ==
    /\ Fields \subseteq {"mail", "calendar", "contacts"}
    /\ Oddities \subseteq {"none", "old", "no_instant", "undeclared", "unreadable"}
    /\ OddObjects \cup Attached \subseteq Objects
    /\ {MaxChanges, MaxFaults} \subseteq Nat /\ {Scarce, Ample} \subseteq Nat \ {0}
    /\ NoCursor \notin Nat /\ NoLink \notin Nat /\ NoCursor # NoLink

VARIABLES
    field,   \* the Field, the limits of its requests and what is odd, fixed
    feed,    \* the collection's changes
    held,    \* core: the version last taken of every object, 0 for none
    partial, \* core: objects held without an attachment that a retry would bring
    cursor,  \* core: the stored cursor
    run,     \* the run under way
    unseen,  \* history: objects that were gone before an initial enumeration
    cut,     \* history: objects of a page a calendar run left unfinished, not taken since
    faults   \* faults so far

vars == <<field, feed, held, partial, cursor, run, unseen, cut, faults>>

Limits == [records : {Scarce, Ample}, diagnostics : {Scarce, Ample}, artifacts : {Scarce, Ample}]

\* Bound: at most one limit bites in a behaviour, and the one the oddity meets.
Bites == [none |-> {"records", "diagnostics", "artifacts"}, old |-> {},
          no_instant |-> {"diagnostics"}, undeclared |-> {"artifacts"},
          unreadable |-> {"diagnostics"}]

\* A calendar event has no attachments.
FieldTypes ==
    {f \in [name : Fields, limits : Limits, odd : Oddities] :
        /\ \A i, j \in DOMAIN f.limits : f.limits[i] = Scarce /\ f.limits[j] = Scarce => i = j
        /\ \A i \in DOMAIN f.limits : f.limits[i] = Scarce => i \in Bites[f.odd]
        /\ f.odd # "none" => \A i \in Bites[f.odd] : f.limits[i] = Scarce
        /\ f.name = "calendar" => f.odd \notin AttachmentOddities /\ f.limits.artifacts = Ample}

Is(name) == field.name = name

Oddity(o) ==
    IF o \in OddObjects THEN field.odd
    ELSE IF o \in Attached /\ ~Is("calendar") THEN "attached" ELSE "none"

Idle == [pc |-> "idle", plan |-> "delta", stream |-> NoStream, out |-> NewEmitter,
         had_error |-> FALSE, exhausted |-> TRUE, staged |-> 0, exit |-> "Completed"]

Init ==
    /\ field \in FieldTypes
    /\ feed = <<>>
    /\ held = [o \in Objects |-> 0] /\ partial = {}
    /\ cursor = NoCursor
    /\ run = Idle
    /\ unseen = {} /\ cut = {} /\ faults = 0

Fault == faults < MaxFaults /\ faults' = faults + 1

Held(o) == KindAt(feed, held[o]) = "put"

\* calendarView speaks for its window alone, from the first page to the last delta.
Windowed == {o \in Objects : Oddity(o) # "old"}
Scope == IF Is("calendar") THEN Windowed ELSE Objects

(***************************************************************************)
(* The collection.                                                         *)
(***************************************************************************)
Change(o, kind) ==
    /\ Len(feed) < MaxChanges
    /\ kind # "put" => Live(feed, o)
    /\ kind = "leave" => Is("mail")
    /\ feed' = Append(feed, [object |-> o, kind |-> kind])
    /\ UNCHANGED <<field, held, partial, cursor, run, unseen, cut, faults>>

(***************************************************************************)
(* The start of a run.  Core sends a window exactly while it stores no     *)
(* cursor and the Field supports one: the mail Field then lists, because   *)
(* a mail delta admits no filter, and the calendar Field starts a delta of *)
(* the window.  The contacts Field supports none.                          *)
(***************************************************************************)
Resumable == cursor \notin {NoCursor, NoLink}

PlanOf == IF Is("mail") /\ cursor = NoCursor THEN "window" ELSE "delta"

\* mutant: the window of the first run stays
WindowForever == IF ~Is("contacts") THEN Windowed ELSE Scope

InitialScope == IF cursor = NoCursor /\ ~Is("contacts") THEN Windowed ELSE Scope

Begin ==
    /\ run.pc = "idle"
    /\ run' = [Idle EXCEPT
                  !.pc = "reading",
                  !.plan = PlanOf,
                  !.stream = NewStream(feed,
                                       IF Resumable THEN OwedSince(feed, Scope, cursor)
                                       ELSE OwedInitially(feed, InitialScope),
                                       PlanOf = "delta")]
    /\ unseen' = IF Resumable THEN unseen ELSE {o \in Objects : Held(o) /\ ~Live(feed, o)}
    /\ UNCHANGED <<field, feed, held, partial, cursor, cut, faults>>

\* The configuration, the credential or the mode is refused: a diagnostic,
\* and the process ends without a checkpoint.
RefuseToStart ==
    /\ run.pc = "idle" /\ Fault
    /\ UNCHANGED <<field, feed, held, partial, cursor, run, unseen, cut>>

(***************************************************************************)
(* The loop over the stream.                                               *)
(***************************************************************************)
\* A plain diagnostic, in the discipline of the Field at hand.
Diagnostic(e) ==
    IF Is("mail") THEN DiagnosticCountedFirst(e, field.limits)
    ELSE DiagnosticNumberedFirst(e, field.limits)

AtBound ==
    IF Is("mail") THEN ~CanRecord(run.out, field.limits)
    ELSE run.out.records >= field.limits.records

\* The calendar's loop asks for the next item before it looks at the bound.
LooksAtBoundFirst == ~Is("calendar")

\* mutant: a run stopped by its bound counts as a clean one
ContactsBoundForgotten ==
    [run EXCEPT !.pc = "ending", !.exhausted = ~Is("mail"),
                !.out = IF Is("mail") THEN Diagnostic(@) ELSE @]

Stopped ==
    [run EXCEPT !.pc = "ending",
                !.had_error = @ \/ Is("contacts"),
                !.exhausted = ~Is("mail"),
                !.out = IF Is("mail") THEN Diagnostic(@) ELSE @]

StopAtBound ==
    /\ run.pc = "reading" /\ LooksAtBoundFirst /\ AtBound
    /\ run' = Stopped
    /\ UNCHANGED <<field, feed, held, partial, cursor, unseen, cut, faults>>

MayFetch ==
    /\ run.pc = "reading" /\ NeedsPage(run.stream)
    /\ LooksAtBoundFirst => ~AtBound

Fetch ==
    /\ MayFetch
    /\ \/ /\ \E page \in Pages(run.stream) :
                run' = [run EXCEPT !.stream = NextLink(@, feed, page)]
          /\ run.stream.owed # {}
          /\ UNCHANGED faults
       \/ /\ run.stream.owed \in Pages(run.stream)
          /\ run' = [run EXCEPT !.stream = LastPage(@, feed, TRUE)]
          /\ UNCHANGED faults
       \/ /\ run.stream.owed \in Pages(run.stream)
          /\ run' = [run EXCEPT !.stream = LastPage(@, feed, FALSE)]
          /\ Fault
    /\ UNCHANGED <<field, feed, held, partial, cursor, unseen, cut>>

(***************************************************************************)
(* A failure of Graph: what the process will exit with.                    *)
(***************************************************************************)
SourceTrouble == {"Throttled", "ServiceUnavailable", "Transport"}
Distrusted == {"MalformedResponse", "UntrustedContinuation"}

MailExit(error) ==
    CASE error = "ReauthenticationRequired" -> "Authentication"
      [] error = "PermissionDenied" -> "Authorization"
      [] error = "InvalidRequest" -> "Internal"
      [] error \in SourceTrouble \cup Distrusted -> "SourceUnavailable"

CalendarExit(error) ==
    CASE error = "ReauthenticationRequired" -> "Authentication"
      [] error = "PermissionDenied" -> "Authorization"
      [] error \in SourceTrouble -> "SourceUnavailable"
      [] error \in Distrusted \cup {"InvalidRequest"} -> "Internal"

\* An invalid request may be about an account without a mailbox.
ContactsExits(error) ==
    CASE error = "ReauthenticationRequired" -> {"Authentication"}
      [] error = "PermissionDenied" -> {"Authorization"}
      [] error = "InvalidRequest" -> {"Authentication", "ConfigInvalid"}
      [] error \in SourceTrouble -> {"SourceUnavailable"}
      [] error \in Distrusted -> {"Internal"}

ExitsOf(error) ==
    IF Is("mail") THEN {MailExit(error)}
    ELSE IF Is("calendar") THEN {CalendarExit(error)} ELSE ContactsExits(error)

\* An outage: the call is tried again or ends the stream: an error item, which
\* every Field turns into a diagnostic and the end of its loop.  The calendar
\* Field at its bound ends its loop without looking at the item.
FetchFails ==
    /\ MayFetch
    /\ IF run.stream.attempt = 1 THEN Fault ELSE UNCHANGED faults
    /\ \E error \in GraphErrors :
          \/ /\ CanRetry(run.stream, error)
             /\ run' = [run EXCEPT !.stream = Retried(@)]
          \/ /\ AtBound
             /\ run' = [run EXCEPT !.stream = Failed(@), !.pc = "ending"]
          \/ /\ ~AtBound
             /\ \E exit \in ExitsOf(error) :
                   run' = [run EXCEPT !.stream = Failed(@), !.pc = "ending", !.had_error = TRUE,
                                      !.exhausted = FALSE, !.exit = exit, !.out = Diagnostic(@)]
    /\ UNCHANGED <<field, feed, held, partial, cursor, unseen, cut>>

(***************************************************************************)
(* One item.                                                               *)
(***************************************************************************)
\* The operation's own outcome, before anything is written: whether there is a
\* record, how much of it is staged, and whether it draws a warning.
MessageMaps(o) == Oddity(o) # "no_instant"
EventMaps(o) == Oddity(o) # "no_instant"
ContactMaps(o) == Oddity(o) # "no_instant"

\* Decided before a byte is fetched: a stated size is held against the run's
\* budget, and one that is not stated is not.
Retains(o) ==
    \/ Oddity(o) \in {"attached", "unreadable"} /\ run.staged < field.limits.artifacts
    \/ Oddity(o) = "undeclared"

\* What is fetched is staged; what cannot be decoded is recorded as not
\* retained, with a warning.
MessageAttachment(o) ==
    [staged |-> IF Retains(o) /\ Oddity(o) # "unreadable" THEN 1 ELSE 0,
     warns |-> Retains(o) /\ Oddity(o) = "unreadable", missing |-> FALSE]

\* A photo is fetched before anything is known of it, and the run's budget is
\* not looked at.
HasPhoto(o) == Oddity(o) \in {"attached", "undeclared"}

Photo(o) ==
    [staged |-> IF HasPhoto(o) THEN 1 ELSE 0, warns |-> Oddity(o) = "unreadable",
     missing |-> FALSE]

\* The photo cannot be fetched for now, and the record goes without it.
PhotoMissed(o) == [staged |-> 0, warns |-> TRUE, missing |-> HasPhoto(o)]

NoAttachment == [staged |-> 0, warns |-> FALSE, missing |-> FALSE]

\* Core takes the record, or rejects the run: what it stages is over the budget.
Sends(item, e, staged, missing) ==
    IF RecordTaken(e, field.limits) /\ ~(staged > field.limits.artifacts)
    THEN /\ held' = [held EXCEPT ![item.object] = item.version]
         /\ partial' = IF missing THEN partial \cup {item.object} ELSE partial \ {item.object}
    ELSE UNCHANGED <<held, partial>>

Sent(e, staged) ==
    IF staged > field.limits.artifacts /\ RecordTaken(e, field.limits)
    THEN Rejected(WriteRecord(e, field.limits)) ELSE WriteRecord(e, field.limits)

\* The record of an item, and the warning about its attachment.
Deliver(item, s, attachment) ==
    LET numbered == NextSeq(run.out)
        staged == run.staged + attachment.staged
        sent == Sent(numbered, staged)
    IN  /\ run' = [run EXCEPT !.stream = s, !.staged = staged,
                              !.out = IF attachment.warns THEN Diagnostic(sent) ELSE sent]
        /\ Sends(item, numbered, staged, attachment.missing)

\* The item's number goes to a diagnostic instead.
Refuse(s, freezes) ==
    /\ run' = [run EXCEPT !.stream = s, !.had_error = @ \/ freezes,
                          !.out = WriteDiagnostic(NextSeq(@), field.limits)]
    /\ UNCHANGED <<held, partial>>

\* mutant: every removal annotation is a deletion
AnyRemoval(item) == item.kind # "put"

\* mutant: the removals are the wrong way round
RemovalsSwapped(item) == item.kind = "leave"

IsAuthoritativeDeletion(item) == item.kind = "delete"

\* A message that only left the folder is left alone; one that cannot be
\* mapped is skipped with a warning.
TakeMessage(item, s) ==
    IF item.kind # "put" THEN
        IF IsAuthoritativeDeletion(item) THEN Deliver(item, s, NoAttachment)
        ELSE /\ run' = [run EXCEPT !.stream = s, !.out = Diagnostic(@)]
             /\ UNCHANGED <<held, partial>>
    ELSE IF MessageMaps(item.object) THEN Deliver(item, s, MessageAttachment(item.object))
    ELSE Refuse(s, FALSE)

\* An event that cannot be mapped freezes the cursor.
TakeEvent(item, s) ==
    IF item.kind = "put" /\ ~EventMaps(item.object) THEN Refuse(s, TRUE)
    ELSE Deliver(item, s, NoAttachment)

\* So does a contact.
TakeContact(item, s) ==
    IF item.kind # "put" THEN Deliver(item, s, NoAttachment)
    ELSE IF ContactMaps(item.object) THEN Deliver(item, s, Photo(item.object))
    ELSE Refuse(s, TRUE)

\* A calendar item is taken off the stream before the bound is looked at.
TakeItem ==
    /\ run.pc = "reading" /\ (LooksAtBoundFirst => ~AtBound)
    /\ \E item \in run.stream.buffer :
          LET s == Popped(run.stream, item)
          IN  IF AtBound
              THEN /\ run' = [run EXCEPT !.stream = s, !.pc = "ending"]
                   /\ cut' = IF s.token = {} \/ run.had_error THEN cut
                             ELSE cut \cup {i.object : i \in run.stream.buffer}
                   /\ UNCHANGED <<held, partial>>
              ELSE /\ \/ Is("mail") /\ TakeMessage(item, s)
                      \/ Is("calendar") /\ TakeEvent(item, s)
                      \/ Is("contacts") /\ TakeContact(item, s)
                   /\ cut' = {o \in cut : held'[o] = held[o]}
    /\ UNCHANGED <<field, feed, cursor, unseen, faults>>

\* The endpoint of a contact's photo fails, which is no error of the run: the
\* photo is not asked for again until the contact changes.
TakeContactWithoutPhoto ==
    /\ Is("contacts") /\ run.pc = "reading" /\ ~AtBound /\ Fault
    /\ \E item \in run.stream.buffer :
          /\ item.kind = "put" /\ ContactMaps(item.object)
          /\ Deliver(item, Popped(run.stream, item), PhotoMissed(item.object))
    /\ UNCHANGED <<field, feed, cursor, unseen, cut>>

\* The failure freezes the cursor, and the first one decides the exit.
Fail(r, exit) ==
    [r EXCEPT !.had_error = TRUE, !.exit = IF @ = "Completed" THEN exit ELSE @]

AttachmentFailure(e, s, error) ==
    Fail([run EXCEPT !.stream = s, !.out = Diagnostic(e)], MailExit(error))

\* The attachments of a message cannot be read for now: the record says so,
\* and the cursor stays where it was.
TakeMessageInPart ==
    /\ Is("mail") /\ run.pc = "reading" /\ ~AtBound /\ Fault
    /\ \E item \in run.stream.buffer, error \in GraphErrors \ {"InvalidRequest"} :
          /\ item.kind = "put" /\ Retains(item.object)
          /\ LET numbered == NextSeq(run.out)
                 taken == Taken(numbered)
             IN  /\ run' = AttachmentFailure(WriteRecord(numbered, field.limits),
                                             Popped(run.stream, item), error)
                 /\ held' = IF taken THEN [held EXCEPT ![item.object] = item.version] ELSE held
                 /\ partial' = IF taken THEN partial \cup {item.object} ELSE partial
    /\ UNCHANGED <<field, feed, cursor, unseen, cut>>

\* The record is over the frame limit, or core has stopped reading.
SinkFails ==
    /\ run.pc = "reading" /\ ~run.out.write_failed /\ Fault
    /\ run' = [run EXCEPT !.out = WriteFails(@)]
    /\ UNCHANGED <<field, feed, held, partial, cursor, unseen, cut>>

EndOfStream ==
    /\ run.pc = "reading" /\ (LooksAtBoundFirst => ~AtBound)
    /\ Exhausted(run.stream)
    /\ run' = [run EXCEPT !.pc = "ending"]
    /\ UNCHANGED <<field, feed, held, partial, cursor, unseen, cut, faults>>

(***************************************************************************)
(* The end of a run: the cursor to offer, and the checkpoint.              *)
(***************************************************************************)
\* The delta link the stream has produced, if any.
Link == run.stream.token

Previous == IF cursor = NoCursor /\ Is("mail") THEN NoLink ELSE cursor

\* The link is adopted only when this run saw all of what the link will skip.
Adopts ==
    /\ run.plan = "delta" /\ run.exhausted /\ ~run.had_error
    /\ Link # {}

\* What the Field offers; NoCursor where it offers no checkpoint at all.
NextCursor ==
    IF Adopts THEN CHOOSE p \in Link : TRUE
    ELSE IF Is("contacts") THEN NoCursor ELSE Previous

\* A clean stream without a link draws a warning.
EndNote ==
    IF ~Is("mail") /\ ~run.had_error /\ Link = {} THEN Diagnostic(run.out) ELSE run.out

Offer(e, next) ==
    LET numbered == NextSeq(e)
    IN  IF next # NoCursor /\ Taken(numbered) THEN cursor' = next ELSE UNCHANGED cursor

Finish ==
    /\ run.pc = "ending"
    /\ Offer(EndNote, NextCursor)
    /\ run' = Idle
    /\ UNCHANGED <<field, feed, held, partial, unseen, cut, faults>>

\* The link does not fit a cursor: the mail Field drops it and offers a cursor
\* without one, the others report it and offer nothing.
FinishWithLongLink ==
    /\ run.pc = "ending" /\ Adopts /\ Fault
    /\ IF Is("mail") THEN Offer(Diagnostic(run.out), NoLink) ELSE UNCHANGED cursor
    /\ run' = Idle
    /\ UNCHANGED <<field, feed, held, partial, unseen, cut>>

\* The process is killed, crashes or times out.
Die ==
    /\ run.pc # "idle" /\ Fault
    /\ run' = Idle
    /\ UNCHANGED <<field, feed, held, partial, cursor, unseen, cut>>

FieldStep ==
    \/ Begin \/ StopAtBound \/ Fetch \/ TakeItem \/ EndOfStream \/ Finish

Next ==
    \/ \E o \in Objects, kind \in Kinds : Change(o, kind)
    \/ FieldStep
    \/ RefuseToStart \/ FetchFails \/ TakeMessageInPart \/ TakeContactWithoutPhoto \/ SinkFails
    \/ FinishWithLongLink \/ Die

Spec == Init /\ [][Next]_vars

\* A scheduler keeps starting runs, and a run whose requests are answered goes
\* on; a page that is not the last brings something, in the end.
FairSpec ==
    /\ Spec
    /\ WF_vars(FieldStep)
    /\ SF_vars(MayFetch /\ run.stream.owed \in Pages(run.stream)
                  /\ run' = [run EXCEPT !.stream = LastPage(@, feed, TRUE)]
                  /\ UNCHANGED <<field, feed, held, partial, cursor, unseen, cut, faults>>)

-----------------------------------------------------------------------------
Exits == {"Completed", "Authentication", "Authorization", "SourceUnavailable", "Internal",
          "ConfigInvalid"}

Runs ==
    [pc : {"idle", "reading", "ending"}, plan : {"window", "delta"},
     stream : Streams(MaxChanges), out : Emitters, had_error : BOOLEAN, exhausted : BOOLEAN,
     staged : Nat, exit : Exits]

TypeOK ==
    /\ field \in FieldTypes
    /\ feed \in Seq(Changes) /\ Len(feed) <= MaxChanges
    /\ held \in [Objects -> 0..MaxChanges] /\ partial \subseteq Objects
    /\ cursor \in {NoCursor, NoLink} \cup 0..MaxChanges
    /\ run \in Runs
    /\ unseen \subseteq Objects /\ cut \subseteq Objects /\ faults \in 0..MaxFaults

\* What a stored delta link will never bring again, core holds: a message with
\* the attachments a retry would bring, while a contact may be without a photo
\* that could not be fetched, which its Field passes over (record.rs:250).  A
\* change after the link is still owed.  Only the mail Field passes over a
\* message it cannot map.
LinkCovers(o) ==
    LET v == VersionAt(feed, o, cursor)
    IN  \/ KindAt(feed, v) # "put" \/ v < Version(feed, o)
        \/ Is("mail") /\ ~MessageMaps(o)
        \/ held[o] = v /\ (o \notin partial \/ Is("contacts"))

\* The stored cursor of the three Graph Fields never leads what core holds
\* (cursor.rs of each), except for the objects of one page: those a calendar run
\* had still to read when its record bound stopped it (collect.rs:259, against
\* what cursor.rs:17 says), until the object changes and is taken.
LinkNeverLeads == Resumable => \A o \in Scope \ cut : LinkCovers(o)

\* A deletion that the stored link covers has reached core, unless the object
\* has changed since, was in such a page, or was already gone when a stream
\* without a link enumerated the collection: nothing ever reports such a deletion.
DeletionsAreReported ==
    Resumable =>
        \A o \in Scope \ (unseen \cup cut) :
            LET v == VersionAt(feed, o, cursor)
            IN  KindAt(feed, v) = "delete" => v < Version(feed, o) \/ ~Held(o)

\* The Notes of an object go only on a deletion of the object itself, never
\* because a message left the folder, a page was missing or a run was cut.
OnlyDeletionsRemove ==
    [][\A o \in Objects : Held(o) /\ KindAt(feed', held'[o]) # "put"
            => feed[held'[o]].kind = "delete" /\ held'[o] > held[o]]_vars

\* Core rejects a run of these Fields only after the emitter refused a frame
\* whose number was taken, or for what was staged.  The mail Field never wastes
\* a number, and stages too much only where Graph does not state a size.
RejectionsAreEarned ==
    /\ run.out.rejected => run.out.refused \/ run.staged > field.limits.artifacts
    /\ Is("mail") => ~run.out.refused /\ (run.out.rejected => field.odd = "undeclared")

\* No limit of the run cuts the collection.
Roomy == \A l \in DOMAIN field.limits : field.limits[l] = Ample

\* With limits that leave room for the collection, what is in it reaches core
\* in the end, whatever failed on the way (run_collection of each Field: the
\* link is adopted last, and only after a run without an error).
EventuallyCollected ==
    Roomy => \A o \in Objects :
        <>[](Live(feed, o) /\ o \in Scope /\ Oddity(o) # "no_instant"
                => held[o] = Version(feed, o))

=============================================================================
