----------------------------- MODULE FieldProcess -----------------------------
(***************************************************************************)
(* One child process of core: the describe and the collect operation of    *)
(* sync, the host's reader threads and bounded channel, the pipes, and the *)
(* endpoint the Field obtains its token from (ProtectedChannel).           *)
(*                                                                         *)
(*   child --pipe--> reader thread --queue--> core                         *)
(*   child --stderr--> stderr thread                                       *)
(*   child --socket--> worker thread                                       *)
(*                                                                         *)
(* The child does what it likes: it writes frames and bytes that are none, *)
(* stops reading or writing, closes its input, exits with any code, or     *)
(* hangs.  It may leave a helper process behind that inherited its input,  *)
(* its output (with standard error), or both, and knows the grant.  Only   *)
(* core's threads are fair.                                                *)
(*                                                                         *)
(* Timeouts are not counted: the idle timeout may fire whenever no frame   *)
(* is there, and the wait for the child's end may run out whenever it has  *)
(* not ended.  While frames keep coming nothing bounds the run.            *)
(***************************************************************************)
EXTENDS ProtectedChannel, Sequences

CONSTANTS
    PipeSize,       \* frames that fit into the pipe's buffer
    QueueSize,      \* sync_channel(64)
    MaxFrames,      \* bound: frames the child writes
    MaxOutput,      \* max_run_stdout_bytes, in frames
    RequestFits,    \* the request is smaller than the pipe's buffer
    Helpers         \* the ends a process the child leaves behind may hold

ASSUME ProcessAssumption ==
    /\ PipeSize \in Nat \ {0} /\ QueueSize \in Nat \ {0}
    /\ MaxFrames \in Nat /\ MaxOutput \in Nat
    /\ RequestFits \in BOOLEAN /\ Helpers \subseteq {"input", "output", "both"}
    /\ {"child", "helper"} = Clients

VARIABLES
    operation,      \* "describe" or "collect"
    core,           \* where sync is in the operation
    verdict,        \* "none", or why core stopped consuming output
    exit,           \* the ExitObservation, once there is one
    taken,          \* frames core has taken
    child,          \* the child process
    helper,         \* "none", "gone", or the ends the process left behind holds
    pipe, reader, total, queue, stderr

hostVars == <<operation, core, verdict, exit, taken, child, helper,
              pipe, reader, total, queue, stderr>>
vars == <<hostVars, channelVars>>

\* spoiled: bytes that are no frame (too long, not UTF-8, not JSON, cut off by
\* the end of the stream).  What a frame says is for core to find out.
Lines == {"frame", "spoiled"}

\* what the reader thread hands to core
Items == {"frame", "failed", "end"}

Verdicts == {"none", "rejected", "failed"}
Observations == {"unknown", "exited", "signalled", "timeout", "terminated"}

\* what became of the request at the child's end: nobody has read it, the child
\* has, the helper took it, or the child closed its input before reading it
Inputs == {"unread", "read", "lost", "closed"}

Phases == {"sending", "reading", "waiting", "killing", "joining", "closing", "done"}

HostTypeOK ==
    /\ operation \in {"describe", "collect"}
    /\ core \in Phases
    /\ verdict \in Verdicts
    /\ exit \in Observations
    /\ taken \in 0..MaxFrames
    /\ child \in [state : {"running", "exited", "killed"}, input : Inputs, written : 0..MaxFrames]
    /\ helper \in {"none", "gone"} \cup Helpers
    /\ pipe \in Seq(Lines) /\ Len(pipe) <= PipeSize
    /\ reader \in {"reading", "done"}
    /\ total \in 0..MaxFrames
    /\ queue \in Seq(Items) /\ Len(queue) <= QueueSize
    /\ stderr \in {"reading", "done"}

TypeOK == ChannelTypeOK /\ HostTypeOK

\* The child is started after the endpoint is open, with a request that names it.
Init ==
    /\ operation \in {"describe", "collect"}
    /\ core = "sending"
    /\ verdict = "none"
    /\ exit = "unknown"
    /\ taken = 0
    /\ child = [state |-> "running", input |-> "unread", written |-> 0]
    /\ helper = "none"
    /\ pipe = <<>>
    /\ reader = "reading"
    /\ total = 0
    /\ queue = <<>>
    /\ stderr = "reading"
    /\ stop = FALSE
    /\ expired = FALSE
    /\ counts = [requests |-> 0, granted |-> 0, refused |-> 0]
    /\ conn = [c \in Clients |-> "none"]
    /\ endpoint = IF operation = "collect" THEN "open" ELSE "absent"
    /\ worker = IF operation = "collect" THEN "accepting" ELSE "done"

Running == child.state = "running"

\* Somebody can still write to the child's output.
OutputHeld == Running \/ helper \in {"output", "both"}

\* Somebody still has the end core's request is written to: no broken pipe.
InputHeld == (Running /\ child.input # "closed") \/ helper \in {"input", "both"}

\* The request has been taken off the pipe as a whole.
RequestTaken == child.input \in {"read", "lost"}

(***************************************************************************)
(* The child and what it leaves behind.                                    *)
(***************************************************************************)
\* A request that fits into the pipe is read after it was written, a larger one
\* while it is.
ChildReads ==
    /\ Running
    /\ child.input = "unread"
    /\ RequestFits => core # "sending"
    /\ child' = [child EXCEPT !.input = "read"]
    /\ UNCHANGED <<operation, core, verdict, exit, taken, helper, pipe, reader, total, queue, stderr, channelVars>>

ChildClosesInput ==
    /\ Running
    /\ child.input = "unread"
    /\ child' = [child EXCEPT !.input = "closed"]
    /\ UNCHANGED <<operation, core, verdict, exit, taken, helper, pipe, reader, total, queue, stderr, channelVars>>

HelperReads ==
    /\ helper \in {"input", "both"}
    /\ ~RequestTaken
    /\ RequestFits => core # "sending"
    /\ child' = [child EXCEPT !.input = "lost"]
    /\ UNCHANGED <<operation, core, verdict, exit, taken, helper, pipe, reader, total, queue, stderr, channelVars>>

\* Blocks while the pipe is full.
ChildWrites(line) ==
    /\ Running
    /\ child.written < MaxFrames
    /\ Len(pipe) < PipeSize
    /\ pipe' = Append(pipe, line)
    /\ child' = [child EXCEPT !.written = @ + 1]
    /\ UNCHANGED <<operation, core, verdict, exit, taken, helper, reader, total, queue, stderr, channelVars>>

ChildExits ==
    /\ Running
    /\ child' = [child EXCEPT !.state = "exited"]
    /\ UNCHANGED <<operation, core, verdict, exit, taken, helper, pipe, reader, total, queue, stderr, channelVars>>

ChildLeavesHelper ==
    /\ Running
    /\ helper = "none"
    /\ helper' \in (IF child.input = "closed" THEN Helpers \cap {"output"} ELSE Helpers)
    /\ UNCHANGED <<operation, core, verdict, exit, taken, child, pipe, reader, total, queue, stderr, channelVars>>

HelperEnds ==
    /\ helper \in Helpers
    /\ helper' = "gone"
    /\ UNCHANGED <<operation, core, verdict, exit, taken, child, pipe, reader, total, queue, stderr, channelVars>>

\* The grant is in the request; the child hands it to what it starts.
Alive(c) == IF c = "child" THEN Running /\ child.input = "read" ELSE helper \in Helpers

ClientMoves ==
    /\ \E c \in Clients :
           \/ Alive(c) /\ (Connect(c) \/ \E f \in Frames : Ask(c, f))
           \/ HangUp(c)
    /\ UNCHANGED hostVars

(***************************************************************************)
(* The reader threads.                                                     *)
(***************************************************************************)
\* FrameReader: a line that is no frame, or one past the run's output bound,
\* ends the reading.
ItemOf(line) == IF line = "spoiled" \/ total >= MaxOutput THEN "failed" ELSE line

\* One turn of pump_stdout.  It blocks while the queue is full, with the frame
\* it has read still counted to the pipe here.
ReadLine ==
    /\ reader = "reading"
    /\ pipe # <<>>
    /\ Len(queue) < QueueSize
    /\ queue' = Append(queue, ItemOf(Head(pipe)))
    /\ pipe' = Tail(pipe)
    /\ total' = total + 1
    /\ reader' = IF ItemOf(Head(pipe)) = "frame" THEN "reading" ELSE "done"
    /\ UNCHANGED <<operation, core, verdict, exit, taken, child, helper, stderr, channelVars>>

\* mutant: the end of the writers is taken for the end of what they wrote
EndsWithTheChild == ~OutputHeld

\* The end of the stream: nothing is left and nobody can write more.
StreamEnded == pipe = <<>> /\ ~OutputHeld

ReadEnd ==
    /\ reader = "reading"
    /\ StreamEnded
    /\ Len(queue) < QueueSize
    /\ queue' = Append(queue, "end")
    /\ reader' = "done"
    /\ UNCHANGED <<operation, core, verdict, exit, taken, child, helper, pipe, total, stderr, channelVars>>

\* Core has dropped its end of the queue: the blocked send fails.
ReceiverGone ==
    /\ reader = "reading"
    /\ core = "done"
    /\ reader' = "done"
    /\ UNCHANGED <<operation, core, verdict, exit, taken, child, helper, pipe, total, queue, stderr, channelVars>>

StderrEnds ==
    /\ stderr = "reading"
    /\ ~OutputHeld
    /\ stderr' = "done"
    /\ UNCHANGED <<operation, core, verdict, exit, taken, child, helper, pipe, reader, total, queue, channelVars>>

(***************************************************************************)
(* Core: describe and collect.                                             *)
(***************************************************************************)
\* A request larger than the pipe's buffer is written as it is read.
Send ==
    /\ core = "sending"
    /\ (RequestFits /\ InputHeld) \/ RequestTaken
    /\ core' = "reading"
    /\ UNCHANGED <<operation, verdict, exit, taken, child, helper, pipe, reader, total, queue, stderr, channelVars>>

\* A broken pipe: the last holder of its reading end went without taking it.
SendFails ==
    /\ core = "sending"
    /\ ~InputHeld
    /\ ~RequestTaken
    /\ verdict' = "rejected"
    /\ core' = "waiting"
    /\ UNCHANGED <<operation, exit, taken, child, helper, pipe, reader, total, queue, stderr, channelVars>>

\* describe wants one manifest and asks for nothing after it; collect goes on
\* until the stream ends, a frame is bad, or a record cannot be made durable.
TakeGood ==
    /\ core = "reading"
    /\ queue # <<>> /\ Head(queue) = "frame"
    /\ queue' = Tail(queue)
    /\ taken' = taken + 1
    /\ \/ core' = (IF operation = "describe" THEN "waiting" ELSE "reading") /\ UNCHANGED verdict
       \/ operation = "collect" /\ core' = "waiting" /\ verdict' = "failed"
    /\ UNCHANGED <<operation, exit, child, helper, pipe, reader, total, stderr, channelVars>>

\* The frame does not decode, the session or the negotiation rejects it, or the
\* reader has failed.
TakeRefused ==
    /\ core = "reading"
    /\ queue # <<>> /\ Head(queue) \in {"frame", "failed"}
    /\ queue' = Tail(queue)
    /\ verdict' = "rejected"
    /\ core' = "waiting"
    /\ UNCHANGED <<operation, exit, taken, child, helper, pipe, reader, total, stderr, channelVars>>

\* A describe run that ends without a manifest has failed.
TakeEnd ==
    /\ core = "reading"
    /\ queue # <<>> /\ Head(queue) = "end"
    /\ queue' = Tail(queue)
    /\ verdict' = IF operation = "describe" THEN "rejected" ELSE verdict
    /\ core' = "waiting"
    /\ UNCHANGED <<operation, exit, taken, child, helper, pipe, reader, total, stderr, channelVars>>

IdleTimeout ==
    /\ core = "reading"
    /\ queue = <<>>
    /\ verdict' = "rejected"
    /\ core' = "waiting"
    /\ UNCHANGED <<operation, exit, taken, child, helper, pipe, reader, total, queue, stderr, channelVars>>

\* classify: what the child's own end says
ObservationOf(c) == IF c.state = "exited" THEN "exited" ELSE "signalled"

ChildEnded ==
    /\ core = "waiting"
    /\ ~Running
    /\ exit' = ObservationOf(child)
    /\ core' = "joining"
    /\ UNCHANGED <<operation, verdict, taken, child, helper, pipe, reader, total, queue, stderr, channelVars>>

\* mutant: the wait for the child has no deadline
WaitsForEver == core = "waiting" /\ Running /\ core = "done" /\ UNCHANGED vars

\* The deadline has passed and try_wait saw the child running.
WaitExpires ==
    /\ core = "waiting"
    /\ Running
    /\ core' = "killing"
    /\ UNCHANGED <<operation, verdict, exit, taken, child, helper, pipe, reader, total, queue, stderr, channelVars>>

\* mutant: what is reported of a killed child is what it would have said
TimedOutAsItWas == ObservationOf([child EXCEPT !.state = "exited"])

\* The child may have ended by itself meanwhile: it is a timeout all the same.
TimedOut == IF verdict = "none" THEN "timeout" ELSE "terminated"

Kill ==
    /\ core = "killing"
    /\ child' = [child EXCEPT !.state = IF Running THEN "killed" ELSE @]
    /\ exit' = TimedOut
    /\ core' = "joining"
    /\ UNCHANGED <<operation, verdict, taken, helper, pipe, reader, total, queue, stderr, channelVars>>

\* The report is made from what standard error held; the reader of standard
\* output is not waited for.
JoinStderr ==
    /\ core = "joining"
    /\ stderr = "done"
    /\ core' = IF operation = "describe" THEN "done" ELSE "closing"
    /\ UNCHANGED <<operation, verdict, exit, taken, child, helper, pipe, reader, total, queue, stderr, channelVars>>

CloseChannel ==
    /\ core = "closing"
    /\ \/ Stop /\ UNCHANGED core
       \/ Remove /\ core' = "done"
    /\ UNCHANGED <<operation, verdict, exit, taken, child, helper, pipe, reader, total, queue, stderr>>

Worker == ChannelWorker /\ UNCHANGED hostVars

GrantExpires == Expire /\ UNCHANGED hostVars

Finished == core = "done" /\ UNCHANGED vars

Threads == ReadLine \/ ReadEnd \/ ReceiverGone \/ StderrEnds

Core == Send \/ SendFails \/ TakeGood \/ TakeRefused \/ TakeEnd \/ IdleTimeout \/ ChildEnded \/ WaitExpires
            \/ Kill \/ JoinStderr \/ CloseChannel

Child == ChildReads \/ ChildClosesInput \/ HelperReads \/ ChildLeavesHelper \/ HelperEnds \/ ClientMoves
            \/ (\E line \in Lines : ChildWrites(line)) \/ ChildExits

Next == Child \/ Threads \/ Core \/ Worker \/ GrantExpires \/ Finished

Spec == Init /\ [][Next]_vars

\* Core's threads run; timeouts fire when nothing else happens; the child and
\* its helper owe nothing.
FairSpec == Spec /\ WF_vars(Threads) /\ WF_vars(Core) /\ WF_vars(Worker)

(***************************************************************************)
(* Properties.                                                             *)
(***************************************************************************)
Reported == core \in {"joining", "closing", "done"}

\* What core reports as a clean end is one: a collect run has taken every
\* frame the child wrote before it ended, through pipe, thread and queue, and a
\* describe run has taken its one manifest.
OutcomeIsTrue ==
    Reported /\ verdict = "none" /\ exit = "exited"
        => taken = IF operation = "collect" THEN child.written ELSE 1

\* An exit code in the report is the child's own: a child that core ended, or
\* that ended while core was about to end it, is never reported as if it had
\* said so itself.
ExitIsTrue ==
    exit = "exited" => child.state = "exited"

\* Core stops reading after a rejection with the child, the reader thread and
\* the queue all blocked, and the run ends all the same.  The deadline of wait
\* covers only the time between: core waits without a bound for two ends of
\* pipes it does not hold.  Before it, to write a request larger than the pipe
\* that neither the child nor a process it left behind reads while one of them
\* keeps its input open; after it, for standard error, which a process left
\* behind keeps open.
EndsOrWaitsOutside ==
    \/ <>(core = "done")
    \/ <>[](core = "sending" /\ InputHeld /\ ~RequestTaken)
    \/ <>[](core = "joining" /\ helper \in {"output", "both"})

\* Whoever else holds a connection, the Field's request is answered, or its
\* connection is closed: one idle client does not keep the token from it.
AskedIsAnswered == conn["child"] = "genuine" ~> conn["child"] # "genuine"
=============================================================================
