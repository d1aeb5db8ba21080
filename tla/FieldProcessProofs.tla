------------------------- MODULE FieldProcessProofs -------------------------
(***************************************************************************)
(* Theorems about FieldProcess: what core reports of a child process is    *)
(* what the child did, however the pipes, the queue and the endpoint block. *)
(***************************************************************************)
EXTENDS FieldProcess, TLAPS, FiniteSetTheorems

-----------------------------------------------------------------------------
(* The inductive invariant *)

Consuming == core \in {"sending", "reading"}

\* Nothing of what was written is left in the pipe, and nobody can write more.
Quiet == pipe = <<>> /\ ~ OutputHeld

\* No frame is lost between the child and the reader thread.
Flow == total + Len(pipe) = child.written

\* What is no frame is the last thing the reader thread hands over.
Order ==
  /\ \A i \in 1 .. Len(queue) : queue[i] # "frame" => i = Len(queue) /\ reader = "done"
  /\ \A i \in 1 .. Len(queue) : queue[i] = "end" => Quiet

Ended == queue # <<>> /\ queue[Len(queue)] = "end"

\* Nor is one lost between the reader thread and core.
Counted ==
  Consuming =>
    /\ verdict = "none"
    /\ taken + Len(queue) = IF Ended THEN total + 1 ELSE total
    /\ operation = "describe" => taken = 0

\* Core stops without a verdict only where it has everything it asked for.
Outcome ==
  ~ Consuming /\ verdict = "none" =>
    IF operation = "collect" THEN Quiet /\ reader = "done" /\ taken = child.written ELSE taken = 1

\* An observation is made of a child that has ended.
Observed ==
  /\ ~ Reported => exit = "unknown"
  /\ ExitIsTrue
  /\ exit # "unknown" => ~ Running

\* Every answer was asked for.
Asked ==
  /\ counts.requests <= counts.granted + counts.refused
  /\ counts.granted + counts.refused + Cardinality(Outstanding) <= MaxRequests

HostInv == HostTypeOK /\ Flow /\ Order /\ Counted /\ Outcome /\ Observed
ChannelInv == ChannelTypeOK /\ Asked

IInv == HostInv /\ ChannelInv

-----------------------------------------------------------------------------
(* The endpoint *)

LEMMA OutstandingIsFinite == IsFiniteSet(Outstanding) /\ Cardinality(Outstanding) \in Nat
<1>1. Outstanding \subseteq Clients /\ IsFiniteSet(Clients)
  BY ChannelAssumption DEF Outstanding
<1> QED BY <1>1, FS_Subset, FS_CardinalityType

LEMMA FramesAreNames ==
  /\ "none" \notin Frames /\ "open" \notin Frames /\ "closed" \notin Frames
  BY ChannelAssumption

\* A connection that carries no request, before or after.
LEMMA SameOutstanding ==
  ASSUME ChannelTypeOK, NEW c \in Clients, NEW to, conn' = [conn EXCEPT ![c] = to],
         conn[c] \notin Frames, to \notin Frames
  PROVE  Outstanding' = Outstanding
  BY DEF Outstanding, ChannelTypeOK

LEMMA ConnectKeeps ==
  ASSUME ChannelInv, NEW c \in Clients, Connect(c) \/ HangUp(c)
  PROVE  ChannelInv'
<1>1. PICK to \in {"open", "closed"} : conn' = [conn EXCEPT ![c] = to]
  BY DEF Connect, HangUp
<1>2. conn[c] \in {"none", "open"} /\ UNCHANGED <<endpoint, stop, worker, expired, counts>>
  BY DEF Connect, HangUp
<1>3. Outstanding' = Outstanding
  BY <1>1, <1>2, FramesAreNames, SameOutstanding DEF ChannelInv
<1>4. ChannelTypeOK'
  BY <1>1, <1>2 DEF ChannelInv, ChannelTypeOK, Conns
<1> QED BY <1>2, <1>3, <1>4 DEF ChannelInv, Asked

LEMMA AskKeeps ==
  ASSUME ChannelInv, NEW c \in Clients, NEW f \in Frames, Ask(c, f)
  PROVE  ChannelInv'
<1>1. /\ conn[c] = "open" /\ conn' = [conn EXCEPT ![c] = f]
      /\ counts.granted + counts.refused + Cardinality(Outstanding) < MaxRequests
      /\ UNCHANGED <<endpoint, stop, worker, expired, counts>>
  BY DEF Ask
<1>2. Outstanding' = Outstanding \cup {c} /\ c \notin Outstanding
  BY <1>1, FramesAreNames DEF Outstanding, ChannelInv, ChannelTypeOK
<1>3. Cardinality(Outstanding') = Cardinality(Outstanding) + 1
  BY <1>2, OutstandingIsFinite, FS_AddElement
<1>4. ChannelTypeOK'
  BY <1>1 DEF ChannelInv, ChannelTypeOK, Conns
<1>5. counts.granted \in Nat /\ counts.refused \in Nat /\ MaxRequests \in Nat
  BY ChannelAssumption DEF ChannelInv, ChannelTypeOK, Counts
<1>6. Asked'
  <2>1. counts'.granted + counts'.refused + Cardinality(Outstanding') <= MaxRequests
    BY <1>1, <1>3, <1>5, OutstandingIsFinite
  <2> QED BY <1>1, <2>1 DEF ChannelInv, Asked
<1> QED BY <1>4, <1>6 DEF ChannelInv

LEMMA AnswerKeeps ==
  ASSUME ChannelInv, NEW c \in Clients, Answer(c)
  PROVE  ChannelInv'
<1>1. /\ worker = c /\ conn[c] \in Frames /\ Decide(c)
      /\ UNCHANGED <<endpoint, stop, expired>>
  BY DEF Answer
<1>2. PICK to \in {"open", "closed"} : conn' = [conn EXCEPT ![c] = to]
  BY DEF Answer
<1>3. Outstanding' = Outstanding \ {c} /\ c \in Outstanding
  BY <1>1, <1>2, FramesAreNames DEF Outstanding, ChannelInv, ChannelTypeOK
<1>4. Cardinality(Outstanding') = Cardinality(Outstanding) - 1
  BY <1>3, OutstandingIsFinite, FS_RemoveElement
<1>5. /\ counts.granted \in 0 .. MaxGrants /\ counts.refused \in Nat /\ counts.requests \in Nat
      /\ MaxRequests \in Nat /\ MaxGrants \in Nat
      /\ counts.requests <= counts.granted + counts.refused
      /\ counts.granted + counts.refused + Cardinality(Outstanding) <= MaxRequests
  BY ChannelAssumption DEF ChannelInv, ChannelTypeOK, Counts, Asked
<1>6. PICK r \in {0, 1} : r = IF conn[c] = "response" THEN 0 ELSE 1
  OBVIOUS
<1>7. PICK g \in {0, 1} : g = IF Grants(c) THEN 1 ELSE 0
  OBVIOUS
<1>8. counts' = [requests |-> counts.requests + r, granted |-> counts.granted + g,
                 refused |-> counts.refused + (1 - g)]
  BY <1>1, <1>6, <1>7 DEF Decide
<1>9. counts.granted + g \in 0 .. MaxGrants
  <2>1. g = 1 => counts.granted < MaxGrants
    BY <1>7 DEF Grants
  <2> QED BY <1>5, <2>1
<1>10. Cardinality(Outstanding) \in Nat /\ Cardinality(Outstanding') \in Nat
  <2>1. IsFiniteSet(Outstanding')
    BY <1>3, OutstandingIsFinite, FS_Subset
  <2> QED BY <2>1, OutstandingIsFinite, FS_CardinalityType
<1>11. Asked'
  <2>1. /\ counts'.requests = counts.requests + r /\ counts'.granted = counts.granted + g
        /\ counts'.refused = counts.refused + (1 - g)
    BY <1>8
  <2>2. counts'.requests <= counts'.granted + counts'.refused
    BY <1>5, <2>1
  <2>3. counts'.granted + counts'.refused + Cardinality(Outstanding') <= MaxRequests
    BY <1>4, <1>5, <1>10, <2>1
  <2> QED BY <2>2, <2>3 DEF Asked
<1>12. counts' \in Counts
  <2>1. counts.requests + r \in 0 .. MaxRequests /\ counts.refused + (1 - g) \in 0 .. MaxRequests
    BY <1>4, <1>5, <1>10
  <2> QED BY <1>8, <1>9, <2>1 DEF Counts
<1>13. worker' \in {"done", "accepting"} \cup Clients
  BY DEF Answer
<1>14. conn' \in [Clients -> Conns]
  BY <1>2 DEF ChannelInv, ChannelTypeOK, Conns
<1> QED BY <1>1, <1>11, <1>12, <1>13, <1>14 DEF ChannelInv, ChannelTypeOK

LEMMA GiveUpKeeps ==
  ASSUME ChannelInv, NEW c \in Clients, GiveUp(c)
  PROVE  ChannelInv'
<1>1. /\ conn[c] \in {"open", "closed"} /\ conn' = [conn EXCEPT ![c] = "closed"]
      /\ worker' = "accepting" /\ UNCHANGED <<endpoint, stop, expired, counts>>
  BY DEF GiveUp
<1>2. Outstanding' = Outstanding
  BY <1>1, FramesAreNames, SameOutstanding DEF ChannelInv
<1>3. ChannelTypeOK'
  BY <1>1 DEF ChannelInv, ChannelTypeOK, Conns
<1> QED BY <1>1, <1>2, <1>3 DEF ChannelInv, Asked

LEMMA RemoveKeeps ==
  ASSUME ChannelInv, Remove
  PROVE  ChannelInv'
<1>1. /\ conn' = [c \in Clients |-> IF conn[c] = "none" THEN "none" ELSE "closed"]
      /\ endpoint' = "removed" /\ UNCHANGED <<stop, worker, expired, counts>>
  BY DEF Remove
<1>2. Outstanding' = {}
  BY <1>1, FramesAreNames DEF Outstanding
<1>3. counts.granted \in Nat /\ counts.refused \in Nat /\ MaxRequests \in Nat
  BY ChannelAssumption DEF ChannelInv, ChannelTypeOK, Counts
<1>4. Asked'
  <2>1. Cardinality(Outstanding') = 0
    BY <1>2, FS_EmptySet
  <2>2. counts.granted + counts.refused + Cardinality(Outstanding) <= MaxRequests
    BY DEF ChannelInv, Asked
  <2>3. counts'.granted + counts'.refused + Cardinality(Outstanding') <= MaxRequests
    BY <1>1, <1>3, <2>1, <2>2, OutstandingIsFinite
  <2> QED BY <1>1, <2>3 DEF ChannelInv, Asked
<1>5. ChannelTypeOK'
  BY <1>1 DEF ChannelInv, ChannelTypeOK, Conns
<1> QED BY <1>4, <1>5 DEF ChannelInv

\* The steps that leave the connections alone.
LEMMA QuietChannelKeeps ==
  ASSUME ChannelInv, UNCHANGED <<counts, conn>>,
         endpoint' = endpoint, stop' \in BOOLEAN, expired' \in BOOLEAN,
         worker' \in {"done", "accepting"} \cup Clients
  PROVE  ChannelInv'
  BY DEF ChannelInv, ChannelTypeOK, Asked, Outstanding

LEMMA ChannelStays ==
  ASSUME ChannelInv, UNCHANGED channelVars
  PROVE  ChannelInv'
  BY QuietChannelKeeps DEF channelVars, ChannelInv, ChannelTypeOK

LEMMA WorkerKeeps ==
  ASSUME ChannelInv, ChannelWorker
  PROVE  ChannelInv'
<1>1. CASE WorkerEnds
  BY <1>1, QuietChannelKeeps DEF WorkerEnds, ChannelInv, ChannelTypeOK
<1>2. ASSUME NEW c \in Clients, Accept(c) PROVE ChannelInv'
  BY <1>2, QuietChannelKeeps DEF Accept, ChannelInv, ChannelTypeOK
<1>3. ASSUME NEW c \in Clients, Answer(c) PROVE ChannelInv'
  BY <1>3, AnswerKeeps
<1>4. ASSUME NEW c \in Clients, GiveUp(c) PROVE ChannelInv'
  BY <1>4, GiveUpKeeps
<1> QED BY <1>1, <1>2, <1>3, <1>4 DEF ChannelWorker

-----------------------------------------------------------------------------
(* The child and the reader threads *)

LEMMA HostStays ==
  ASSUME HostInv, UNCHANGED hostVars
  PROVE  HostInv'
  BY DEF HostInv, hostVars, HostTypeOK, Flow, Order, Counted, Outcome, Observed, Ended, Consuming,
         Quiet, OutputHeld, Running, Reported, ExitIsTrue

\* What the counts are made of.
LEMMA HostIsTyped ==
  ASSUME HostTypeOK
  PROVE  /\ pipe \in Seq(Lines) /\ queue \in Seq(Items) /\ Len(pipe) \in Nat /\ Len(queue) \in Nat
         /\ total \in Nat /\ taken \in Nat /\ child.written \in Nat /\ MaxFrames \in Nat
         /\ child.written <= MaxFrames /\ taken <= MaxFrames
         /\ PipeSize \in Nat /\ QueueSize \in Nat
         /\ child \in [state : {"running", "exited", "killed"}, input : Inputs,
                       written : 0 .. MaxFrames]
  BY ProcessAssumption DEF HostTypeOK

\* What becomes of the request disturbs nothing of the output.
LEMMA InputKeeps ==
  ASSUME HostInv, ChildReads \/ ChildClosesInput \/ HelperReads
  PROVE  HostInv'
<1>1. PICK to \in Inputs : child' = [child EXCEPT !.input = to]
  BY DEF ChildReads, ChildClosesInput, HelperReads, Inputs
<1>2. UNCHANGED <<operation, core, verdict, exit, taken, helper, pipe, reader, total, queue, stderr>>
  BY DEF ChildReads, ChildClosesInput, HelperReads
<1>3. child'.state = child.state /\ child'.written = child.written
  BY <1>1, HostIsTyped DEF HostInv
<1>4. HostTypeOK'
  BY <1>1, <1>2 DEF HostInv, HostTypeOK
<1> QED BY <1>2, <1>3, <1>4 DEF HostInv, Flow, Order, Counted, Outcome, Observed, Ended, Consuming,
           Quiet, OutputHeld, Running, Reported, ExitIsTrue

LEMMA WritesKeeps ==
  ASSUME HostInv, NEW line \in Lines, ChildWrites(line)
  PROVE  HostInv'
<1>1. /\ Running /\ child.written < MaxFrames /\ Len(pipe) < PipeSize
      /\ pipe' = Append(pipe, line) /\ child' = [child EXCEPT !.written = @ + 1]
      /\ UNCHANGED <<operation, core, verdict, exit, taken, helper, reader, total, queue, stderr>>
  BY DEF ChildWrites
<1>2. /\ child'.state = child.state /\ child'.written = child.written + 1
      /\ Len(pipe') = Len(pipe) + 1 /\ pipe' \in Seq(Lines)
  BY <1>1, HostIsTyped DEF HostInv
<1>3. HostTypeOK'
  <2>1. child' \in [state : {"running", "exited", "killed"}, input : Inputs,
                    written : 0 .. MaxFrames]
    <3>1. child.written + 1 \in 0 .. MaxFrames
      BY <1>1, HostIsTyped DEF HostInv
    <3>2. child' = [child EXCEPT !.written = child.written + 1]
      BY <1>1
    <3> QED BY <3>1, <3>2, HostIsTyped DEF HostInv
  <2>2. Len(pipe') <= PipeSize
    BY <1>1, <1>2, HostIsTyped DEF HostInv
  <2> QED BY <1>1, <1>2, <2>1, <2>2 DEF HostInv, HostTypeOK
<1>4. Flow'
  BY <1>1, <1>2, HostIsTyped DEF HostInv, Flow
<1>5. ~ Quiet
  BY <1>1 DEF Quiet, OutputHeld
<1> QED BY <1>1, <1>2, <1>3, <1>4, <1>5
        DEF HostInv, Order, Counted, Outcome, Observed, Ended, Consuming, Running, Reported,
            ExitIsTrue

LEMMA ExitsKeeps ==
  ASSUME HostInv, ChildExits
  PROVE  HostInv'
<1>1. /\ Running /\ child' = [child EXCEPT !.state = "exited"]
      /\ UNCHANGED <<operation, core, verdict, exit, taken, helper, pipe, reader, total, queue,
                     stderr>>
  BY DEF ChildExits
<1>2. child'.state = "exited" /\ child'.written = child.written
  BY <1>1, HostIsTyped DEF HostInv
<1>3. HostTypeOK'
  BY <1>1 DEF HostInv, HostTypeOK
<1>4. ~ Quiet
  BY <1>1 DEF Quiet, OutputHeld
<1> QED BY <1>1, <1>2, <1>3, <1>4
        DEF HostInv, Flow, Order, Counted, Outcome, Observed, Ended, Consuming, Running, Reported,
            ExitIsTrue

\* A helper comes only from a running child, and only makes the output quieter
\* by its end.
LEMMA HelperKeeps ==
  ASSUME HostInv, ChildLeavesHelper \/ HelperEnds
  PROVE  HostInv'
<1>1. /\ helper' \in {"gone"} \cup Helpers /\ (helper' # "gone" => Running)
      /\ UNCHANGED <<operation, core, verdict, exit, taken, child, pipe, reader, total, queue,
                     stderr>>
  BY DEF ChildLeavesHelper, HelperEnds
<1>2. Quiet => Quiet'
  BY <1>1 DEF Quiet, OutputHeld, Running
<1>3. HostTypeOK'
  BY <1>1 DEF HostInv, HostTypeOK
<1> QED BY <1>1, <1>2, <1>3
        DEF HostInv, Flow, Order, Counted, Outcome, Observed, Ended, Consuming, Running, Reported,
            ExitIsTrue

\* What the reader thread hands over goes behind the frames it has read.
LEMMA ReadLineKeeps ==
  ASSUME HostInv, ReadLine
  PROVE  HostInv'
<1>0. HostTypeOK /\ Flow /\ Order /\ Counted /\ Outcome /\ Observed
  BY DEF HostInv
<1>1. PICK item : item = ItemOf(Head(pipe))
  OBVIOUS
<1>2. /\ reader = "reading" /\ pipe # <<>> /\ Len(queue) < QueueSize
      /\ queue' = Append(queue, item) /\ pipe' = Tail(pipe) /\ total' = total + 1
      /\ reader' = IF item = "frame" THEN "reading" ELSE "done"
      /\ UNCHANGED <<operation, core, verdict, exit, taken, child, helper, stderr>>
  BY <1>1 DEF ReadLine
<1>3. item \in {"frame", "failed"}
  <2>1. Head(pipe) \in Lines
    BY <1>0, <1>2, HostIsTyped
  <2> QED BY <1>1, <2>1 DEF ItemOf, Lines
<1>4. /\ queue' \in Seq(Items) /\ Len(queue') = Len(queue) + 1 /\ queue'[Len(queue')] = item
      /\ \A i \in 1 .. Len(queue) : queue'[i] = queue[i]
  BY <1>0, <1>2, <1>3, HostIsTyped DEF Items
<1>5. pipe' \in Seq(Lines) /\ Len(pipe') = Len(pipe) - 1 /\ Len(pipe) > 0
  BY <1>0, <1>2, HostIsTyped
<1>6. \A i \in 1 .. Len(queue) : queue[i] = "frame"
  BY <1>0, <1>2 DEF Order
<1>7. ~ Ended
  BY <1>0, <1>6, HostIsTyped DEF Ended
<1>8. HostTypeOK'
  <2>1. total + 1 \in 0 .. MaxFrames
    BY <1>0, <1>5, HostIsTyped DEF Flow
  <2>2. Len(queue') <= QueueSize /\ Len(pipe') <= PipeSize
    BY <1>0, <1>2, <1>4, <1>5, HostIsTyped DEF HostTypeOK
  <2> QED BY <1>0, <1>2, <1>4, <1>5, <2>1, <2>2 DEF HostTypeOK
<1>9. Flow'
  BY <1>0, <1>2, <1>5, HostIsTyped DEF Flow
<1>10. Order'
  <2> SUFFICES ASSUME NEW i \in 1 .. Len(queue'), queue'[i] # "frame"
               PROVE  i = Len(queue') /\ reader' = "done" /\ queue'[i] # "end"
    BY DEF Order
  <2>1. i \notin 1 .. Len(queue)
    BY <1>4, <1>6
  <2>2. i = Len(queue')
    BY <1>0, <1>4, <2>1, HostIsTyped
  <2> QED BY <1>2, <1>3, <1>4, <2>2
<1>11. ~ Ended'
  BY <1>3, <1>4 DEF Ended
<1>12. Counted'
  BY <1>0, <1>2, <1>4, <1>7, <1>11, HostIsTyped DEF Counted, Consuming
<1>13. Outcome'
  BY <1>0, <1>2 DEF Outcome, Consuming
<1>14. Observed'
  BY <1>0, <1>2 DEF Observed, Reported, ExitIsTrue, Running
<1> QED BY <1>8, <1>9, <1>10, <1>12, <1>13, <1>14 DEF HostInv

LEMMA ReadEndKeeps ==
  ASSUME HostInv, ReadEnd
  PROVE  HostInv'
<1>0. HostTypeOK /\ Flow /\ Order /\ Counted /\ Outcome /\ Observed
  BY DEF HostInv
<1>1. /\ reader = "reading" /\ Quiet /\ Len(queue) < QueueSize
      /\ queue' = Append(queue, "end") /\ reader' = "done"
      /\ UNCHANGED <<operation, core, verdict, exit, taken, child, helper, pipe, total, stderr>>
  BY DEF ReadEnd, StreamEnded, Quiet
<1>2. /\ queue' \in Seq(Items) /\ Len(queue') = Len(queue) + 1 /\ queue'[Len(queue')] = "end"
      /\ \A i \in 1 .. Len(queue) : queue'[i] = queue[i]
  BY <1>0, <1>1, HostIsTyped DEF Items
<1>3. \A i \in 1 .. Len(queue) : queue[i] = "frame"
  BY <1>0, <1>1 DEF Order
<1>4. ~ Ended
  BY <1>0, <1>3, HostIsTyped DEF Ended
<1>5. HostTypeOK'
  BY <1>0, <1>1, <1>2, HostIsTyped DEF HostTypeOK
<1>6. Quiet' = Quiet /\ Running' = Running
  BY <1>1 DEF Quiet, OutputHeld, Running
<1>7. Order'
  <2> SUFFICES ASSUME NEW i \in 1 .. Len(queue'), queue'[i] # "frame" PROVE i = Len(queue')
    BY <1>1, <1>6 DEF Order
  <2>1. i \notin 1 .. Len(queue)
    BY <1>2, <1>3
  <2> QED BY <1>0, <1>2, <2>1, HostIsTyped
<1>8. Ended'
  BY <1>0, <1>2, HostIsTyped DEF Ended
<1>9. Counted'
  BY <1>0, <1>1, <1>2, <1>4, <1>8, HostIsTyped DEF Counted, Consuming
<1>10. Outcome' /\ Flow'
  BY <1>0, <1>1 DEF Outcome, Consuming, Flow
<1>11. Observed'
  BY <1>0, <1>1, <1>6 DEF Observed, Reported, ExitIsTrue
<1> QED BY <1>5, <1>7, <1>9, <1>10, <1>11 DEF HostInv

LEMMA ThreadEndKeeps ==
  ASSUME HostInv, ReceiverGone \/ StderrEnds
  PROVE  HostInv'
<1>1. /\ reader = "reading" \/ reader' = reader
      /\ reader' \in {"reading", "done"} /\ stderr' \in {"reading", "done"}
      /\ reader = "done" => reader' = "done"
      /\ UNCHANGED <<operation, core, verdict, exit, taken, child, helper, pipe, total, queue>>
  BY DEF ReceiverGone, StderrEnds, HostInv, HostTypeOK
<1>2. HostTypeOK'
  BY <1>1 DEF HostInv, HostTypeOK
<1> QED BY <1>1, <1>2
        DEF HostInv, Flow, Order, Counted, Outcome, Observed, Ended, Consuming, Quiet, OutputHeld,
            Running, Reported, ExitIsTrue

-----------------------------------------------------------------------------
(* Core *)

\* A step of core that takes nothing from the queue and tells nothing of the
\* child's end.
LEMMA CoreKeeps ==
  ASSUME HostInv, UNCHANGED <<operation, exit, taken, child, helper, pipe, reader, total, queue, stderr>>,
         core' \in Phases, verdict' \in Verdicts,
         Consuming' => Consuming /\ verdict' = verdict,
         ~ Consuming' /\ verdict' = "none" => ~ Consuming /\ verdict = "none",
         Reported => Reported'
  PROVE  HostInv'
<1>1. HostTypeOK'
  BY DEF HostInv, HostTypeOK
<1>2. Quiet' = Quiet /\ Ended' = Ended /\ Running' = Running
  BY DEF Quiet, OutputHeld, Ended, Running
<1>3. Flow' /\ Order'
  BY <1>2 DEF HostInv, Flow, Order
<1>4. Counted' /\ Outcome'
  BY <1>2 DEF HostInv, Counted, Outcome
<1>5. Observed'
  BY <1>2 DEF HostInv, Observed, ExitIsTrue
<1> QED BY <1>1, <1>3, <1>4, <1>5 DEF HostInv

\* What is left of the queue when core has taken its head.
LEMMA QueueFields ==
  ASSUME HostTypeOK, Order, queue # <<>>, queue' = Tail(queue)
  PROVE  /\ queue' \in Seq(Items) /\ Len(queue') = Len(queue) - 1 /\ Len(queue) > 0
         /\ \A i \in 1 .. Len(queue') : i + 1 \in 1 .. Len(queue) /\ queue'[i] = queue[i + 1]
         /\ Head(queue) = queue[1] /\ Head(queue) \in Items
         /\ Head(queue) # "frame" => Len(queue) = 1 /\ reader = "done"
         /\ Head(queue) = "frame" => (Ended' <=> Ended)
<1>1. queue \in Seq(Items) /\ Len(queue) \in Nat /\ Len(queue) > 0
  BY HostIsTyped
<1>2. /\ queue' \in Seq(Items) /\ Len(queue') = Len(queue) - 1
      /\ \A i \in 1 .. Len(queue') : i + 1 \in 1 .. Len(queue) /\ queue'[i] = queue[i + 1]
      /\ Head(queue) = queue[1] /\ Head(queue) \in Items
  BY <1>1
<1>3. Head(queue) # "frame" => Len(queue) = 1 /\ reader = "done"
  <2>1. 1 \in 1 .. Len(queue)
    BY <1>1
  <2> QED BY <1>2, <2>1 DEF Order
<1>4. Head(queue) = "frame" => (Ended' <=> Ended)
  <2>0. Len(queue) = 1 \/ Len(queue) > 1
    <3>1. PICK n \in Nat : n = Len(queue)
      BY <1>1
    <3>2. n > 0
      BY <1>1, <3>1
    <3>3. n = 1 \/ n > 1
      BY <3>2
    <3> QED BY <3>1, <3>3
  <2>1. CASE Len(queue) = 1
    <3>1. queue' = <<>>
      BY <1>2, <2>1
    <3>2. ~ Ended'
      BY <3>1 DEF Ended
    <3>3. queue[Len(queue)] = Head(queue)
      BY <1>2, <2>1
    <3>4. Head(queue) = "frame" => ~ Ended
      BY <3>3 DEF Ended
    <3> QED BY <3>2, <3>4
  <2>2. CASE Len(queue) > 1
    <3>1. Len(queue') \in 1 .. Len(queue') /\ Len(queue') + 1 = Len(queue) /\ queue' # <<>>
      BY <1>1, <1>2, <2>2
    <3>2. queue'[Len(queue')] = queue[Len(queue)]
      BY <1>2, <3>1
    <3> QED BY <3>1, <3>2 DEF Ended
  <2> QED BY <2>0, <2>1, <2>2
<1> QED BY <1>1, <1>2, <1>3, <1>4

\* What a step that takes an item has to see to.
LEMMA TakeKeeps ==
  ASSUME HostInv, core = "reading", queue # <<>>, queue' = Tail(queue),
         UNCHANGED <<operation, exit, child, helper, pipe, reader, total, stderr>>,
         core' \in {"reading", "waiting"}, verdict' \in Verdicts, taken' \in 0 .. MaxFrames,
         Counted', Outcome'
  PROVE  HostInv'
<1>0. HostTypeOK /\ Flow /\ Order /\ Observed
  BY DEF HostInv
<1>1. /\ queue' \in Seq(Items) /\ Len(queue') = Len(queue) - 1 /\ Len(queue) > 0
      /\ \A i \in 1 .. Len(queue') : i + 1 \in 1 .. Len(queue) /\ queue'[i] = queue[i + 1]
  BY <1>0, QueueFields
<1>2. HostTypeOK'
  <2>1. Len(queue') <= QueueSize
    BY <1>0, <1>1, HostIsTyped DEF HostTypeOK
  <2> QED BY <1>0, <1>1, <2>1 DEF HostTypeOK, Phases
<1>3. Quiet' = Quiet /\ Running' = Running
  BY DEF Quiet, OutputHeld, Running
<1>4. Order'
  <2>1. \A i \in 1 .. Len(queue') : queue'[i] # "frame" => i = Len(queue') /\ reader' = "done"
    <3> SUFFICES ASSUME NEW i \in 1 .. Len(queue'), queue'[i] # "frame"
                 PROVE  i = Len(queue') /\ reader' = "done"
      OBVIOUS
    <3>1. i + 1 \in 1 .. Len(queue) /\ queue[i + 1] # "frame"
      BY <1>1
    <3>2. i + 1 = Len(queue) /\ reader = "done"
      BY <1>0, <3>1 DEF Order
    <3>3. i \in Nat /\ Len(queue) \in Nat /\ Len(queue') = Len(queue) - 1
      BY <1>0, <1>1, HostIsTyped
    <3>4. i = Len(queue')
      BY <3>2, <3>3
    <3> QED BY <3>2, <3>4
  <2>2. \A i \in 1 .. Len(queue') : queue'[i] = "end" => Quiet'
    BY <1>0, <1>1, <1>3 DEF Order
  <2> QED BY <2>1, <2>2 DEF Order
<1>5. Observed'
  BY <1>0, <1>3 DEF Observed, Reported, ExitIsTrue
<1>6. Flow'
  BY <1>0 DEF Flow
<1> QED BY <1>2, <1>4, <1>5, <1>6 DEF HostInv

LEMMA TakeGoodKeeps ==
  ASSUME HostInv, TakeGood
  PROVE  HostInv'
<1>0. HostTypeOK /\ Flow /\ Order /\ Counted /\ Observed
  BY DEF HostInv
<1>1. /\ core = "reading" /\ queue # <<>> /\ Head(queue) = "frame" /\ queue' = Tail(queue)
      /\ taken' = taken + 1
      /\ UNCHANGED <<operation, exit, child, helper, pipe, reader, total, stderr>>
      /\ \/ /\ core' = IF operation = "describe" THEN "waiting" ELSE "reading"
            /\ verdict' = verdict
         \/ operation = "collect" /\ core' = "waiting" /\ verdict' = "failed"
  BY DEF TakeGood
<1>2. Len(queue') = Len(queue) - 1 /\ Len(queue) > 0 /\ (Ended' <=> Ended) /\ Head(queue) = queue[1]
  BY <1>0, <1>1, QueueFields
<1>3. /\ verdict = "none" /\ (operation = "describe" => taken = 0)
      /\ taken + Len(queue) = IF Ended THEN total + 1 ELSE total
  BY <1>0, <1>1 DEF Counted, Consuming
<1>4. operation \in {"describe", "collect"} /\ core' \in {"reading", "waiting"} /\ verdict' \in Verdicts
  BY <1>0, <1>1, <1>3 DEF HostTypeOK, Verdicts
<1>5. taken' \in 0 .. MaxFrames
  <2>1. Ended => Len(queue) > 1
    BY <1>0, <1>1, <1>2, HostIsTyped DEF Ended
  <2>2. total <= MaxFrames
    BY <1>0, HostIsTyped DEF Flow
  <2> QED BY <1>0, <1>1, <1>2, <1>3, <2>1, <2>2, HostIsTyped
<1>6. Counted'
  <2>1. Consuming' => operation = "collect" /\ verdict' = "none"
    <3>1. CASE core' = "waiting"
      BY <3>1 DEF Consuming
    <3>2. CASE core' = "reading"
      <4>1. operation # "describe" /\ verdict' = verdict
        BY <1>1, <3>2
      <4> QED BY <1>3, <1>4, <4>1
    <3> QED BY <1>4, <3>1, <3>2
  <2>2. taken' + Len(queue') = IF Ended' THEN total' + 1 ELSE total'
    BY <1>0, <1>1, <1>2, <1>3, HostIsTyped
  <2> QED BY <1>1, <2>1, <2>2 DEF Counted
<1>7. Outcome'
  BY <1>0, <1>1, <1>3, <1>4, HostIsTyped DEF Outcome, Consuming
<1> QED BY <1>1, <1>4, <1>5, <1>6, <1>7, TakeKeeps

LEMMA TakeRefusedKeeps ==
  ASSUME HostInv, TakeRefused
  PROVE  HostInv'
<1>1. /\ core = "reading" /\ queue # <<>> /\ queue' = Tail(queue)
      /\ core' = "waiting" /\ verdict' = "rejected" /\ taken' = taken
      /\ UNCHANGED <<operation, exit, child, helper, pipe, reader, total, stderr>>
  BY DEF TakeRefused
<1>2. Counted' /\ Outcome' /\ verdict' \in Verdicts /\ taken' \in 0 .. MaxFrames
  BY <1>1 DEF Counted, Outcome, Consuming, Verdicts, HostInv, HostTypeOK
<1> QED BY <1>1, <1>2, TakeKeeps

\* The end comes behind every frame that was read.
LEMMA TakeEndKeeps ==
  ASSUME HostInv, TakeEnd
  PROVE  HostInv'
<1>0. HostTypeOK /\ Flow /\ Order /\ Counted
  BY DEF HostInv
<1>1. /\ core = "reading" /\ queue # <<>> /\ Head(queue) = "end" /\ queue' = Tail(queue)
      /\ core' = "waiting" /\ taken' = taken
      /\ verdict' = IF operation = "describe" THEN "rejected" ELSE verdict
      /\ UNCHANGED <<operation, exit, child, helper, pipe, reader, total, stderr>>
  BY DEF TakeEnd
<1>2. Head(queue) = queue[1] /\ Len(queue) = 1 /\ reader = "done"
  BY <1>0, <1>1, QueueFields
<1>3. Ended /\ Quiet /\ Quiet'
  BY <1>0, <1>1, <1>2 DEF Ended, Order, Quiet, OutputHeld, Running
<1>4. taken = child.written
  <2>1. taken + 1 = total + 1
    BY <1>0, <1>1, <1>2, <1>3 DEF Counted, Consuming
  <2>2. total + 0 = child.written
    BY <1>0, <1>3 DEF Flow, Quiet
  <2> QED BY <1>0, <2>1, <2>2, HostIsTyped
<1>5. Counted' /\ Outcome'
  BY <1>0, <1>1, <1>2, <1>3, <1>4 DEF Counted, Outcome, Consuming, HostTypeOK
<1>6. verdict' \in Verdicts /\ taken' \in 0 .. MaxFrames
  BY <1>0, <1>1 DEF Verdicts, HostTypeOK
<1> QED BY <1>1, <1>5, <1>6, TakeKeeps

\* Observations of an ended child, and of one that core ends.
LEMMA ChildEndedKeeps ==
  ASSUME HostInv, ChildEnded
  PROVE  HostInv'
<1>1. /\ core = "waiting" /\ ~ Running /\ exit' = ObservationOf(child) /\ core' = "joining"
      /\ UNCHANGED <<operation, verdict, taken, child, helper, pipe, reader, total, queue, stderr>>
  BY DEF ChildEnded
<1>2. exit' \in Observations /\ (exit' = "exited" => child.state = "exited")
  BY <1>1 DEF ObservationOf, Observations
<1>3. HostTypeOK'
  BY <1>1, <1>2 DEF HostInv, HostTypeOK, Phases
<1>4. Quiet' = Quiet /\ Ended' = Ended /\ Running' = Running
  BY <1>1 DEF Quiet, OutputHeld, Ended, Running
<1>5. Flow' /\ Order' /\ Counted' /\ Outcome'
  BY <1>1, <1>4 DEF HostInv, Flow, Order, Counted, Outcome, Consuming
<1>6. Observed'
  BY <1>1, <1>2, <1>4 DEF Observed, Reported, ExitIsTrue
<1> QED BY <1>3, <1>5, <1>6 DEF HostInv

LEMMA KillKeeps ==
  ASSUME HostInv, Kill
  PROVE  HostInv'
<1>1. /\ core = "killing" /\ core' = "joining" /\ exit' = TimedOut
      /\ child' = [child EXCEPT !.state = IF Running THEN "killed" ELSE @]
      /\ UNCHANGED <<operation, verdict, taken, helper, pipe, reader, total, queue, stderr>>
  BY DEF Kill
<1>2. exit' \in {"timeout", "terminated"}
  BY <1>1 DEF TimedOut
<1>3. /\ child' \in [state : {"running", "exited", "killed"}, input : Inputs,
                     written : 0 .. MaxFrames]
      /\ child'.written = child.written /\ child'.state \in {"exited", "killed"}
  BY <1>1, HostIsTyped DEF HostInv, Running
<1>4. HostTypeOK'
  BY <1>1, <1>2, <1>3 DEF HostInv, HostTypeOK, Phases, Observations
<1>5. (Quiet => Quiet') /\ Ended' = Ended /\ ~ Running'
  BY <1>1, <1>3 DEF Quiet, OutputHeld, Ended, Running
<1>6. Flow' /\ Order' /\ Counted' /\ Outcome'
  BY <1>1, <1>3, <1>5 DEF HostInv, Flow, Order, Counted, Outcome, Consuming
<1>7. Observed'
  BY <1>1, <1>2, <1>5 DEF Observed, Reported, ExitIsTrue
<1> QED BY <1>4, <1>6, <1>7 DEF HostInv

LEMMA CoreStepKeeps ==
  ASSUME HostInv, Send \/ SendFails \/ IdleTimeout \/ WaitExpires \/ JoinStderr \/ CloseChannel
  PROVE  HostInv'
<1>0. HostTypeOK /\ Counted /\ Outcome
  BY DEF HostInv
<1>1. UNCHANGED <<operation, exit, taken, child, helper, pipe, reader, total, queue, stderr>>
  BY DEF Send, SendFails, IdleTimeout, WaitExpires, JoinStderr, CloseChannel
<1>2. CASE Send
  BY <1>0, <1>1, <1>2, CoreKeeps
     DEF Send, Phases, Consuming, Reported, HostTypeOK, Counted
<1>3. CASE SendFails \/ IdleTimeout
  BY <1>0, <1>1, <1>3, CoreKeeps
     DEF SendFails, IdleTimeout, Phases, Verdicts, Consuming, Reported, HostTypeOK
<1>4. CASE WaitExpires
  BY <1>0, <1>1, <1>4, CoreKeeps
     DEF WaitExpires, Phases, Consuming, Reported, HostTypeOK
<1>5. CASE JoinStderr
  BY <1>0, <1>1, <1>5, CoreKeeps
     DEF JoinStderr, Phases, Consuming, Reported, HostTypeOK
<1>6. CASE CloseChannel
  BY <1>0, <1>1, <1>6, CoreKeeps
     DEF CloseChannel, Phases, Consuming, Reported, HostTypeOK
<1> QED BY <1>2, <1>3, <1>4, <1>5, <1>6

-----------------------------------------------------------------------------
(* The invariant *)

LEMMA InitKeeps == Init => IInv
<1> SUFFICES ASSUME Init PROVE IInv
  OBVIOUS
<1>1. HostTypeOK
  BY ProcessAssumption DEF Init, HostTypeOK, Inputs, Phases, Verdicts, Observations
<1>2. Len(queue) = 0 /\ Len(pipe) = 0 /\ ~ Ended
  BY DEF Init, Ended
<1>3. Flow /\ Order
  BY <1>2 DEF Init, Flow, Order
<1>4. Counted /\ Outcome
  BY <1>2 DEF Init, Counted, Outcome, Consuming
<1>5. Observed
  BY DEF Init, Observed, Reported, ExitIsTrue
<1>6. ChannelTypeOK
  <2>1. counts \in Counts
    BY ChannelAssumption DEF Init, Counts
  <2>2. conn \in [Clients -> Conns]
    BY DEF Init, Conns
  <2> QED BY <2>1, <2>2 DEF Init, ChannelTypeOK
<1>7. Asked
  <2>1. Outstanding = {}
    BY FramesAreNames DEF Init, Outstanding
  <2>2. Cardinality(Outstanding) = 0
    BY <2>1, FS_EmptySet
  <2> QED BY <2>2, ChannelAssumption DEF Init, Asked
<1> QED BY <1>1, <1>3, <1>4, <1>5, <1>6, <1>7 DEF IInv, HostInv, ChannelInv

LEMMA NextKeeps == IInv /\ [Next]_vars => IInv'
<1> SUFFICES ASSUME IInv, [Next]_vars PROVE IInv'
  OBVIOUS
<1>0. HostInv /\ ChannelInv
  BY DEF IInv
<1>1. CASE Child
  <2>1. CASE ChildReads \/ ChildClosesInput \/ HelperReads
    BY <1>0, <2>1, InputKeeps, ChannelStays DEF ChildReads, ChildClosesInput, HelperReads, IInv
  <2>2. CASE ChildLeavesHelper \/ HelperEnds
    BY <1>0, <2>2, HelperKeeps, ChannelStays DEF ChildLeavesHelper, HelperEnds, IInv
  <2>3. CASE ClientMoves
    <3>1. UNCHANGED hostVars
          /\ \E c \in Clients : Connect(c) \/ HangUp(c) \/ (\E f \in Frames : Ask(c, f))
      BY <2>3 DEF ClientMoves
    <3>2. ASSUME NEW c \in Clients, Connect(c) \/ HangUp(c) PROVE ChannelInv'
      BY <1>0, <3>2, ConnectKeeps
    <3>3. ASSUME NEW c \in Clients, NEW f \in Frames, Ask(c, f) PROVE ChannelInv'
      BY <1>0, <3>3, AskKeeps
    <3> QED BY <1>0, <3>1, <3>2, <3>3, HostStays DEF IInv
  <2>4. ASSUME NEW line \in Lines, ChildWrites(line) PROVE IInv'
    BY <1>0, <2>4, WritesKeeps, ChannelStays DEF ChildWrites, IInv
  <2>5. CASE ChildExits
    BY <1>0, <2>5, ExitsKeeps, ChannelStays DEF ChildExits, IInv
  <2> QED BY <1>1, <2>1, <2>2, <2>3, <2>4, <2>5 DEF Child
<1>2. CASE Threads
  <2>1. UNCHANGED channelVars
    BY <1>2 DEF Threads, ReadLine, ReadEnd, ReceiverGone, StderrEnds
  <2>2. HostInv'
    BY <1>0, <1>2, ReadLineKeeps, ReadEndKeeps, ThreadEndKeeps DEF Threads
  <2> QED BY <1>0, <2>1, <2>2, ChannelStays DEF IInv
<1>3. CASE Core
  <2>1. HostInv'
    BY <1>0, <1>3, CoreStepKeeps, TakeGoodKeeps, TakeRefusedKeeps, TakeEndKeeps, ChildEndedKeeps,
       KillKeeps DEF Core
  <2>2. CASE CloseChannel
    <3>1. ASSUME Stop PROVE ChannelInv'
      BY <1>0, <3>1, QuietChannelKeeps DEF Stop, ChannelInv, ChannelTypeOK
    <3>2. ASSUME Remove PROVE ChannelInv'
      BY <1>0, <3>2, RemoveKeeps
    <3> QED BY <2>1, <2>2, <3>1, <3>2 DEF CloseChannel, IInv
  <2>3. CASE ~ CloseChannel
    <3>1. UNCHANGED channelVars
      BY <1>3, <2>3 DEF Core, Send, SendFails, TakeGood, TakeRefused, TakeEnd, IdleTimeout,
                        ChildEnded, WaitExpires, Kill, JoinStderr
    <3> QED BY <1>0, <2>1, <3>1, ChannelStays DEF IInv
  <2> QED BY <2>2, <2>3
<1>4. CASE Worker
  BY <1>0, <1>4, WorkerKeeps, HostStays DEF Worker, IInv
<1>5. CASE GrantExpires
  BY <1>0, <1>5, QuietChannelKeeps, HostStays DEF GrantExpires, Expire, IInv, ChannelInv, ChannelTypeOK
<1>6. CASE Finished \/ UNCHANGED vars
  BY <1>0, <1>6, ChannelStays, HostStays DEF Finished, vars, IInv
<1> QED BY <1>1, <1>2, <1>3, <1>4, <1>5, <1>6 DEF Next

LEMMA InvariantHolds == Spec => []IInv
<1> QED BY InitKeeps, NextKeeps, PTL DEF Spec

(***************************************************************************)
(* TypeCorrect: the counts of the run's report stay within what the        *)
(* protected channel allows, and the queue and the pipe within their sizes, *)
(* whatever the child and its clients do (channel.rs, host.rs).             *)
(***************************************************************************)
THEOREM TypeCorrect == Spec => []TypeOK
<1>1. IInv => TypeOK
  BY DEF IInv, HostInv, ChannelInv, TypeOK
<1> QED BY <1>1, InvariantHolds, PTL

(***************************************************************************)
(* OutcomeIsTrueAlways: a collect run that is reported as a clean end has   *)
(* taken every frame the child wrote, whatever the sizes of the pipe and of *)
(* the queue; a clean describe run has taken its one manifest (host.rs).    *)
(***************************************************************************)
THEOREM OutcomeIsTrueAlways == Spec => []OutcomeIsTrue
<1>1. IInv => OutcomeIsTrue
  BY DEF IInv, HostInv, Outcome, OutcomeIsTrue, Reported, Consuming
<1> QED BY <1>1, InvariantHolds, PTL

(***************************************************************************)
(* ExitIsTrueAlways: an exit code in the report is one the child gave by    *)
(* itself; a child that core killed is never reported as if it had ended    *)
(* (host.rs).                                                               *)
(***************************************************************************)
THEOREM ExitIsTrueAlways == Spec => []ExitIsTrue
<1>1. IInv => ExitIsTrue
  BY DEF IInv, HostInv, Observed
<1> QED BY <1>1, InvariantHolds, PTL
=============================================================================
