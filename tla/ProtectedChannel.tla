-------------------------- MODULE ProtectedChannel --------------------------
(***************************************************************************)
(* The endpoint through which one collect run's Field obtains its access   *)
(* token: a listening socket, one worker thread that serves one connection *)
(* at a time, and the processes that connect.  A client asks with a        *)
(* request that names this run's grant, for a bearer token and within the  *)
(* granted scopes ("genuine"), with any other request ("other"), or with a *)
(* frame that only core may send ("response").                             *)
(*                                                                         *)
(* Time is not counted: the grant may expire at any moment, and a          *)
(* connection whose next request has not come may be given up at any       *)
(* moment (PER_CONNECTION_TIMEOUT).                                        *)
(***************************************************************************)
EXTENDS Naturals, FiniteSets

CONSTANTS
    Clients,        \* the processes that may connect
    Frames,         \* what a client may write
    MaxGrants,      \* MAX_GRANTS_PER_RUN
    MaxRequests     \* bound: requests written in one run

ASSUME ChannelAssumption ==
    /\ IsFiniteSet(Clients) /\ Frames \subseteq {"genuine", "other", "response"}
    /\ MaxGrants \in Nat \ {0} /\ MaxRequests \in Nat

VARIABLES
    endpoint,       \* "absent", "open" or "removed": the socket and its directory
    stop,           \* SharedState.stop
    worker,         \* "done", "accepting", or the client being served
    expired,        \* Instant::now() >= session.deadline
    counts,         \* SharedState: requests, granted, refused
    conn            \* each client's connection

channelVars == <<endpoint, stop, worker, expired, counts, conn>>

\* "open": connected, no frame under way; a member of Frames: that frame is
\* written and not answered.  A connection need not have been accepted.
Conns == Frames \cup {"none", "open", "closed"}

Counts == [requests : 0..MaxRequests, granted : 0..MaxGrants, refused : 0..MaxRequests]

ChannelTypeOK ==
    /\ endpoint \in {"absent", "open", "removed"}
    /\ stop \in BOOLEAN
    /\ worker \in {"done", "accepting"} \cup Clients
    /\ expired \in BOOLEAN
    /\ counts \in Counts
    /\ conn \in [Clients -> Conns]

(***************************************************************************)
(* The clients.                                                            *)
(***************************************************************************)
Connect(c) ==
    /\ endpoint = "open"
    /\ worker # "done"
    /\ conn[c] = "none"
    /\ conn' = [conn EXCEPT ![c] = "open"]
    /\ UNCHANGED <<endpoint, stop, worker, expired, counts>>

Outstanding == {c \in Clients : conn[c] \in Frames}

Ask(c, request) ==
    /\ conn[c] = "open"
    /\ counts.granted + counts.refused + Cardinality(Outstanding) < MaxRequests
    /\ conn' = [conn EXCEPT ![c] = request]
    /\ UNCHANGED <<endpoint, stop, worker, expired, counts>>

\* The client closes its end, or has ended.  A request it has written stays
\* readable.
HangUp(c) ==
    /\ conn[c] = "open"
    /\ conn' = [conn EXCEPT ![c] = "closed"]
    /\ UNCHANGED <<endpoint, stop, worker, expired, counts>>

(***************************************************************************)
(* The worker thread.                                                      *)
(***************************************************************************)
Waiting(c) == conn[c] \in Frames \cup {"open"}

Accept(c) ==
    /\ worker = "accepting"
    /\ ~stop
    /\ Waiting(c)
    /\ worker' = c
    /\ UNCHANGED <<endpoint, stop, expired, counts, conn>>

\* An expired grant and a run that had its grants are refused.
Grants(c) == conn[c] = "genuine" /\ ~expired /\ counts.granted < MaxGrants

Decide(c) ==
    counts' = [requests |-> counts.requests + (IF conn[c] = "response" THEN 0 ELSE 1),
               granted  |-> counts.granted + (IF Grants(c) THEN 1 ELSE 0),
               refused  |-> counts.refused + (IF Grants(c) THEN 0 ELSE 1)]

\* stop is looked at between two requests, so that a request that arrives
\* while close waits for the worker is still answered.
KeepsServing(c) == ~stop /\ conn[c] # "response"

Answer(c) ==
    /\ worker = c
    /\ conn[c] \in Frames
    /\ Decide(c)
    /\ worker' = IF KeepsServing(c) THEN c ELSE "accepting"
    /\ conn' = [conn EXCEPT ![c] = IF KeepsServing(c) THEN "open" ELSE "closed"]
    /\ UNCHANGED <<endpoint, stop, expired>>

\* mutant: a connection is given up at its end only
GiveUpAtTheEnd(c) ==
    /\ worker = c
    /\ conn[c] = "closed"
    /\ worker' = "accepting"
    /\ UNCHANGED <<endpoint, stop, expired, counts, conn>>

\* End of stream, a malformed frame, or PER_CONNECTION_TIMEOUT without one.
GiveUp(c) ==
    /\ worker = c
    /\ conn[c] \in {"open", "closed"}
    /\ worker' = "accepting"
    /\ conn' = [conn EXCEPT ![c] = "closed"]
    /\ UNCHANGED <<endpoint, stop, expired, counts>>

WorkerEnds ==
    /\ worker = "accepting"
    /\ stop
    /\ worker' = "done"
    /\ UNCHANGED <<endpoint, stop, expired, counts, conn>>

Expire ==
    /\ endpoint = "open"
    /\ ~expired
    /\ expired' = TRUE
    /\ UNCHANGED <<endpoint, stop, worker, counts, conn>>

(***************************************************************************)
(* ProtectedChannel::close, from Drop on every path: stop, join, remove.   *)
(***************************************************************************)
Stop ==
    /\ endpoint = "open"
    /\ ~stop
    /\ stop' = TRUE
    /\ UNCHANGED <<endpoint, worker, expired, counts, conn>>

Joined == stop /\ worker = "done"

\* Connections still queued are reset with the listener.
Remove ==
    /\ endpoint = "open"
    /\ Joined
    /\ endpoint' = "removed"
    /\ conn' = [c \in Clients |-> IF conn[c] = "none" THEN "none" ELSE "closed"]
    /\ UNCHANGED <<stop, worker, expired, counts>>

ChannelWorker == WorkerEnds \/ \E c \in Clients : Accept(c) \/ Answer(c) \/ GiveUp(c)
=============================================================================
