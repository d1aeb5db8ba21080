---------------------------- MODULE GraphStream ----------------------------
(***************************************************************************)
(* Reading one Microsoft Graph collection: the feed of changes Graph keeps *)
(* for it, and the Field's page stream over that feed.                     *)
(*                                                                         *)
(* The feed is external: a sequence of changes, in which an object's       *)
(* version is the position of its last change.  A delta link names a       *)
(* position.  A stream owes the items that changed after the position it   *)
(* started from, page by page and in any order; only the last page brings  *)
(* the next delta link, which is as old as the stream.                     *)
(*                                                                         *)
(* The stream is a record and its methods are operators, so that every     *)
(* Field's module can hold one.                                            *)
(***************************************************************************)
EXTENDS Naturals, Sequences, FiniteSets, FiniteSetsExt

CONSTANTS
    Objects,      \* messages, events or contacts, by immutable identifier
    MaxAttempts,  \* RetryPolicy::max_attempts
    PageSize      \* bound: items of one page

ASSUME StreamAssumption ==
    IsFiniteSet(Objects) /\ MaxAttempts \in Nat \ {0} /\ PageSize \in Nat \ {0}

(***************************************************************************)
(* The feed.  `leave` is a message that moved to another folder: Graph     *)
(* reports it as removed, with a reason that is not a deletion.            *)
(***************************************************************************)
Kinds == {"put", "delete", "leave"}
Changes == [object : Objects, kind : Kinds]

VersionAt(feed, o, p) == Max({0} \cup {i \in 1..p : feed[i].object = o})
Version(feed, o) == VersionAt(feed, o, Len(feed))
KindAt(feed, v) == IF v = 0 THEN "delete" ELSE feed[v].kind
Live(feed, o) == KindAt(feed, Version(feed, o)) = "put"

Items == [object : Objects, version : Nat, kind : Kinds]
ItemOf(feed, o) ==
    [object |-> o, version |-> Version(feed, o), kind |-> KindAt(feed, Version(feed, o))]

\* An initial enumeration, and a list, knows only what is there; a resumed
\* delta knows what has changed, removals included.
OwedInitially(feed, scope) == {o \in scope : Live(feed, o)}
OwedSince(feed, scope, link) == {o \in scope : Version(feed, o) > link}

(***************************************************************************)
(* The page stream.  `open` is PageCursor::Pending; `token` has at most    *)
(* one element; `attempt` counts the calls of the request under way.       *)
(***************************************************************************)
NoStream == [owed |-> {}, upto |-> 0, delta |-> FALSE, open |-> FALSE,
             buffer |-> {}, token |-> {}, attempt |-> 1]

NewStream(feed, owed, delta) ==
    [NoStream EXCEPT !.owed = owed, !.upto = Len(feed), !.delta = delta, !.open = TRUE]

\* next() fetches only once the buffered page is exhausted.
NeedsPage(s) == s.open /\ s.buffer = {}
Exhausted(s) == ~s.open /\ s.buffer = {}

\* The objects a page may bring: an intermediate page may be empty, the last
\* one brings everything still owed.
Pages(s) == {p \in SUBSET s.owed : Cardinality(p) <= PageSize}

NextLink(s, feed, page) ==
    [s EXCEPT !.owed = @ \ page, !.buffer = {ItemOf(feed, o) : o \in page}, !.attempt = 1]

\* links: whether the last page carries a delta link, which a plain list never does
LastPage(s, feed, links) ==
    [NextLink(s, feed, s.owed) EXCEPT !.open = FALSE,
                                      !.token = IF s.delta /\ links THEN {s.upto} ELSE {}]

(***************************************************************************)
(* Failures of a call.  Graph is asked again when it throttles or is out   *)
(* of order, and when it cannot be reached, while attempts and the         *)
(* elapsed-time budget last; the budget may end first.                     *)
(***************************************************************************)
StatusErrors == {"ReauthenticationRequired", "PermissionDenied", "Throttled",
                 "ServiceUnavailable", "InvalidRequest"}
GraphErrors == StatusErrors \cup {"Transport", "MalformedResponse", "UntrustedContinuation"}

IsRetryable(error) == error \in {"Throttled", "ServiceUnavailable", "Transport"}

CanRetry(s, error) == IsRetryable(error) /\ s.attempt < MaxAttempts
Retried(s) == [s EXCEPT !.attempt = @ + 1]

\* The continuation was taken before the request: a failed stream has ended,
\* without a token.
Failed(s) == [s EXCEPT !.open = FALSE, !.attempt = 1]

Popped(s, item) == [s EXCEPT !.buffer = @ \ {item}]

Streams(maxLen) ==
    [owed : SUBSET Objects, upto : 0..maxLen, delta : BOOLEAN, open : BOOLEAN,
     buffer : SUBSET Items, token : SUBSET (0..maxLen), attempt : 1..MaxAttempts]
=============================================================================
