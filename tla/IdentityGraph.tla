--------------------------- MODULE IdentityGraph ---------------------------
(***************************************************************************)
(* The derivation of people, organizations and who met whom from the       *)
(* current Notes: `derive_graph`, and a caller that writes what it         *)
(* projects in place of the projections before.                            *)
(*                                                                         *)
(* A copy is one parsed Note record: its Note ID, the Field that collected *)
(* it, and its semantic content (all that the fingerprint covers).  Record *)
(* IDs are numbers; one that no record bears any more may be minted again. *)
(***************************************************************************)
EXTENDS Identity, FiniteSetsExt

CONSTANTS
    Pool,           \* bound: the copies that can come to be in the notebook
    Stems,          \* the channel of each Field ID of the registry
    EvidenceLimit,  \* the length an evidence list may have, or None
    MaxCopies       \* bound: copies present at a time

ASSUME LimitAssumption == EvidenceLimit \in Nat \cup {None}

\* A copy has a numbered ID, and finitely many anchors and role values.
ASSUME PoolAssumption ==
    \A c \in Pool :
        /\ c.id \in Nat /\ c.content.scope \in {None} \cup (Nat \ {0})
        /\ IsFiniteSet(c.content.identities) /\ \A raw \in c.content.identities : raw.value \in Nat
        /\ IsFiniteSet(c.content.roles) /\ \A r \in c.content.roles : r[2].value \in Nat

VARIABLES
    copies,         \* the Note records of the notebook
    projections,    \* what a derivation reads of its entity and relationship records
    graph           \* what the last command derived, while the notebook is as it was

vars == <<copies, projections, graph>>

Min2(S, less(_, _)) == CHOOSE a \in S : \A b \in S : a = b \/ less(a, b)
Least(S) == Min2(S, <)
LeastKey(S) == Min2(S, KeyLess)

Gap(kind, value, property, records) ==
    [kind |-> kind, value |-> value, property |-> property, records |-> records]
Conflict(kind, notes, entities, values) ==
    [kind |-> kind, notes |-> notes, entities |-> entities, values |-> values]

(***************************************************************************)
(* Reconciling the input.                                                  *)
(***************************************************************************)
\* Copies of one Note ID that differ in content: none of them is current.
Divergent(input) ==
    {c.id : c \in {c \in input : \E d \in input : d.id = c.id /\ d.content # c.content}}
NoteIdConflicts(input) ==
    {Conflict("same-note-id-divergence", {id}, {}, {}) : id \in Divergent(input)}
OneCopyEach(input) ==
    {CHOOSE c \in input : c.id = id : id \in {c.id : c \in input} \ Divergent(input)}

SourceKey(c) == [scope |-> c.content.scope, identity |-> c.content.identity]
HasSourceKey(c) == c.content.scope # None /\ c.content.identity # None
Group(survivors, c) == {d \in survivors : HasSourceKey(d) /\ SourceKey(d) = SourceKey(c)}
GroupDiverges(group) == \E c, d \in group : c.content # d.content

\* Of the equal copies of one upstream object the lowest Note ID survives.
Current(survivors) ==
    {c \in survivors :
        HasSourceKey(c) =>
            LET group == Group(survivors, c) IN
            ~GroupDiverges(group) /\ c.id = Least({d.id : d \in group})}
SourceKeyConflicts(survivors) ==
    {Conflict("source-key-divergence", {d.id : d \in Group(survivors, c)}, {}, {SourceKey(c)}) :
        c \in {c \in survivors : HasSourceKey(c) /\ GroupDiverges(Group(survivors, c))}}
Collapses(survivors) ==
    {LET group == Group(survivors, c) IN
     [key |-> SourceKey(c), survivor |-> c.id, notes |-> {d.id : d \in group},
      producers |-> {d.field : d \in group}] :
        c \in {c \in Current(survivors) : HasSourceKey(c) /\ Cardinality(Group(survivors, c)) > 1}}
Excluded(conflicts) == {Gap("excluded-by-conflict", None, None, c.notes) : c \in conflicts}

(***************************************************************************)
(* What the engine needs of one Note.                                      *)
(***************************************************************************)
ChannelOf(field) == IF field \in DOMAIN Stems THEN Stems[field] ELSE field

Anchored(c) ==
    LET parsed == {ParseAnchor(raw, c.content.scope) : raw \in c.content.identities} IN
    {<<p.value, "identities">> : p \in {p \in parsed : p.ok}}
InRole(c) ==
    LET parsed == {<<NormalizeChannelValue(r[2]), r[1]>> : r \in c.content.roles} IN
    {<<p[1].value, p[2]>> : p \in {p \in parsed : p[1].ok}}
\* 0 is a value that is no content-addressed ID.
ArtifactsOf(c) == (c.content.artifacts \cup c.content.attachments) \ {0}
ArtifactAnchors(c) == {<<Key("artifact-sha256", None, a), "artifacts">> : a \in ArtifactsOf(c)}
ThreadKeys(c) ==
    IF c.content.scope = None THEN {}
    ELSE {<<k, c.content.scope, c.content[k]>> :
             k \in {k \in {"thread", "conversation"} : c.content[k] # None}}

Usable(c) == c.content.at # None
NoteFacts(c) ==
    [id |-> c.id, channel |-> ChannelOf(c.field), at |-> c.content.at,
     anchors |-> Anchored(c) \cup InRole(c) \cup ArtifactAnchors(c),
     artifacts |-> ArtifactsOf(c), attachments |-> c.content.attachments \ {0},
     threads |-> ThreadKeys(c), coIdentity |-> c.content.contact,
     name |-> IF c.content.contact THEN c.content.title ELSE None]

NoteGaps(c) ==
    IF ~Usable(c) THEN {Gap("malformed-note", None, "occurred_at", {c.id})}
    ELSE {Gap("unresolved-identity-anchor", r, "identities", {c.id}) :
             r \in {r \in c.content.identities : ~ParseAnchor(r, c.content.scope).ok}}
         \cup {Gap("unresolved-role-value", r[2], r[1], {c.id}) :
                  r \in {r \in c.content.roles : ~NormalizeChannelValue(r[2]).ok}}
         \cup {Gap("malformed-artifact-reference", None, p, {c.id}) :
                  p \in {p \in {"artifacts", "attachments"} : 0 \in c.content[p]}}
         \cup {Gap("unscopable-thread-key", c.content[k], k, {c.id}) :
                  k \in {k \in {"thread", "conversation"} :
                            c.content.scope = None /\ c.content[k] # None}}

KeysOf(facts) == {a[1] : a \in facts.anchors}
ParticipantKeys(facts) == {k \in KeysOf(facts) : k.namespace # "artifact-sha256"}
Touches(facts, component) == KeysOf(facts) \cap component # {}

\* A Note that names nobody and holds nothing supports no entity.
Anchorless(facts) == ParticipantKeys(facts) = {} /\ facts.artifacts = {}

AnchorGaps(notes) ==
    {Gap("no-identity-anchors", None, None, {n.id}) : n \in {n \in notes : Anchorless(n)}}

CurrentNotes(survivors) == {NoteFacts(c) : c \in {c \in Current(survivors) : Usable(c)}}
InputConflicts(input, survivors) == NoteIdConflicts(input) \cup SourceKeyConflicts(survivors)
InputGaps(survivors, notes, conflicts) ==
    Excluded(conflicts) \cup AnchorGaps(notes) \cup UNION {NoteGaps(c) : c \in Current(survivors)}

(***************************************************************************)
(* Spans: the Notes behind a claim and the time they cover.                *)
(***************************************************************************)
Earlier(a, b) == a.at < b.at \/ (a.at = b.at /\ a.id < b.id)
Later(a, b) == a.at > b.at \/ (a.at = b.at /\ a.id < b.id)
FirstSeen(notes) == Min2(notes, Earlier).at
LastSeen(notes) == Min2(notes, Later).at
Span(notes) ==
    [notes |-> {n.id : n \in notes}, channels |-> {n.channel : n \in notes},
     first |-> FirstSeen(notes), last |-> LastSeen(notes)]

Bounded(ids) ==
    IF EvidenceLimit = None THEN ids
    ELSE {i \in ids : Cardinality({j \in ids : j < i}) < EvidenceLimit}

(***************************************************************************)
(* Resolving identities: only a contact record joins anchors.              *)
(***************************************************************************)
KindsOf(facts) == {KindOf(k) : k \in ParticipantKeys(facts)}
OfKind(facts, kind) == {k \in ParticipantKeys(facts) : KindOf(k) = kind}
Neighbours(group) ==
    {p \in group \X group :
        KeyLess(p[1], p[2]) /\ ~\E k \in group : KeyLess(p[1], k) /\ KeyLess(k, p[2])}
\* Mutant: every Note is read as one subject's.
JoinsOfAnyNote(notes) ==
    UNION {{[left |-> p[1], right |-> p[2], evidence |-> n.id] :
                p \in UNION {Neighbours(OfKind(n, kind)) : kind \in KindsOf(n)}} : n \in notes}
Joins(notes) ==
    UNION {{[left |-> p[1], right |-> p[2], evidence |-> n.id] :
                p \in UNION {Neighbours(OfKind(n, kind)) : kind \in KindsOf(n)}} :
           n \in {n \in notes : n.coIdentity}}
MixedClassGaps(notes) ==
    {Gap("mixed-class-contact-record", None, "identities", {n.id}) :
        n \in {n \in notes : n.coIdentity /\ Cardinality(KindsOf(n)) > 1}}

\* The disjoint-set forest, each key at its root: the lower root wins.
Singletons(keys) == [k \in keys |-> k]
Union(root, join) ==
    LET a == root[join.left]   b == root[join.right]   low == LeastKey({a, b}) IN
    [k \in DOMAIN root |-> IF root[k] \in {a, b} THEN low ELSE root[k]]
Roots(notes) ==
    FoldSet(LAMBDA join, root : Union(root, join),
            Singletons(UNION {ParticipantKeys(n) : n \in notes}), Joins(notes))
Components(notes) ==
    LET root == Roots(notes) IN
    {{k \in DOMAIN root : root[k] = r} : r \in {root[k] : k \in DOMAIN root}}
KeyNotes(notes, key) == {n.id : n \in {n \in notes : key \in KeysOf(n)}}

(***************************************************************************)
(* The projections found in the notebook, for their IDs only.              *)
(***************************************************************************)
PriorEntities == {p \in projections : p.record = "entity"}
PriorEdges == {p \in projections : p.record = "relationship"}
Matches(prior, component) == prior.identities \cap component # {}

PriorMatches(prior, components) == Cardinality({c \in components : Matches(prior, c)})
Claimants(component, kind) == {p \in PriorEntities : p.kind = kind /\ Matches(p, component)}
\* Mutant: a prior that was split is reused for each part.
ReusesSplit(component, kind, components) ==
    Cardinality(Claimants(component, kind)) = 1
MayReuse(component, kind, components) ==
    \E p \in PriorEntities : /\ Claimants(component, kind) = {p}
                             /\ PriorMatches(p, components) = 1
AmbiguousRebind(component, kind, components) ==
    Claimants(component, kind) # {} /\ ~MayReuse(component, kind, components)

(***************************************************************************)
(* Entities: one of each component, in the order of their primary anchors. *)
(***************************************************************************)
Named(notes, component) ==
    {n \in notes : /\ n.coIdentity /\ n.name # None /\ Touches(n, component)
                   /\ NormalizedDisplayName(n.name) # None}
NamesOf(notes, component) == {NormalizedDisplayName(n.name) : n \in Named(notes, component)}
\* Contradicting names project no name.
TitleOf(notes, component) ==
    IF Cardinality(NamesOf(notes, component)) = 1
    THEN (CHOOSE n \in Named(notes, component) :
             \A m \in Named(notes, component) : FormRank(n.name) <= FormRank(m.name)).name
    ELSE None
Competing(notes, component) ==
    IF Cardinality(NamesOf(notes, component)) > 1
    THEN {n.id : n \in Named(notes, component)} ELSE {}

OriginOf(notes, component) ==
    IF Cardinality(component) > 1 THEN <<"matched", "contact-record">>
    ELSE IF Cardinality(KeyNotes(notes, LeastKey(component))) > 1 THEN <<"matched", "exact">>
    ELSE <<"explicit", "anchor">>

IsMaterialized(kind) == kind \in {"person", "organization"}
Publishable(entity) == {k \in entity.identities : IsPublishable(k)}

\* The IDs, smallest first, that no record present bears.
Fresh(n, taken) == CHOOSE i \in 1..(Cardinality(taken) + n) :
                      i \notin taken /\ Cardinality({j \in 1..i : j \notin taken}) = n
EntityIds(components) ==
    LET taken == {p.id : p \in PriorEntities}
        kind(c) == KindOf(LeastKey(c))
        minting == {c \in components : ~MayReuse(c, kind(c), components)}
        place(c) == Cardinality({d \in minting : ~KeyLess(LeastKey(c), LeastKey(d))}) IN
    [c \in components |->
        IF c \in minting THEN Fresh(place(c), taken)
        ELSE (CHOOSE p \in Claimants(c, kind(c)) : TRUE).id]

EntityOf(notes, component, id) ==
    LET span == Span({n \in notes : Touches(n, component)}) IN
    [id |-> id, kind |-> KindOf(LeastKey(component)), identities |-> component,
     primary |-> LeastKey(component), title |-> TitleOf(notes, component),
     channels |-> span.channels, evidence |-> Bounded(span.notes), count |-> Cardinality(span.notes),
     first |-> span.first, last |-> span.last,
     origin |-> OriginOf(notes, component), competing |-> Competing(notes, component)]
Entities(notes) ==
    LET components == Components(notes)   ids == EntityIds(components) IN
    {EntityOf(notes, c, ids[c]) : c \in components}

EntityConflicts(notes, entities) ==
    LET components == {e.identities : e \in entities}
        ambiguous == {e \in entities : AmbiguousRebind(e.identities, e.kind, components)} IN
    {Conflict("ambiguous-projection-rebind", {n.id : n \in {n \in notes : Touches(n, e.identities)}},
              {p.id : p \in Claimants(e.identities, e.kind)}, e.identities) : e \in ambiguous}
    \cup {Conflict("contradictory-name", e.competing, {e.id}, {}) :
             e \in {e \in entities : e.competing # {}}}
EntityGaps(entities) ==
    {Gap("unpublishable-identities", e.primary, "identities", {e.id}) :
        e \in {e \in entities : IsMaterialized(e.kind) /\ Publishable(e) = {}}}

(***************************************************************************)
(* Relationships: persons named together by a Note that is no contact.     *)
(***************************************************************************)
Meetings(notes, pair) ==
    {n \in notes : ~n.coIdentity /\ \A e \in pair : e.identities \cap ParticipantKeys(n) # {}}
Pairs(notes, entities) ==
    {pair \in kSubset(2, {e \in entities : e.kind = "person"}) : Meetings(notes, pair) # {}}
\* The lower primary anchor is the side an edge goes from.
FromSide(pair) == CHOOSE e \in pair : \A d \in pair : d = e \/ KeyLess(e.primary, d.primary)
ToSide(pair) == CHOOSE e \in pair : e # FromSide(pair)

\* Mutant: the prior's sides are taken for each other.
EdgesBack(pair) ==
    {p \in PriorEdges : p.from = ToSide(pair).id /\ p.to = FromSide(pair).id}
EdgesBetween(pair) ==
    {p \in PriorEdges : p.from = FromSide(pair).id /\ p.to = ToSide(pair).id}
EdgeIds(pairs) ==
    LET taken == {p.id : p \in PriorEdges}
        minting == {p \in pairs : Cardinality(EdgesBetween(p)) # 1}
        before(p, q) == \/ KeyLess(FromSide(p).primary, FromSide(q).primary)
                        \/ /\ FromSide(p) = FromSide(q)
                           /\ KeyLess(ToSide(p).primary, ToSide(q).primary)
        place(p) == Cardinality({q \in minting : q = p \/ before(q, p)}) IN
    [p \in pairs |-> IF p \in minting THEN Fresh(place(p), taken)
                     ELSE (CHOOSE e \in EdgesBetween(p) : TRUE).id]
Relationship(notes, pair, id) ==
    LET span == Span(Meetings(notes, pair)) IN
    [id |-> id, from |-> FromSide(pair).id, to |-> ToSide(pair).id, channels |-> span.channels,
     evidence |-> Bounded(span.notes), count |-> Cardinality(span.notes),
     first |-> span.first, last |-> span.last,
     identities |-> {k \in UNION {e.identities : e \in pair} :
                        \E n \in Meetings(notes, pair) : k \in ParticipantKeys(n)}]
Relationships(notes, entities) ==
    LET pairs == Pairs(notes, entities)   ids == EdgeIds(pairs) IN
    {Relationship(notes, p, ids[p]) : p \in pairs}

(***************************************************************************)
(* Threads, artifacts, and the candidates that weak evidence suggests.     *)
(***************************************************************************)
Threads(notes, entities) ==
    {LET in == {n \in notes : key \in n.threads}
         named == UNION {ParticipantKeys(n) : n \in in} IN
     [key |-> key, notes |-> Span(in).notes, participants |-> named, first |-> Span(in).first,
      last |-> Span(in).last, entities |-> {e.id : e \in {e \in entities : e.identities \cap named # {}}}] :
        key \in UNION {n.threads : n \in notes}}
Artifacts(notes) ==
    {LET in == {n \in notes : a \in n.artifacts} IN
     [artifact |-> a, notes |-> Span(in).notes, first |-> Span(in).first, last |-> Span(in).last,
      attachedTo |-> {n.id : n \in {n \in in : a \in n.attachments}}] :
        a \in UNION {n.artifacts : n \in notes}}

NameOf(entity) == IF entity.title = None THEN None ELSE NormalizedDisplayName(entity.title)
Candidate(reason, value, entities, evidence) ==
    [reason |-> reason, value |-> value, entities |-> {e.id : e \in entities},
     identities |-> UNION {e.identities : e \in entities}, evidence |-> evidence]

NameCandidates(entities) ==
    LET called(name) == {e \in entities : NameOf(e) = name} IN
    {Candidate("display-name-equality", name, called(name), UNION {e.evidence : e \in called(name)}) :
        name \in {n \in {NameOf(e) : e \in entities} \ {None} : Cardinality(called(n)) > 1}}

\* Gaps in their order: the property after the value, the records last.
RoleRank(property) == CHOOSE i \in 1..6 :
    <<"bcc", "cc", "from", "organizer", "participants", "to">>[i] = property
GapLess(g, h) ==
    \/ FormRank(g.value) < FormRank(h.value)
    \/ /\ g.value = h.value
       /\ \/ RoleRank(g.property) < RoleRank(h.property)
          \/ g.property = h.property /\ Least(g.records) < Least(h.records)
\* One candidate of a name and an entity, the one of the last gap there is.
ValueCandidates(notes, entities, gaps) ==
    LET values == {g \in gaps : g.kind = "unresolved-role-value" /\ NormalizedDisplayName(g.value) # None}
        called(name) == {g \in values : NormalizedDisplayName(g.value) = name}
        last(name) == CHOOSE g \in called(name) : \A h \in called(name) : h = g \/ GapLess(h, g) IN
    {Candidate("unresolved-value-matches-name", NameOf(e), {e},
               {r \in last(NameOf(e)).records : \E n \in notes : n.id = r}) :
        e \in {e \in entities : NameOf(e) # None /\ called(NameOf(e)) # {}}}

(***************************************************************************)
(* The derivation and what it projects.                                    *)
(***************************************************************************)
Assembled(input, survivors, notes, entities, conflicts, gaps) ==
    [from |-> input, notes |-> notes, entities |-> entities,
     relationships |-> Relationships(notes, entities),
     threads |-> Threads(notes, entities), artifacts |-> Artifacts(notes),
     collapses |-> Collapses(survivors), conflicts |-> conflicts, gaps |-> gaps,
     candidates |-> NameCandidates(entities) \cup ValueCandidates(notes, entities, gaps)]
Reported(input, survivors, notes, entities, conflicts) ==
    Assembled(input, survivors, notes, entities, conflicts \cup EntityConflicts(notes, entities),
              InputGaps(survivors, notes, conflicts) \cup MixedClassGaps(notes) \cup EntityGaps(entities))
Resolved(input, survivors, notes) ==
    Reported(input, survivors, notes, Entities(notes), InputConflicts(input, survivors))
Reconciled(input, survivors) == Resolved(input, survivors, CurrentNotes(survivors))
Derived(input) == Reconciled(input, OneCopyEach(input))

Heading(e) == IF e.title = None THEN e.primary ELSE e.title
EntityRecord(e) ==
    [record |-> "entity", id |-> e.id, kind |-> e.kind, identities |-> Publishable(e),
     channels |-> e.channels, evidence |-> e.evidence, title |-> e.title,
     evidenceCount |-> IF Cardinality(e.evidence) < e.count THEN e.count ELSE None,
     first |-> e.first, last |-> e.last,
     body |-> [heading |-> Heading(e), origin |-> e.origin, competing |-> e.competing]]
RelationshipRecord(r, from, to) ==
    [record |-> "relationship", id |-> r.id, from |-> r.from, to |-> r.to, channels |-> r.channels,
     evidence |-> r.evidence, evidenceCount |-> r.count, first |-> r.first, last |-> r.last,
     heading |-> <<Heading(from), Heading(to)>>]
ProjectedRecords(g) ==
    {EntityRecord(e) : e \in {e \in g.entities : IsMaterialized(e.kind)}}
    \cup UNION {{RelationshipRecord(r, d, e) :
                    d \in {d \in g.entities : d.id = r.from}, e \in {e \in g.entities : e.id = r.to}} :
               r \in g.relationships}

\* An anchor is written without its scope: one of a scoped namespace could not
\* be read back.
PriorEntity(r) ==
    [record |-> "entity", id |-> r.id, kind |-> r.kind,
     identities |-> {k \in r.identities : ~RequiresScope(Registry[k.namespace].class)}]
PriorRelationship(r) == [record |-> "relationship", id |-> r.id, from |-> r.from, to |-> r.to]
PriorOf(r) == IF r.record = "entity" THEN PriorEntity(r) ELSE PriorRelationship(r)

Init ==
    /\ copies = {}
    /\ projections = {}
    /\ graph = None

Arrive(c) ==
    /\ c \notin copies /\ Cardinality(copies) < MaxCopies
    /\ copies' = copies \cup {c}
    /\ graph' = None
    /\ UNCHANGED projections

Leave(c) ==
    /\ copies' = copies \ {c}
    /\ graph' = None
    /\ UNCHANGED projections

\* The caller writes what is projected and removes what is not any more.
Rebuild ==
    /\ graph' = Derived(copies)
    /\ projections' = {PriorOf(r) : r \in ProjectedRecords(graph')}
    /\ UNCHANGED copies

\* `entities/` and `relationships/` can be deleted at any time.
DeleteProjections ==
    /\ projections # {}
    /\ projections' = {}
    /\ graph' = None
    /\ UNCHANGED copies

Next ==
    \/ \E c \in Pool \ copies : Arrive(c)
    \/ \E c \in copies : Leave(c)
    \/ Rebuild
    \/ DeleteProjections

Spec == Init /\ [][Next]_vars

(***************************************************************************)
(* Properties.                                                             *)
(***************************************************************************)
\* A derivation whose entities are those the evidence makes.
FollowsTheEvidence(g) ==
    LET notes == g.notes
        contacts == {n \in notes : n.coIdentity}
        sharing(n, k, l) == {k, l} \subseteq ParticipantKeys(n) /\ KindOf(k) = KindOf(l)
        anchors == UNION {ParticipantKeys(n) : n \in notes}
        reported == (UNION {x.records : x \in g.gaps}) \cup (UNION {c.notes : c \in g.collapses})
        held == UNION {a.notes : a \in g.artifacts} IN
    /\ UNION {e.identities : e \in g.entities} = anchors
    /\ \A d, e \in g.entities : d = e \/ (d.id # e.id /\ d.identities \cap e.identities = {})
    /\ \A n \in contacts, k, l \in anchors :
           sharing(n, k, l) => \E e \in g.entities : {k, l} \subseteq e.identities
    /\ \A e \in g.entities : \A part \in (SUBSET e.identities) \ {{}, e.identities} :
           \E n \in contacts, k \in part, l \in e.identities \ part : sharing(n, k, l)
    /\ \A e \in g.entities :
           LET naming == {n.id : n \in {n \in notes : Touches(n, e.identities)}} IN
           /\ e.count = Cardinality(naming)
           /\ e.evidence \subseteq naming
           /\ e.count > Cardinality(e.evidence) => Cardinality(e.evidence) = EvidenceLimit
    /\ \A c \in g.from :
           \/ c.id \in reported \cup held
           \/ \E n \in notes : n.id = c.id /\ ParticipantKeys(n) # {}

\* The entities are the finest partition of the anchors of the current Notes
\* that keeps the anchors of one kind on one contact record together, each
\* cites the Notes that name it and no other, and no copy of the notebook is
\* passed over in silence: it is cited, or a gap, a conflict or a collapse
\* names it (reconcile_input, resolve_identities, build_entities).
EntitiesFollowTheEvidence == graph # None => FollowsTheEvidence(graph)

\* An entity whose record has an anchor it can be recognized by.
Recognizable(e) == IsMaterialized(e.kind) /\ PriorEntity(EntityRecord(e)).identities # {}
Settles(g, h) ==
    \A e \in g.entities : Recognizable(e) =>
        /\ \E d \in h.entities : d.id = e.id /\ d.identities = e.identities
        /\ \A f \in g.entities : Recognizable(f) =>
               {r \in g.relationships : r.from = e.id /\ r.to = f.id}
                   = {r \in h.relationships : r.from = e.id /\ r.to = f.id}

\* A rebuild over Notes that have not changed gives every entity a record can
\* be recognized by, and every edge between two of them, the ID it has (the
\* reuse of prior projections in build_entities and build_relationships).
RebuildSettles ==
    [][graph # None /\ graph' \notin {graph, None} => Settles(graph, graph')]_vars

\* An entity that bears the ID of a record of the notebook is that record's
\* subject and its only one: they share an anchor, no other entity has one of
\* the record's anchors, and no other record one of the entity's (prior_reuse).
IdsFollowTheirSubject ==
    [][\A e \in (IF graph' \in {graph, None} THEN {} ELSE graph'.entities), p \in PriorEntities :
        p.id = e.id =>
            /\ p.identities \cap e.identities # {}
            /\ \A d \in graph'.entities : p.identities \cap d.identities # {} => d = e
            /\ \A q \in PriorEntities : q.identities \cap e.identities # {} => q = p]_vars

=============================================================================
