------------------------ MODULE IdentityGraphProofs -------------------------
(***************************************************************************)
(* Theorems about IdentityGraph, for any copies, connectors and limits:    *)
(* the entities are what the evidence makes them, and an ID stays with its *)
(* subject through every rebuild.                                          *)
(***************************************************************************)
EXTENDS IdentityGraph, TLAPS, FiniteSetTheorems, WellFoundedInduction

-----------------------------------------------------------------------------
(* Orders *)

\* A nonempty set of numbers has a least one.
LEMMA NumbersHaveLeast ==
  ASSUME NEW S \in SUBSET Nat, S # {}
  PROVE  \E x \in S : \A y \in S : x <= y
<1>1. \E x \in S : \A y \in S : ~ (<<y, x>> \in OpToRel(<, Nat))
  BY WFMin, NatLessThanWellFounded
<1>2. PICK x \in S : \A y \in S : ~ (y < x)
  BY <1>1 DEF OpToRel
<1> QED BY <1>2

\* A finite set in a strict total order has a least element.
LEMMA OrderHasLeast ==
  ASSUME NEW S, IsFiniteSet(S), S # {}, NEW R,
         \A a \in S : <<a, a>> \notin R,
         \A a, b, c \in S : <<a, b>> \in R /\ <<b, c>> \in R => <<a, c>> \in R,
         \A a, b \in S : a = b \/ <<a, b>> \in R \/ <<b, a>> \in R
  PROVE  \E a \in S : \A b \in S : b = a \/ <<a, b>> \in R
<1> DEFINE Below(a) == {b \in S : <<b, a>> \in R}
<1>1. \A a \in S : IsFiniteSet(Below(a)) /\ Cardinality(Below(a)) \in Nat
  <2>1. SUFFICES ASSUME NEW a \in S PROVE IsFiniteSet(Below(a)) /\ Cardinality(Below(a)) \in Nat
    OBVIOUS
  <2>2. Below(a) \in SUBSET S
    OBVIOUS
  <2> QED BY <2>2, FS_Subset, FS_CardinalityType
<1>2. PICK n : n = [a \in S |-> Cardinality(Below(a))]
  OBVIOUS
<1>3. PICK a \in S : \A b \in S : Cardinality(Below(a)) <= Cardinality(Below(b))
  <2> HIDE DEF Below
  <2>1. \A b \in S : n[b] = Cardinality(Below(b)) /\ n[b] \in Nat
    BY <1>1, <1>2
  <2>2. {n[b] : b \in S} \in SUBSET Nat /\ {n[b] : b \in S} # {}
    BY <2>1
  <2>3. PICK x \in {n[b] : b \in S} : \A y \in {n[b] : b \in S} : x <= y
    BY <2>2, NumbersHaveLeast
  <2> QED BY <2>1, <2>3
<1>4. ASSUME NEW b \in S, b # a, <<a, b>> \notin R PROVE FALSE
  <2>1. <<b, a>> \in R
    BY <1>4
  <2>2. Below(b) \in SUBSET Below(a) /\ b \in Below(a) /\ b \notin Below(b)
    BY <2>1
  <2>3. Cardinality(Below(b)) <= Cardinality(Below(a)) /\ Cardinality(Below(a)) # Cardinality(Below(b))
    BY <1>1, <2>2, FS_Subset
  <2> HIDE DEF Below
  <2> QED BY <1>1, <1>3, <2>3
<1> QED BY <1>3, <1>4

-----------------------------------------------------------------------------
(* Keys, and their order *)

Names == {Order[i] : i \in DOMAIN Order}
Scopes == {None} \cup (Nat \ {0})
Keys == [namespace : Names, scope : Scopes, value : Nat]

LEMMA NamesAreRanked ==
  \A n \in Names : Rank(n) \in Nat /\ Order[Rank(n)] = n
<1>1. DOMAIN Order = 1 .. Len(Order) /\ Len(Order) \in Nat
  BY DEF Order
<1>2. SUFFICES ASSUME NEW n \in Names PROVE Rank(n) \in 1 .. Len(Order) /\ Order[Rank(n)] = n
  BY <1>1
<1>3. \E i \in 1 .. Len(Order) : Order[i] = n
  BY <1>1 DEF Names
<1> QED BY <1>3 DEF Rank

\* The order of keys as one of three numbers.
LEMMA KeyLessIs ==
  ASSUME NEW a \in Keys, NEW b \in Keys
  PROVE  /\ Rank(a.namespace) \in Nat /\ ScopeRank(a.scope) \in Nat /\ a.value \in Nat
         /\ KeyLess(a, b) <=>
              \/ Rank(a.namespace) < Rank(b.namespace)
              \/ Rank(a.namespace) = Rank(b.namespace) /\ ScopeRank(a.scope) < ScopeRank(b.scope)
              \/ /\ Rank(a.namespace) = Rank(b.namespace) /\ ScopeRank(a.scope) = ScopeRank(b.scope)
                 /\ a.value < b.value
         /\ a = b <=> /\ Rank(a.namespace) = Rank(b.namespace)
                      /\ ScopeRank(a.scope) = ScopeRank(b.scope) /\ a.value = b.value
<1>1. Rank(a.namespace) = Rank(b.namespace) <=> a.namespace = b.namespace
  BY NamesAreRanked DEF Keys
<1>2. /\ ScopeRank(a.scope) = ScopeRank(b.scope) <=> a.scope = b.scope
      /\ ScopeRank(a.scope) \in Nat
  BY DEF Keys, Scopes, ScopeRank
<1>3. a = b <=> a.namespace = b.namespace /\ a.scope = b.scope /\ a.value = b.value
  BY DEF Keys
<1>4. Rank(a.namespace) \in Nat /\ a.value \in Nat
  BY NamesAreRanked DEF Keys
<1>5. KeyLess(a, b) <=>
        \/ Rank(a.namespace) < Rank(b.namespace)
        \/ /\ a.namespace = b.namespace
           /\ \/ ScopeRank(a.scope) < ScopeRank(b.scope)
              \/ a.scope = b.scope /\ a.value < b.value
  BY DEF KeyLess
<1> QED BY <1>1, <1>2, <1>3, <1>4, <1>5

LEMMA KeyOrder ==
  /\ \A a \in Keys : ~KeyLess(a, a)
  /\ \A a, b, c \in Keys : KeyLess(a, b) /\ KeyLess(b, c) => KeyLess(a, c)
  /\ \A a, b \in Keys : a = b \/ KeyLess(a, b) \/ KeyLess(b, a)
<1>1. \A a \in Keys : ~KeyLess(a, a)
  BY KeyLessIs
<1>2. ASSUME NEW a \in Keys, NEW b \in Keys, NEW c \in Keys, KeyLess(a, b), KeyLess(b, c) PROVE KeyLess(a, c)
  BY <1>2, KeyLessIs
<1>3. ASSUME NEW a \in Keys, NEW b \in Keys PROVE a = b \/ KeyLess(a, b) \/ KeyLess(b, a)
  BY KeyLessIs
<1> QED BY <1>1, <1>2, <1>3

LEMMA LeastKeyIs ==
  ASSUME NEW S \in SUBSET Keys, IsFiniteSet(S), S # {}
  PROVE  LeastKey(S) \in S /\ \A b \in S : b = LeastKey(S) \/ KeyLess(LeastKey(S), b)
<1> DEFINE R == {z \in S \X S : KeyLess(z[1], z[2])}
<1>1. \A a, b \in S : <<a, b>> \in R <=> KeyLess(a, b)
  OBVIOUS
<1>2. /\ \A a \in S : <<a, a>> \notin R
      /\ \A a, b, c \in S : <<a, b>> \in R /\ <<b, c>> \in R => <<a, c>> \in R
      /\ \A a, b \in S : a = b \/ <<a, b>> \in R \/ <<b, a>> \in R
  BY <1>1, KeyOrder
<1> HIDE DEF R
<1>3. \E a \in S : \A b \in S : b = a \/ <<a, b>> \in R
  BY <1>2, OrderHasLeast
<1>4. \E a \in S : \A b \in S : a = b \/ KeyLess(a, b)
  BY <1>1, <1>3
<1>5. LeastKey(S) = CHOOSE a \in S : \A b \in S : a = b \/ KeyLess(a, b)
  BY DEF LeastKey, Min2
<1> QED BY <1>4, <1>5

LEMMA HasGreatestKey ==
  ASSUME NEW S \in SUBSET Keys, IsFiniteSet(S), S # {}
  PROVE  \E a \in S : \A b \in S : b = a \/ KeyLess(b, a)
<1> DEFINE R == {z \in S \X S : KeyLess(z[2], z[1])}
<1>1. \A a, b \in S : <<a, b>> \in R <=> KeyLess(b, a)
  OBVIOUS
<1>2. /\ \A a \in S : <<a, a>> \notin R
      /\ \A a, b, c \in S : <<a, b>> \in R /\ <<b, c>> \in R => <<a, c>> \in R
      /\ \A a, b \in S : a = b \/ <<a, b>> \in R \/ <<b, a>> \in R
  BY <1>1, KeyOrder
<1> HIDE DEF R
<1>3. \E a \in S : \A b \in S : b = a \/ <<a, b>> \in R
  BY <1>2, OrderHasLeast
<1> QED BY <1>1, <1>3

LEMMA ImageIsFinite ==
  ASSUME NEW S, IsFiniteSet(S), NEW f, DOMAIN f = S
  PROVE  IsFiniteSet({f[x] : x \in S}) /\ Cardinality({f[x] : x \in S}) <= Cardinality(S)
<1> DEFINE T == {f[x] : x \in S}
<1>1. PICK g : g = [x \in S |-> f[x]]
  OBVIOUS
<1>2. g \in Surjection(S, T)
  BY <1>1 DEF Surjection
<1> QED BY <1>2, FS_Surjection

-----------------------------------------------------------------------------
(* What is read of a Note are keys, finitely many *)

LEMMA RulesGiveNumbers ==
  ASSUME NEW rule \in {"email", "phone", "domain", "digest", "opaque"}, NEW raw, raw.value \in Nat,
         Apply(rule, raw).ok
  PROVE  Apply(rule, raw).value \in Nat
BY DEF Apply, NormalizeEmail, NormalizePhone, NormalizeDomain, NormalizeDigest, NormalizeOpaque,
       AsSpelt, Unfolded, Refused, Is

LEMMA RegistryIs ==
  /\ DOMAIN Registry \subseteq Names
  /\ {"email", "phone"} \subseteq DOMAIN Registry
  /\ \A n \in DOMAIN Registry : Registry[n].rule \in {"email", "phone", "domain", "digest", "opaque"}
<1>1. DOMAIN V1 = {"artifact-sha256", "domain", "email", "phone"} /\ DOMAIN V1 \subseteq Names
  BY DEF V1, Names, Order
<1>2. \A n \in DOMAIN V1 : V1[n].rule \in {"email", "phone", "domain", "digest", "opaque"}
  BY DEF V1, Policy
<1>3. DOMAIN Registry = DOMAIN Declared \cup DOMAIN V1
  BY DEF Registry
<1>4. \A n \in DOMAIN Registry : Registry[n] = IF n \in DOMAIN Declared THEN Declared[n] ELSE V1[n]
  BY DEF Registry
<1> QED BY <1>1, <1>2, <1>3, <1>4, DeclaredAssumption DEF Names

LEMMA ParsedIsKey ==
  ASSUME NEW raw, raw.value \in Nat, NEW scope \in Scopes, ParseAnchor(raw, scope).ok
  PROVE  ParseAnchor(raw, scope).value \in Keys
<1>1. raw.prefix \in DOMAIN Registry
  BY DEF ParseAnchor, Refused
<1>2. PICK rule : rule = Registry[raw.prefix].rule
  OBVIOUS
<1>3. rule \in {"email", "phone", "domain", "digest", "opaque"} /\ raw.prefix \in Names
  BY <1>1, <1>2, RegistryIs
<1>4. Apply(rule, raw).ok
  BY <1>1, <1>2 DEF ParseAnchor, Refused
<1>5. Apply(rule, raw).value \in Nat
  BY <1>3, <1>4, RulesGiveNumbers
<1>6. PICK s \in Scopes : ParseAnchor(raw, scope).value = Key(raw.prefix, s, Apply(rule, raw).value)
  BY <1>1, <1>2, <1>4 DEF ParseAnchor, Refused, Is, Scopes
<1> QED BY <1>3, <1>5, <1>6 DEF Key, Keys

LEMMA ChannelIsKey ==
  ASSUME NEW raw, raw.value \in Nat, NormalizeChannelValue(raw).ok
  PROVE  NormalizeChannelValue(raw).value \in Keys
<1>1. PICK n \in {"email", "phone"} :
        Apply(Registry[n].rule, raw).ok /\ NormalizeChannelValue(raw).value = Key(n, None, Apply(Registry[n].rule, raw).value)
  BY DEF NormalizeChannelValue, Refused, Is
<1>2. Apply(Registry[n].rule, raw).value \in Nat /\ n \in Names
  BY <1>1, RegistryIs, RulesGiveNumbers
<1> QED BY <1>1, <1>2 DEF Key, Keys, Scopes

LEMMA ParticipantsAreKeys ==
  ASSUME NEW c \in Pool
  PROVE  ParticipantKeys(NoteFacts(c)) \in SUBSET Keys /\ IsFiniteSet(ParticipantKeys(NoteFacts(c)))
<1> DEFINE scope == c.content.scope
           anchor == [raw \in c.content.identities |-> ParseAnchor(raw, scope).value]
           role == [r \in c.content.roles |-> NormalizeChannelValue(r[2]).value]
           anchors == {anchor[raw] : raw \in c.content.identities}
           roles == {role[r] : r \in c.content.roles}
<1>1. /\ scope \in Scopes
      /\ IsFiniteSet(c.content.identities) /\ \A raw \in c.content.identities : raw.value \in Nat
      /\ IsFiniteSet(c.content.roles) /\ \A r \in c.content.roles : r[2].value \in Nat
  BY PoolAssumption DEF Scopes
<1>2. IsFiniteSet(anchors) /\ IsFiniteSet(roles)
  BY <1>1, ImageIsFinite
<1>3. IsFiniteSet(anchors \cup roles)
  BY <1>2, FS_Union
<1>4. ASSUME NEW k \in ParticipantKeys(NoteFacts(c)) PROVE k \in Keys /\ k \in anchors \cup roles
  <2>1. NoteFacts(c).anchors = Anchored(c) \cup InRole(c) \cup ArtifactAnchors(c)
    BY DEF NoteFacts
  <2>2. PICK a \in Anchored(c) \cup InRole(c) \cup ArtifactAnchors(c) : k = a[1]
    BY <2>1 DEF ParticipantKeys, KeysOf
  <2>3. k.namespace # "artifact-sha256"
    BY DEF ParticipantKeys
  <2>4. a \notin ArtifactAnchors(c)
    <3>1. ASSUME NEW i \in ArtifactsOf(c), a = <<Key("artifact-sha256", None, i), "artifacts">> PROVE FALSE
      BY <2>2, <2>3, <3>1 DEF Key
    <3> QED BY <3>1 DEF ArtifactAnchors
  <2>5. CASE a \in Anchored(c)
    <3>1. PICK raw \in c.content.identities : ParseAnchor(raw, scope).ok /\ k = ParseAnchor(raw, scope).value
      BY <2>2, <2>5 DEF Anchored
    <3> QED BY <1>1, <3>1, ParsedIsKey
  <2>6. CASE a \in InRole(c)
    <3>1. PICK r \in c.content.roles : NormalizeChannelValue(r[2]).ok /\ k = NormalizeChannelValue(r[2]).value
      BY <2>2, <2>6 DEF InRole
    <3> QED BY <1>1, <3>1, ChannelIsKey
  <2> QED BY <2>2, <2>4, <2>5, <2>6
<1>5. ParticipantKeys(NoteFacts(c)) \in SUBSET Keys /\ ParticipantKeys(NoteFacts(c)) \in SUBSET (anchors \cup roles)
  BY <1>4
<1> QED BY <1>3, <1>5, FS_Subset

-----------------------------------------------------------------------------
(* The forest: what a fold over the joins computes *)

Anchors(notes) == UNION {ParticipantKeys(n) : n \in notes}

\* Notes as they are read: finitely many, with numbered IDs and finitely many keys each.
AreNotes(notes) ==
  /\ IsFiniteSet(notes)
  /\ \A n \in notes : /\ n.id \in Nat
                      /\ ParticipantKeys(n) \in SUBSET Keys /\ IsFiniteSet(ParticipantKeys(n))

LEMMA AnchorsAreKeys ==
  ASSUME NEW notes, AreNotes(notes)
  PROVE  Anchors(notes) \in SUBSET Keys /\ IsFiniteSet(Anchors(notes))
<1>1. Anchors(notes) \in SUBSET Keys
  BY DEF Anchors, AreNotes
<1>2. IsFiniteSet({ParticipantKeys(n) : n \in notes})
  <2> DEFINE f == [n \in notes |-> ParticipantKeys(n)]
  <2>1. IsFiniteSet({f[n] : n \in notes})
    BY ImageIsFinite DEF AreNotes
  <2>2. {f[n] : n \in notes} = {ParticipantKeys(n) : n \in notes}
    OBVIOUS
  <2> QED BY <2>1, <2>2
<1>3. \A T \in {ParticipantKeys(n) : n \in notes} : IsFiniteSet(T)
  BY DEF AreNotes
<1>4. IsFiniteSet(UNION {ParticipantKeys(n) : n \in notes})
  BY <1>2, <1>3, FS_UNION
<1> QED BY <1>1, <1>4 DEF Anchors

\* A join is of two neighbours of one kind on a contact record.
JoinOf(j, n) ==
  /\ n.coIdentity /\ {j.left, j.right} \subseteq ParticipantKeys(n) /\ KindOf(j.left) = KindOf(j.right)
  /\ j.evidence = n.id

LEMMA WhatJoinsAre ==
  ASSUME NEW notes
  PROVE  /\ \A j \in Joins(notes) :
              /\ \E n \in notes : JoinOf(j, n)
              /\ j = [left |-> j.left, right |-> j.right, evidence |-> j.evidence]
         /\ \A n \in notes : \A kind, k, l :
              n.coIdentity /\ <<k, l>> \in Neighbours(OfKind(n, kind)) =>
                \E j \in Joins(notes) : j.left = k /\ j.right = l
<1>1. ASSUME NEW j \in Joins(notes)
      PROVE  /\ \E n \in notes : JoinOf(j, n)
             /\ j = [left |-> j.left, right |-> j.right, evidence |-> j.evidence]
  <2> DEFINE Of(n) == {[left |-> p[1], right |-> p[2], evidence |-> n.id] :
                         p \in UNION {Neighbours(OfKind(n, kind)) : kind \in KindsOf(n)}}
  <2>1. PICK n \in notes : n.coIdentity /\ j \in Of(n)
    <3>1. Joins(notes) = UNION {Of(n) : n \in {n \in notes : n.coIdentity}}
      BY DEF Joins
    <3> HIDE DEF Of
    <3> QED BY <3>1
  <2>2. PICK kind, p : /\ kind \in KindsOf(n) /\ p \in Neighbours(OfKind(n, kind))
                       /\ j = [left |-> p[1], right |-> p[2], evidence |-> n.id]
    BY <2>1
  <2>3. p[1] \in OfKind(n, kind) /\ p[2] \in OfKind(n, kind)
    BY <2>2 DEF Neighbours
  <2>4. JoinOf(j, n)
    BY <2>1, <2>2, <2>3 DEF JoinOf, OfKind
  <2> QED BY <2>2, <2>4
<1>2. ASSUME NEW n \in notes, NEW kind, NEW k, NEW l, n.coIdentity, <<k, l>> \in Neighbours(OfKind(n, kind))
      PROVE  \E j \in Joins(notes) : j.left = k /\ j.right = l
  <2>1. k \in OfKind(n, kind)
    BY <1>2 DEF Neighbours
  <2>2. kind \in KindsOf(n)
    BY <2>1 DEF OfKind, KindsOf
  <2>3. PICK p : p = <<k, l>> /\ p \in UNION {Neighbours(OfKind(n, x)) : x \in KindsOf(n)}
    BY <1>2, <2>2
  <2>4. PICK j : j = [left |-> p[1], right |-> p[2], evidence |-> n.id]
    OBVIOUS
  <2>5. j \in Joins(notes)
    <3>1. j \in {[left |-> x[1], right |-> x[2], evidence |-> n.id] :
                   x \in UNION {Neighbours(OfKind(n, y)) : y \in KindsOf(n)}}
      BY <2>3, <2>4
    <3> QED BY <1>2, <3>1 DEF Joins
  <2> QED BY <2>3, <2>4, <2>5
<1> QED BY <1>1, <1>2

LEMMA JoinsAreFinite ==
  ASSUME NEW notes, AreNotes(notes)
  PROVE  /\ IsFiniteSet(Joins(notes))
         /\ \A j \in Joins(notes) : j.left \in Anchors(notes) /\ j.right \in Anchors(notes)
<1> DEFINE A == Anchors(notes)
           ids == [n \in notes |-> n.id]
           I == {ids[n] : n \in notes}
           Triples == (A \X A) \X I
           f == [t \in Triples |-> [left |-> t[1][1], right |-> t[1][2], evidence |-> t[2]]]
           Image == {f[t] : t \in Triples}
<1>1. \A j \in Joins(notes) :
        /\ j.left \in A /\ j.right \in A /\ j.evidence \in I
        /\ j = [left |-> j.left, right |-> j.right, evidence |-> j.evidence]
  BY WhatJoinsAre DEF JoinOf, Anchors
<1>2. IsFiniteSet(A) /\ IsFiniteSet(I)
  BY AnchorsAreKeys, ImageIsFinite DEF AreNotes
<1>3. IsFiniteSet(A \X A)
  BY <1>2, FS_Product
<1>4. IsFiniteSet(Triples)
  BY <1>2, <1>3, FS_Product
<1>5. IsFiniteSet(Image)
  <2> HIDE DEF Triples
  <2> QED BY <1>4, ImageIsFinite
<1>6. ASSUME NEW j \in Joins(notes) PROVE j \in Image
  <2>1. PICK t : t = <<<<j.left, j.right>>, j.evidence>>
    OBVIOUS
  <2>2. t \in Triples /\ f[t] = j
    <3> HIDE DEF A, I
    <3> QED BY <1>1, <2>1
  <2> QED BY <2>2
<1>7. Joins(notes) \in SUBSET Image
  BY <1>6
<1>8. IsFiniteSet(Joins(notes))
  <2> HIDE DEF Image
  <2> QED BY <1>5, <1>7, FS_Subset
<1> QED BY <1>1, <1>8

\* One step of the fold, after which the set holds a join more.
OneOf(s) == CHOOSE j \in s : TRUE
Grown(f, s, base) == IF s = {} THEN base ELSE Union(f[s \ {OneOf(s)}], OneOf(s))

LEMMA FoldExists ==
  ASSUME NEW S, IsFiniteSet(S), NEW base
  PROVE  \E f : f = [s \in SUBSET S |-> Grown(f, s, base)]
<1> DEFINE Upto(n) == {s \in SUBSET S : Cardinality(s) <= n}
           Good(n) == \E f : f = [s \in Upto(n) |-> Grown(f, s, base)]
           bad == {n \in Nat : ~Good(n)}
<1>1. \A s \in SUBSET S : IsFiniteSet(s) /\ Cardinality(s) \in Nat /\ Cardinality(s) <= Cardinality(S)
  BY FS_Subset, FS_CardinalityType
<1>2. ASSUME NEW s \in SUBSET S, s # {}
      PROVE  s \ {OneOf(s)} \in SUBSET S /\ Cardinality(s \ {OneOf(s)}) = Cardinality(s) - 1
  <2>1. OneOf(s) \in s
    BY <1>2 DEF OneOf
  <2> QED BY <1>1, <2>1, FS_RemoveElement
<1>3. Good(0)
  <2>1. PICK f : f = [s \in Upto(0) |-> base]
    OBVIOUS
  <2>2. \A s \in Upto(0) : s = {}
    BY <1>1, FS_EmptySet
  <2>3. \A s \in Upto(0) : Grown(f, s, base) = base
    BY <2>2 DEF Grown
  <2>4. f = [s \in Upto(0) |-> Grown(f, s, base)]
    <3> HIDE DEF Upto
    <3> QED BY <2>1, <2>3
  <2> QED BY <2>4
<1>4. ASSUME NEW n \in Nat, Good(n) PROVE Good(n + 1)
  <2>1. PICK f : f = [s \in Upto(n) |-> Grown(f, s, base)]
    BY <1>4
  <2>2. PICK g : g = [s \in Upto(n + 1) |-> Grown(f, s, base)]
    OBVIOUS
  <2>3. \A s \in Upto(n) : s \in Upto(n + 1) /\ g[s] = f[s]
    <3>1. \A s \in Upto(n) : s \in Upto(n + 1)
      BY <1>1
    <3> HIDE DEF Upto
    <3> QED BY <2>1, <2>2, <3>1
  <2>4. ASSUME NEW s \in Upto(n + 1) PROVE Grown(f, s, base) = Grown(g, s, base)
    <3>1. s # {} => s \ {OneOf(s)} \in Upto(n)
      BY <1>1, <1>2
    <3> HIDE DEF Upto
    <3> QED BY <2>3, <3>1 DEF Grown
  <2>5. g = [s \in Upto(n + 1) |-> Grown(g, s, base)]
    <3> HIDE DEF Upto
    <3> QED BY <2>2, <2>4
  <2> QED BY <2>5
<1>5. bad = {}
  <2> HIDE DEF Good
  <2>1. SUFFICES ASSUME bad # {} PROVE FALSE
    OBVIOUS
  <2>2. PICK m \in bad : \A y \in bad : m <= y
    BY <2>1, NumbersHaveLeast
  <2>3. m # 0 => m - 1 \in Nat /\ m - 1 + 1 = m /\ m - 1 \notin bad
    BY <2>2
  <2> QED BY <1>3, <1>4, <2>2, <2>3
<1>6. Good(Cardinality(S))
  <2> HIDE DEF Good
  <2>1. Cardinality(S) \in Nat
    BY FS_CardinalityType
  <2> QED BY <1>5, <2>1
<1>7. Upto(Cardinality(S)) = SUBSET S
  BY <1>1
<1> HIDE DEF Upto
<1> QED BY <1>6, <1>7

LEMMA RootsAreFolded ==
  ASSUME NEW notes, AreNotes(notes)
  PROVE  \E f : /\ f = [s \in SUBSET Joins(notes) |-> Grown(f, s, Singletons(Anchors(notes)))]
                /\ Roots(notes) = f[Joins(notes)]
<1> DEFINE base == Singletons(Anchors(notes))
           iter == CHOOSE f : f = [s \in SUBSET Joins(notes) |-> Grown(f, s, base)]
<1>1. iter = [s \in SUBSET Joins(notes) |-> Grown(iter, s, base)]
  BY JoinsAreFinite, FoldExists
<1>2. Roots(notes) = iter[Joins(notes)]
  BY DEF Roots, FoldSet, MapThenFoldSet, Grown, OneOf, Anchors
<1> QED BY <1>1, <1>2

\* A forest over keys: it holds together what was joined, and nothing that a
\* set closed under the joins would tell apart.
Closed(X, joins) == \A j \in joins : j.left \in X <=> j.right \in X
IsForest(root, joins, keys) ==
  /\ root \in [keys -> keys]
  /\ \A j \in joins : root[j.left] = root[j.right]
  /\ \A X \in SUBSET keys : Closed(X, joins) => \A k, l \in keys : root[k] = root[l] => (k \in X <=> l \in X)

LEMMA UnionKeepsForest ==
  ASSUME NEW keys \in SUBSET Keys, NEW root, NEW joins, IsForest(root, joins, keys),
         \A i \in joins : i.left \in keys /\ i.right \in keys,
         NEW j, j.left \in keys, j.right \in keys
  PROVE  IsForest(Union(root, j), joins \cup {j}, keys)
<1> DEFINE a == root[j.left]
           b == root[j.right]
<1>1. PICK low : low = LeastKey({a, b})
  OBVIOUS
<1>2. PICK new : new = Union(root, j)
  OBVIOUS
<1>3. root \in [keys -> keys] /\ a \in keys /\ b \in keys
  BY DEF IsForest
<1>4. low \in {a, b}
  <2>1. {a, b} \in SUBSET Keys /\ {a, b} # {} /\ IsFiniteSet({a, b})
    <3>1. IsFiniteSet({a} \cup {b})
      BY FS_Singleton, FS_Union
    <3>2. {a, b} = {a} \cup {b}
      OBVIOUS
    <3> QED BY <1>3, <3>1, <3>2
  <2> QED BY <1>1, <2>1, LeastKeyIs
<1>5. new = [k \in keys |-> IF root[k] \in {a, b} THEN low ELSE root[k]]
  BY <1>1, <1>2, <1>3 DEF Union
<1>6. new \in [keys -> keys]
  BY <1>3, <1>4, <1>5
<1>7. ASSUME NEW i \in joins \cup {j} PROVE new[i.left] = new[i.right]
  <2>1. CASE i = j
    BY <1>5, <2>1
  <2>2. CASE i \in joins
    BY <1>5, <2>2 DEF IsForest
  <2> QED BY <2>1, <2>2
<1>8. ASSUME NEW X \in SUBSET keys, Closed(X, joins \cup {j}), NEW k \in keys, NEW l \in keys, new[k] = new[l]
      PROVE  k \in X <=> l \in X
  <2>1. Closed(X, joins) /\ (j.left \in X <=> j.right \in X)
    BY <1>8 DEF Closed
  <2>2. \A m, n \in keys : root[m] = root[n] => (m \in X <=> n \in X)
    BY <2>1 DEF IsForest
  <2>3. CASE root[k] \in {a, b} /\ root[l] \in {a, b}
    BY <2>1, <2>2, <2>3
  <2>4. CASE ~(root[k] \in {a, b} /\ root[l] \in {a, b})
    <3>1. root[k] = root[l]
      BY <1>4, <1>5, <1>8, <2>4
    <3> QED BY <2>2, <3>1
  <2> QED BY <2>3, <2>4
<1> QED BY <1>2, <1>6, <1>7, <1>8 DEF IsForest

LEMMA RootsAreForest ==
  ASSUME NEW notes, AreNotes(notes)
  PROVE  IsForest(Roots(notes), Joins(notes), Anchors(notes))
<1> DEFINE keys == Anchors(notes)
           joins == Joins(notes)
<1>1. keys \in SUBSET Keys /\ IsFiniteSet(joins) /\ \A i \in joins : i.left \in keys /\ i.right \in keys
  BY AnchorsAreKeys, JoinsAreFinite
<1>2. PICK f : /\ f = [s \in SUBSET joins |-> Grown(f, s, Singletons(keys))]
               /\ Roots(notes) = f[joins]
  BY RootsAreFolded
<1>3. \A s \in SUBSET joins : f[s] = Grown(f, s, Singletons(keys))
  BY <1>2
<1>4. \A s \in SUBSET joins : IsFiniteSet(s) /\ Cardinality(s) \in Nat
  BY <1>1, FS_Subset, FS_CardinalityType
<1> DEFINE bad == {n \in Nat : \E s \in SUBSET joins : Cardinality(s) = n /\ ~IsForest(f[s], s, keys)}
<1>5. bad = {}
  <2>1. SUFFICES ASSUME bad # {} PROVE FALSE
    OBVIOUS
  <2>2. PICK m \in bad : \A n \in bad : m <= n
    BY <2>1, NumbersHaveLeast
  <2>3. PICK s \in SUBSET joins : Cardinality(s) = m /\ ~IsForest(f[s], s, keys)
    BY <2>2
  <2>4. CASE s = {}
    <3>1. f[s] = [k \in keys |-> k]
      BY <1>3, <2>4 DEF Grown, Singletons
    <3>2. f[s] \in [keys -> keys] /\ \A k \in keys : f[s][k] = k
      BY <3>1
    <3> QED BY <2>3, <2>4, <3>2 DEF IsForest
  <2>5. CASE s # {}
    <3>1. PICK j : j = OneOf(s) /\ j \in s
      BY <2>5 DEF OneOf
    <3>2. s \ {j} \in SUBSET joins /\ Cardinality(s \ {j}) = m - 1 /\ m - 1 \in Nat
      <4>1. IsFiniteSet(s) /\ IsFiniteSet(s \ {j}) /\ Cardinality(s \ {j}) = Cardinality(s) - 1
        BY <1>4, <3>1, FS_RemoveElement
      <4>2. Cardinality(s \ {j}) \in Nat
        BY <4>1, FS_CardinalityType
      <4> QED BY <2>3, <4>1, <4>2
    <3>3. IsForest(f[s \ {j}], s \ {j}, keys)
      BY <2>2, <3>2
    <3>4. f[s] = Union(f[s \ {j}], j)
      BY <1>3, <2>5, <3>1 DEF Grown
    <3>5. IsForest(Union(f[s \ {j}], j), (s \ {j}) \cup {j}, keys)
      BY <1>1, <3>1, <3>2, <3>3, UnionKeepsForest
    <3>6. (s \ {j}) \cup {j} = s
      BY <3>1
    <3> QED BY <2>3, <3>4, <3>5, <3>6
  <2> QED BY <2>4, <2>5
<1>6. IsForest(f[joins], joins, keys)
  BY <1>4, <1>5
<1> QED BY <1>2, <1>6

\* The neighbours of a group lead from any key of it to any other.
LEMMA ContactsShareARoot ==
  ASSUME NEW notes, AreNotes(notes), NEW n \in notes, n.coIdentity,
         NEW k \in ParticipantKeys(n), NEW l \in ParticipantKeys(n), KindOf(k) = KindOf(l)
  PROVE  Roots(notes)[k] = Roots(notes)[l]
<1> DEFINE group == OfKind(n, KindOf(k))
<1>1. PICK root : root = Roots(notes)
  OBVIOUS
<1>2. group \in SUBSET Keys /\ IsFiniteSet(group) /\ k \in group /\ l \in group
  <2>1. group \in SUBSET ParticipantKeys(n)
    BY DEF OfKind
  <2> QED BY <2>1, FS_Subset DEF AreNotes, OfKind
<1>3. ASSUME NEW x, NEW y, <<x, y>> \in Neighbours(group) PROVE root[x] = root[y]
  <2>1. PICK j \in Joins(notes) : j.left = x /\ j.right = y
    BY <1>3, WhatJoinsAre
  <2> QED BY <1>1, <2>1, RootsAreForest DEF IsForest
<1> HIDE DEF group
<1>4. PICK first \in group : \A m \in group : m = first \/ KeyLess(first, m)
  <2>1. group # {}
    BY <1>2
  <2> QED BY <1>2, <2>1, LeastKeyIs
<1>5. \A m \in group : root[m] = root[first]
  <2> DEFINE apart == {m \in group : root[m] # root[first]}
  <2>1. SUFFICES ASSUME apart # {} PROVE FALSE
    OBVIOUS
  <2>2. apart \in SUBSET Keys /\ IsFiniteSet(apart)
    BY <1>2, FS_Subset
  <2>3. PICK m \in apart : \A x \in apart : x = m \/ KeyLess(m, x)
    BY <2>1, <2>2, LeastKeyIs
  <2> DEFINE before == {x \in group : KeyLess(x, m)}
  <2>4. first \in before /\ before \in SUBSET Keys /\ IsFiniteSet(before) /\ m \in Keys
    BY <1>2, <1>4, <2>3, FS_Subset
  <2>5. PICK x \in before : \A y \in before : y = x \/ KeyLess(y, x)
    <3>1. before # {}
      BY <2>4
    <3> QED BY <2>4, <3>1, HasGreatestKey
  <2>6. x \in group /\ m \in group /\ KeyLess(x, m) /\ x \in Keys
    BY <1>2, <2>3, <2>5
  <2>7. ASSUME NEW y \in group, KeyLess(x, y), KeyLess(y, m) PROVE FALSE
    <3>1. y \in before /\ y \in Keys
      BY <1>2, <2>7
    <3> QED BY <2>5, <2>6, <2>7, <3>1, KeyOrder
  <2>8. <<x, m>> \in Neighbours(group)
    BY <2>6, <2>7 DEF Neighbours
  <2>9. root[x] = root[m]
    BY <1>3, <2>8
  <2>10. x \notin apart
    BY <2>3, <2>4, <2>6, KeyOrder
  <2> QED BY <2>3, <2>6, <2>9, <2>10
<1> QED BY <1>1, <1>2, <1>5

-----------------------------------------------------------------------------
(* The components: a partition of the keys, and the finest that will do *)

LEMMA ComponentsAre ==
  ASSUME NEW notes, AreNotes(notes)
  PROVE  /\ \A C \in Components(notes) :
              /\ C # {} /\ C \in SUBSET Anchors(notes) /\ C \in SUBSET Keys /\ IsFiniteSet(C)
              /\ \A k \in C, l \in Anchors(notes) : Roots(notes)[k] = Roots(notes)[l] <=> l \in C
         /\ \A k \in Anchors(notes) : \E C \in Components(notes) : k \in C
<1> DEFINE keys == Anchors(notes)
           Class(root, r) == {k \in DOMAIN root : root[k] = r}
<1>1. PICK root : root = Roots(notes)
  OBVIOUS
<1>2. root \in [keys -> keys]
  BY <1>1, RootsAreForest DEF IsForest
<1>3. Components(notes) = {Class(root, r) : r \in {root[k] : k \in DOMAIN root}}
  BY <1>1 DEF Components
<1>4. keys \in SUBSET Keys /\ IsFiniteSet(keys)
  BY AnchorsAreKeys
<1> HIDE DEF keys
<1>5. ASSUME NEW C \in Components(notes)
      PROVE  /\ C # {} /\ C \in SUBSET keys /\ \A k \in C, l \in keys : root[k] = root[l] <=> l \in C
  <2>1. PICK m \in keys : C = {k \in keys : root[k] = root[m]}
    BY <1>2, <1>3
  <2> QED BY <2>1
<1>6. ASSUME NEW k \in keys PROVE \E C \in Components(notes) : k \in C
  <2>1. Class(root, root[k]) \in Components(notes)
    BY <1>2, <1>3
  <2>2. k \in Class(root, root[k])
    BY <1>2
  <2> QED BY <2>1, <2>2
<1>7. \A C \in Components(notes) : C \in SUBSET Keys /\ IsFiniteSet(C)
  BY <1>4, <1>5, FS_Subset
<1> QED BY <1>1, <1>5, <1>6, <1>7 DEF keys

\* Components are told apart by any key of theirs.
LEMMA ComponentsAreDisjoint ==
  ASSUME NEW notes, AreNotes(notes), NEW C \in Components(notes), NEW D \in Components(notes), NEW k \in C, k \in D
  PROVE  C = D
<1>1. C \in SUBSET Anchors(notes) /\ \A l \in Anchors(notes) : Roots(notes)[k] = Roots(notes)[l] <=> l \in C
  BY ComponentsAre
<1>2. D \in SUBSET Anchors(notes) /\ \A l \in Anchors(notes) : Roots(notes)[k] = Roots(notes)[l] <=> l \in D
  BY ComponentsAre
<1> QED BY <1>1, <1>2

LEMMA ComponentsAreFinite ==
  ASSUME NEW notes, AreNotes(notes)
  PROVE  IsFiniteSet(Components(notes))
<1> DEFINE keys == Anchors(notes)
<1>0. PICK f : f = [k \in keys |-> CHOOSE C \in Components(notes) : k \in C]
  OBVIOUS
<1>1. IsFiniteSet({f[k] : k \in keys})
  <2>1. DOMAIN f = keys /\ IsFiniteSet(keys)
    BY <1>0, AnchorsAreKeys
  <2> QED BY <2>1, ImageIsFinite
<1>2. ASSUME NEW C \in Components(notes) PROVE C \in {f[k] : k \in keys}
  <2>1. PICK k \in keys : k \in C
    BY ComponentsAre
  <2>2. f[k] \in Components(notes) /\ k \in f[k]
    BY <1>0, <2>1
  <2>3. f[k] = C
    BY <2>1, <2>2, ComponentsAreDisjoint
  <2> QED BY <2>3
<1>3. Components(notes) \in SUBSET {f[k] : k \in keys}
  BY <1>2
<1> QED BY <1>1, <1>3, FS_Subset

\* What a contact record shares out: two keys of one kind.
Shares(n, k, l) == {k, l} \subseteq ParticipantKeys(n) /\ KindOf(k) = KindOf(l)

LEMMA ContactsAreKeptTogether ==
  ASSUME NEW notes, AreNotes(notes), NEW n \in notes, n.coIdentity, NEW k, NEW l, Shares(n, k, l)
  PROVE  \E C \in Components(notes) : {k, l} \subseteq C
<1>1. k \in Anchors(notes) /\ l \in Anchors(notes)
  BY DEF Shares, Anchors
<1>2. Roots(notes)[k] = Roots(notes)[l]
  BY ContactsShareARoot DEF Shares
<1>3. PICK C \in Components(notes) : k \in C
  BY <1>1, ComponentsAre
<1> QED BY <1>1, <1>2, <1>3, ComponentsAre

LEMMA NothingElseIsJoined ==
  ASSUME NEW notes, AreNotes(notes), NEW C \in Components(notes), NEW part \in SUBSET C, part # {}, part # C
  PROVE  \E n \in notes, k \in part, l \in C \ part : n.coIdentity /\ Shares(n, k, l)
<1>1. PICK root : root = Roots(notes)
  OBVIOUS
<1>2. IsForest(root, Joins(notes), Anchors(notes))
  BY <1>1, RootsAreForest
<1>3. PICK k, l : k \in part /\ l \in C \ part
  OBVIOUS
<1>4. C \in SUBSET Anchors(notes) /\ k \in Anchors(notes) /\ l \in Anchors(notes) /\ root[k] = root[l]
  BY <1>1, <1>3, ComponentsAre
<1>5. ~Closed(part, Joins(notes))
  <2>1. part \in SUBSET Anchors(notes)
    BY <1>4
  <2> QED BY <1>2, <1>3, <1>4, <2>1 DEF IsForest
<1>6. PICK j \in Joins(notes) : ~(j.left \in part <=> j.right \in part)
  BY <1>5 DEF Closed
<1>7. root[j.left] = root[j.right] /\ j.left \in Anchors(notes) /\ j.right \in Anchors(notes)
  BY <1>2, JoinsAreFinite DEF IsForest
<1>8. j.left \in C /\ j.right \in C
  BY <1>1, <1>6, <1>7, ComponentsAre
<1>9. PICK n \in notes : JoinOf(j, n)
  BY WhatJoinsAre
<1>10. CASE j.left \in part
  <2>1. j.left \in part /\ j.right \in C \ part /\ Shares(n, j.left, j.right)
    BY <1>6, <1>8, <1>9, <1>10 DEF JoinOf, Shares
  <2> QED BY <1>9, <2>1 DEF JoinOf
<1>11. CASE j.right \in part
  <2>1. j.right \in part /\ j.left \in C \ part /\ Shares(n, j.right, j.left)
    BY <1>6, <1>8, <1>9, <1>11 DEF JoinOf, Shares
  <2> QED BY <1>9, <2>1 DEF JoinOf
<1> QED BY <1>6, <1>10, <1>11

LEMMA ComponentsAreOfAKind ==
  ASSUME NEW notes, AreNotes(notes), NEW C \in Components(notes), NEW k \in C, NEW l \in C
  PROVE  KindOf(k) = KindOf(l)
<1> DEFINE part == {m \in C : KindOf(m) = KindOf(k)}
<1>1. SUFFICES ASSUME part # C PROVE FALSE
  OBVIOUS
<1>2. part \in SUBSET C /\ part # {}
  OBVIOUS
<1>3. PICK n \in notes, x \in part, y \in C \ part : Shares(n, x, y)
  <2> HIDE DEF part
  <2> QED BY <1>1, <1>2, NothingElseIsJoined
<1> QED BY <1>3 DEF Shares

-----------------------------------------------------------------------------
(* IDs *)

\* The n-th number that is not taken is there, and there is but one.
LEMMA FreshIs ==
  ASSUME NEW taken, IsFiniteSet(taken), NEW n \in Nat \ {0}
  PROVE  Fresh(n, taken) \notin taken /\ Cardinality({j \in 1 .. Fresh(n, taken) : j \notin taken}) = n
<1> DEFINE Free(i) == (1 .. i) \ taken
<1>1. PICK m \in Nat : m = Cardinality(taken)
  BY FS_CardinalityType
<1>2. \A i \in Nat : IsFiniteSet(1 .. i) /\ Cardinality(1 .. i) = i
  <2>1. SUFFICES ASSUME NEW i \in Nat PROVE IsFiniteSet(1 .. i) /\ Cardinality(1 .. i) = i
    OBVIOUS
  <2>2. 1 \in Int /\ i \in Int
    OBVIOUS
  <2>3. IsFiniteSet(1 .. i) /\ Cardinality(1 .. i) = IF 1 > i THEN 0 ELSE i - 1 + 1
    BY ONLY <2>2, FS_Interval
  <2> QED BY <2>3
<1>3. \A i \in Nat : IsFiniteSet(Free(i)) /\ Cardinality(Free(i)) \in Nat
  BY <1>2, FS_Difference, FS_CardinalityType
<1>4. Cardinality(Free(m + n)) >= n
  <2>1. PICK S : S = 1 .. (m + n)
    OBVIOUS
  <2>2. IsFiniteSet(S) /\ Cardinality(S) = m + n
    BY <1>1, <1>2, <2>1
  <2>3. Cardinality(S \ taken) = Cardinality(S) - Cardinality(S \cap taken)
    BY <2>2, FS_Difference
  <2>4. Cardinality(S \cap taken) <= m /\ Cardinality(S \cap taken) \in Nat
    BY <1>1, FS_Intersection, FS_CardinalityType
  <2> QED BY <1>1, <2>1, <2>2, <2>3, <2>4
<1> DEFINE enough == {i \in Nat : Cardinality(Free(i)) >= n}
<1>5. PICK i \in enough : \A j \in enough : i <= j
  <2>1. m + n \in enough
    BY <1>1, <1>4
  <2> QED BY <2>1, NumbersHaveLeast
<1>6. i <= m + n /\ i \in Nat /\ Cardinality(Free(i)) >= n
  BY <1>1, <1>4, <1>5
<1>7. i # 0
  <2>1. Free(0) = {}
    OBVIOUS
  <2> QED BY <1>6, <2>1, FS_EmptySet
<1>8. i - 1 \in Nat /\ Cardinality(Free(i - 1)) < n
  <2>1. i - 1 \in Nat /\ i - 1 \notin enough
    BY <1>5, <1>6, <1>7
  <2>2. Cardinality(Free(i - 1)) \in Nat
    BY <1>3, <2>1
  <2> HIDE DEF Free
  <2> QED BY <2>1, <2>2
<1>9. i \notin taken /\ Cardinality(Free(i)) = n
  <2>1. Free(i) = IF i \in taken THEN Free(i - 1) ELSE Free(i - 1) \cup {i}
    <3>1. 1 .. i = (1 .. (i - 1)) \cup {i}
      BY <1>6, <1>7
    <3> QED BY <3>1
  <2>2. i \notin Free(i - 1)
    BY <1>8
  <2>3. Cardinality(Free(i - 1) \cup {i}) = Cardinality(Free(i - 1)) + 1
    BY <1>3, <1>8, <2>2, FS_AddElement
  <2> HIDE DEF Free
  <2> QED BY <1>3, <1>6, <1>8, <2>1, <2>3
<1>10. \A x : Free(x) = {j \in 1 .. x : j \notin taken}
  OBVIOUS
<1>11. i \in 1 .. (Cardinality(taken) + n) /\ i \notin taken /\ Cardinality({j \in 1 .. i : j \notin taken}) = n
  BY <1>1, <1>6, <1>7, <1>9, <1>10
<1> HIDE DEF Free
<1> QED BY <1>11 DEF Fresh

\* What a derivation reads of the records before it.
PriorsStand ==
  /\ IsFiniteSet(PriorEntities)
  /\ \A p, q \in PriorEntities : p.id = q.id => p = q
  /\ \A p \in PriorEntities : \A k \in p.identities : KindOf(k) = p.kind

KindOfSet(C) == KindOf(LeastKey(C))

LEMMA ReuseIsExact ==
  ASSUME NEW notes, AreNotes(notes), NEW C \in Components(notes), MayReuse(C, KindOfSet(C), Components(notes))
  PROVE  \E p \in PriorEntities :
           /\ Claimants(C, KindOfSet(C)) = {p} /\ Matches(p, C)
           /\ \A D \in Components(notes) : Matches(p, D) => D = C
           /\ (CHOOSE q \in Claimants(C, KindOfSet(C)) : TRUE) = p
<1>1. PICK p \in PriorEntities : Claimants(C, KindOfSet(C)) = {p} /\ PriorMatches(p, Components(notes)) = 1
  BY DEF MayReuse
<1>2. Matches(p, C)
  BY <1>1 DEF Claimants
<1> DEFINE matched == {c \in Components(notes) : Matches(p, c)}
<1>3. IsFiniteSet(matched) /\ Cardinality(matched) = 1
  <2>1. matched \in SUBSET Components(notes)
    OBVIOUS
  <2> QED BY <1>1, <2>1, ComponentsAreFinite, FS_Subset DEF PriorMatches
<1>4. PICK x : matched = {x}
  BY <1>3, FS_Singleton
<1>5. \A D \in Components(notes) : Matches(p, D) => D = C
  BY <1>2, <1>4
<1>6. (CHOOSE q \in Claimants(C, KindOfSet(C)) : TRUE) = p
  BY <1>1
<1> QED BY <1>1, <1>2, <1>5, <1>6

\* The order in which the components get their IDs.
LEMMA PlacesAreApart ==
  ASSUME NEW notes, AreNotes(notes), NEW M \in SUBSET Components(notes), NEW C \in M, NEW D \in M, C # D
  PROVE  LET place(c) == Cardinality({d \in M : ~KeyLess(LeastKey(c), LeastKey(d))})
         IN  place(C) \in Nat \ {0} /\ place(C) # place(D)
<1> DEFINE Upto(c) == {d \in M : ~KeyLess(LeastKey(c), LeastKey(d))}
<1>1. \A c \in M : LeastKey(c) \in c /\ LeastKey(c) \in Keys
  BY ComponentsAre, LeastKeyIs
<1>2. \A c, d \in M : LeastKey(c) = LeastKey(d) => c = d
  BY <1>1, ComponentsAreDisjoint
<1>3. ASSUME NEW c \in M
      PROVE  /\ Upto(c) \in SUBSET M /\ c \in Upto(c)
             /\ IsFiniteSet(Upto(c)) /\ Cardinality(Upto(c)) \in Nat \ {0}
  <2>1. Upto(c) \in SUBSET M /\ c \in Upto(c)
    BY <1>1, KeyOrder
  <2>2. IsFiniteSet(Upto(c))
    BY <2>1, ComponentsAreFinite, FS_Subset
  <2> HIDE DEF Upto
  <2>3. Cardinality(Upto(c)) \in Nat /\ Cardinality(Upto(c)) # 0
    BY <2>1, <2>2, FS_CardinalityType, FS_EmptySet
  <2> QED BY <2>1, <2>2, <2>3
<1>4. ASSUME NEW c \in M, NEW d \in M, KeyLess(LeastKey(c), LeastKey(d))
      PROVE  Cardinality(Upto(c)) # Cardinality(Upto(d))
  <2>1. d \in Upto(d) /\ d \notin Upto(c)
    BY <1>3, <1>4
  <2>2. Upto(c) \in SUBSET Upto(d)
    <3>1. SUFFICES ASSUME NEW x \in Upto(c), KeyLess(LeastKey(d), LeastKey(x)) PROVE FALSE
      OBVIOUS
    <3> QED BY <1>1, <1>4, <3>1, KeyOrder
  <2>3. IsFiniteSet(Upto(d))
    BY <1>3
  <2> HIDE DEF Upto
  <2> QED BY <2>1, <2>2, <2>3, FS_Subset
<1>5. KeyLess(LeastKey(C), LeastKey(D)) \/ KeyLess(LeastKey(D), LeastKey(C))
  BY <1>1, <1>2, KeyOrder
<1>6. Cardinality(Upto(C)) # Cardinality(Upto(D))
  BY <1>4, <1>5
<1> QED BY <1>3, <1>6

\* An ID comes from the one record that bears it, or from none.
LEMMA IdsOfComponents ==
  ASSUME NEW notes, AreNotes(notes), PriorsStand, NEW C \in Components(notes)
  PROVE  /\ MayReuse(C, KindOfSet(C), Components(notes)) =>
              EntityIds(Components(notes))[C] = (CHOOSE q \in Claimants(C, KindOfSet(C)) : TRUE).id
         /\ ~MayReuse(C, KindOfSet(C), Components(notes)) =>
              /\ \A p \in PriorEntities : p.id # EntityIds(Components(notes))[C]
              /\ \A D \in Components(notes) :
                   ~MayReuse(D, KindOfSet(D), Components(notes)) /\ D # C =>
                      EntityIds(Components(notes))[C] # EntityIds(Components(notes))[D]
<1> DEFINE components == Components(notes)
           taken == {p.id : p \in PriorEntities}
           minting == {c \in components : ~MayReuse(c, KindOfSet(c), components)}
           place(c) == Cardinality({d \in minting : ~KeyLess(LeastKey(c), LeastKey(d))})
<1>1. EntityIds(components) =
        [c \in components |-> IF c \in minting THEN Fresh(place(c), taken)
                              ELSE (CHOOSE p \in Claimants(c, KindOfSet(c)) : TRUE).id]
  BY DEF EntityIds, KindOfSet
<1>2. IsFiniteSet(taken)
  <2>0. PICK f : f = [p \in PriorEntities |-> p.id]
    OBVIOUS
  <2>1. IsFiniteSet(PriorEntities) /\ DOMAIN f = PriorEntities
    BY <2>0 DEF PriorsStand
  <2>2. IsFiniteSet({f[p] : p \in PriorEntities})
    BY <2>1, ImageIsFinite
  <2>3. {f[p] : p \in PriorEntities} = taken
    BY <2>0
  <2> QED BY <2>2, <2>3
<1>3. minting \in SUBSET components
  OBVIOUS
<1>4. ASSUME NEW c \in minting PROVE place(c) \in Nat \ {0}
  <2>1. {d \in minting : ~KeyLess(LeastKey(c), LeastKey(d))} \in SUBSET components
    OBVIOUS
  <2>2. IsFiniteSet({d \in minting : ~KeyLess(LeastKey(c), LeastKey(d))})
    BY <2>1, ComponentsAreFinite, FS_Subset
  <2>3. c \in {d \in minting : ~KeyLess(LeastKey(c), LeastKey(d))}
    BY KeyOrder, ComponentsAre, LeastKeyIs
  <2> HIDE DEF minting
  <2> QED BY <2>2, <2>3, FS_CardinalityType, FS_EmptySet
<1>5. ASSUME NEW c \in minting, NEW d \in minting, c # d PROVE place(c) # place(d)
  <2> HIDE DEF minting, components
  <2> QED BY <1>3, <1>5, PlacesAreApart DEF components
<1>6. ASSUME NEW c \in minting
      PROVE  /\ Fresh(place(c), taken) \notin taken
             /\ Cardinality({j \in 1 .. Fresh(place(c), taken) : j \notin taken}) = place(c)
  <2> HIDE DEF place, taken
  <2> QED BY <1>2, <1>4, <1>6, FreshIs
<1> HIDE DEF place
<1>7. ASSUME C \notin minting PROVE EntityIds(components)[C] = (CHOOSE q \in Claimants(C, KindOfSet(C)) : TRUE).id
  BY <1>1, <1>7
<1>8. \A c \in minting : EntityIds(components)[c] = Fresh(place(c), taken)
  BY <1>1
<1>9. ASSUME C \in minting
      PROVE  /\ \A p \in PriorEntities : p.id # EntityIds(components)[C]
             /\ \A D \in minting : D # C => EntityIds(components)[C] # EntityIds(components)[D]
  <2>1. \A p \in PriorEntities : p.id # EntityIds(components)[C]
    BY <1>6, <1>8, <1>9
  <2>2. ASSUME NEW D \in minting, D # C, EntityIds(components)[C] = EntityIds(components)[D] PROVE FALSE
    <3> HIDE DEF minting, taken
    <3>1. Fresh(place(C), taken) = Fresh(place(D), taken)
      BY <1>8, <1>9, <2>2
    <3>2. place(C) = place(D)
      BY <1>6, <1>9, <3>1
    <3> QED BY <1>5, <1>9, <2>2, <3>2
  <2> QED BY <2>1, <2>2
<1> QED BY <1>7, <1>9

LEMMA IdsAreApart ==
  ASSUME NEW notes, AreNotes(notes), PriorsStand, NEW C \in Components(notes), NEW D \in Components(notes),
         EntityIds(Components(notes))[C] = EntityIds(Components(notes))[D]
  PROVE  C = D
<1> DEFINE ids == EntityIds(Components(notes))
           Reuses(E) == MayReuse(E, KindOfSet(E), Components(notes))
<1>1. ASSUME NEW E \in Components(notes), Reuses(E)
      PROVE  \E p \in PriorEntities : /\ ids[E] = p.id
                                      /\ Matches(p, E)
                                      /\ \A F \in Components(notes) : Matches(p, F) => F = E
  BY <1>1, ReuseIsExact, IdsOfComponents
<1>2. ASSUME NEW E \in Components(notes), ~Reuses(E)
      PROVE  /\ \A p \in PriorEntities : p.id # ids[E]
             /\ \A F \in Components(notes) : ~Reuses(F) /\ F # E => ids[E] # ids[F]
  BY <1>2, IdsOfComponents
<1> HIDE DEF ids, Reuses
<1>3. ids[C] = ids[D]
  BY DEF ids
<1>4. CASE Reuses(C) /\ Reuses(D)
  <2>1. PICK p \in PriorEntities : ids[C] = p.id /\ Matches(p, C) /\ \A F \in Components(notes) : Matches(p, F) => F = C
    BY <1>1, <1>4
  <2>2. PICK q \in PriorEntities : ids[D] = q.id /\ Matches(q, D)
    BY <1>1, <1>4
  <2>3. p = q
    BY <1>3, <2>1, <2>2 DEF PriorsStand
  <2> QED BY <2>1, <2>2, <2>3
<1>5. CASE Reuses(C) <=> ~Reuses(D)
  BY <1>1, <1>2, <1>3, <1>5
<1>6. CASE ~Reuses(C) /\ ~Reuses(D)
  BY <1>2, <1>3, <1>6
<1> QED BY <1>4, <1>5, <1>6
-----------------------------------------------------------------------------
(* The input, and what becomes of every copy *)

LEMMA ImagesAreFinite ==
  ASSUME NEW S, IsFiniteSet(S), NEW T, NEW f, DOMAIN f = S, T \subseteq {f[x] : x \in S}
  PROVE  IsFiniteSet(T)
<1>1. IsFiniteSet({f[x] : x \in S})
  BY ImageIsFinite
<1> QED BY <1>1, FS_Subset

LEMMA OneCopyIsLeft ==
  ASSUME NEW input \in SUBSET Pool, IsFiniteSet(input)
  PROVE  /\ OneCopyEach(input) \in SUBSET input /\ IsFiniteSet(OneCopyEach(input))
         /\ \A c \in input : c.id \notin Divergent(input) => \E d \in OneCopyEach(input) : d.id = c.id
<1> DEFINE One(id) == CHOOSE c \in input : c.id = id
<1>1. OneCopyEach(input) = {One(id) : id \in {c.id : c \in input} \ Divergent(input)}
  BY DEF OneCopyEach
<1>2. ASSUME NEW c \in input PROVE One(c.id) \in input /\ One(c.id).id = c.id
  OBVIOUS
<1> HIDE DEF One
<1>3. OneCopyEach(input) \in SUBSET input
  BY <1>1, <1>2
<1>4. ASSUME NEW c \in input, c.id \notin Divergent(input) PROVE \E d \in OneCopyEach(input) : d.id = c.id
  <2>1. One(c.id) \in OneCopyEach(input)
    BY <1>1, <1>4
  <2> QED BY <1>2, <2>1
<1> QED BY <1>3, <1>4, FS_Subset

\* The notes a derivation is of.
NotesOf(input) == CurrentNotes(OneCopyEach(input))

LEMMA NotesAreRead ==
  ASSUME NEW input \in SUBSET Pool, IsFiniteSet(input)
  PROVE  AreNotes(NotesOf(input))
<1> DEFINE read == {c \in Current(OneCopyEach(input)) : Usable(c)}
<1>1. read \in SUBSET input
  BY OneCopyIsLeft DEF Current
<1>2. NotesOf(input) = {NoteFacts(c) : c \in read}
  BY DEF NotesOf, CurrentNotes
<1>3. IsFiniteSet(NotesOf(input))
  <2>1. PICK f : f = [c \in read |-> NoteFacts(c)]
    OBVIOUS
  <2>2. IsFiniteSet(read)
    BY <1>1, FS_Subset
  <2> HIDE DEF read
  <2>3. NotesOf(input) \subseteq {f[c] : c \in read} /\ DOMAIN f = read
    BY <1>2, <2>1
  <2> QED BY <2>2, <2>3, ImagesAreFinite
<1>4. ASSUME NEW c \in read
      PROVE  /\ NoteFacts(c).id \in Nat
             /\ ParticipantKeys(NoteFacts(c)) \in SUBSET Keys /\ IsFiniteSet(ParticipantKeys(NoteFacts(c)))
  <2>1. c \in Pool
    BY <1>1
  <2>2. NoteFacts(c).id = c.id
    BY DEF NoteFacts
  <2> QED BY <2>1, <2>2, ParticipantsAreKeys, PoolAssumption
<1> HIDE DEF read
<1> QED BY <1>2, <1>3, <1>4 DEF AreNotes

LEMMA DerivedIs ==
  ASSUME NEW input
  PROVE  /\ Derived(input).from = input /\ Derived(input).notes = NotesOf(input)
         /\ Derived(input).entities = Entities(NotesOf(input))
         /\ Derived(input).relationships = Relationships(NotesOf(input), Entities(NotesOf(input)))
         /\ Derived(input).collapses = Collapses(OneCopyEach(input))
         /\ Derived(input).artifacts = Artifacts(NotesOf(input))
         /\ InputGaps(OneCopyEach(input), NotesOf(input), InputConflicts(input, OneCopyEach(input)))
              \subseteq Derived(input).gaps
BY DEF Derived, Reconciled, Resolved, Reported, Assembled, NotesOf

\* What a derivation names in a gap or a collapse, and what its artifacts are held by.
ReportedIn(g) == (UNION {x.records : x \in g.gaps}) \cup (UNION {x.notes : x \in g.collapses})
HeldIn(g) == UNION {x.notes : x \in g.artifacts}

LEMMA ConflictsAreReported ==
  ASSUME NEW input, NEW x \in InputConflicts(input, OneCopyEach(input))
  PROVE  x.notes \subseteq ReportedIn(Derived(input))
<1>1. PICK gap : gap = Gap("excluded-by-conflict", None, None, x.notes)
  OBVIOUS
<1>2. gap \in Excluded(InputConflicts(input, OneCopyEach(input)))
  BY <1>1 DEF Excluded
<1>3. gap \in Derived(input).gaps /\ gap.records = x.notes
  BY <1>1, <1>2, DerivedIs DEF InputGaps, Gap
<1> QED BY <1>3 DEF ReportedIn

LEMMA DivergentCopiesAreReported ==
  ASSUME NEW input, NEW c \in input, c.id \in Divergent(input)
  PROVE  c.id \in ReportedIn(Derived(input))
<1>1. PICK x : x = Conflict("same-note-id-divergence", {c.id}, {}, {})
  OBVIOUS
<1>2. x \in InputConflicts(input, OneCopyEach(input)) /\ x.notes = {c.id}
  BY <1>1 DEF InputConflicts, NoteIdConflicts, Conflict
<1> QED BY <1>2, ConflictsAreReported

LEMMA DivergentGroupsAreReported ==
  ASSUME NEW input, NEW d \in OneCopyEach(input), HasSourceKey(d), GroupDiverges(Group(OneCopyEach(input), d))
  PROVE  d.id \in ReportedIn(Derived(input))
<1> DEFINE survivors == OneCopyEach(input)
<1>1. PICK x : x = Conflict("source-key-divergence", {e.id : e \in Group(survivors, d)}, {}, {SourceKey(d)})
  OBVIOUS
<1>2. x \in SourceKeyConflicts(survivors) /\ x.notes = {e.id : e \in Group(survivors, d)}
  BY <1>1 DEF SourceKeyConflicts, Conflict
<1>3. d \in Group(survivors, d)
  BY DEF Group
<1>4. x \in InputConflicts(input, survivors) /\ d.id \in x.notes
  BY <1>2, <1>3 DEF InputConflicts
<1> QED BY <1>4, ConflictsAreReported

LEMMA EqualCopiesAreReported ==
  ASSUME NEW input \in SUBSET Pool, IsFiniteSet(input), NEW d \in OneCopyEach(input), HasSourceKey(d),
         ~GroupDiverges(Group(OneCopyEach(input), d)), d \notin Current(OneCopyEach(input))
  PROVE  d.id \in ReportedIn(Derived(input))
<1>1. PICK survivors : survivors = OneCopyEach(input)
  OBVIOUS
<1>2. survivors \in SUBSET Pool /\ IsFiniteSet(survivors) /\ d \in survivors
  BY <1>1, OneCopyIsLeft
<1>3. PICK group : group = Group(survivors, d)
  OBVIOUS
<1>4. d \in group /\ group \in SUBSET survivors
  BY <1>2, <1>3 DEF Group
<1> DEFINE ids == {e.id : e \in group}
<1>5. ids \in SUBSET Nat /\ ids # {}
  BY <1>2, <1>4, PoolAssumption
<1>6. Least(ids) \in ids
  <2> HIDE DEF ids
  <2>1. \E x \in ids : \A y \in ids : x = y \/ x < y
    BY <1>5, NumbersHaveLeast
  <2>2. Least(ids) = CHOOSE x \in ids : \A y \in ids : x = y \/ x < y
    BY DEF Least, Min2
  <2> QED BY <2>1, <2>2
<1>7. PICK m \in group : m.id = Least(ids)
  BY <1>6
<1>8. HasSourceKey(m) /\ SourceKey(m) = SourceKey(d) /\ m \in survivors
  BY <1>2, <1>3, <1>7 DEF Group
<1>9. Group(survivors, m) = group
  BY <1>3, <1>8 DEF Group
<1>10. m \in Current(survivors)
  BY <1>1, <1>3, <1>7, <1>8, <1>9 DEF Current
<1>11. d # m
  BY <1>1, <1>10
<1>12. Cardinality(group) > 1
  <2>1. IsFiniteSet(group) /\ Cardinality(group) \in Nat
    BY <1>2, <1>4, FS_Subset, FS_CardinalityType
  <2>2. Cardinality(group) # 0
    BY <1>4, <2>1, FS_EmptySet
  <2>3. Cardinality(group) # 1
    <3>1. SUFFICES ASSUME Cardinality(group) = 1 PROVE FALSE
      OBVIOUS
    <3>2. PICK x : group = {x}
      BY <2>1, <3>1, FS_Singleton
    <3> QED BY <1>4, <1>7, <1>11, <3>2
  <2> QED BY <2>1, <2>2, <2>3
<1>13. PICK x : x = [key |-> SourceKey(m), survivor |-> m.id, notes |-> {e.id : e \in group},
                     producers |-> {e.field : e \in group}]
  OBVIOUS
<1>14. x \in Collapses(survivors)
  BY <1>8, <1>9, <1>10, <1>12, <1>13 DEF Collapses
<1>15. x \in Derived(input).collapses /\ d.id \in x.notes
  BY <1>1, <1>4, <1>13, <1>14, DerivedIs
<1> QED BY <1>15 DEF ReportedIn

LEMMA UnusableCopiesAreReported ==
  ASSUME NEW input, NEW d \in Current(OneCopyEach(input)), ~Usable(d)
  PROVE  d.id \in ReportedIn(Derived(input))
<1>1. PICK gap : gap = Gap("malformed-note", None, "occurred_at", {d.id})
  OBVIOUS
<1>2. gap \in NoteGaps(d)
  BY <1>1 DEF NoteGaps
<1>3. gap \in Derived(input).gaps /\ gap.records = {d.id}
  BY <1>1, <1>2, DerivedIs DEF InputGaps, Gap
<1> QED BY <1>3 DEF ReportedIn

\* Of a note that is read: it names someone, or holds an artifact, or is reported.
LEMMA ReadCopiesAreHeard ==
  ASSUME NEW input, NEW d \in Current(OneCopyEach(input)), Usable(d)
  PROVE  \/ d.id \in ReportedIn(Derived(input)) \cup HeldIn(Derived(input))
         \/ \E n \in NotesOf(input) : n.id = d.id /\ ParticipantKeys(n) # {}
<1>1. PICK n : n = NoteFacts(d)
  OBVIOUS
<1>2. n \in NotesOf(input) /\ n.id = d.id
  BY <1>1 DEF NotesOf, CurrentNotes, NoteFacts
<1>3. CASE Anchorless(n)
  <2>1. PICK gap : gap = Gap("no-identity-anchors", None, None, {n.id})
    OBVIOUS
  <2>2. gap \in AnchorGaps(NotesOf(input))
    BY <1>2, <1>3, <2>1 DEF AnchorGaps
  <2>3. gap \in Derived(input).gaps /\ gap.records = {d.id}
    BY <1>2, <2>1, <2>2, DerivedIs DEF InputGaps, Gap
  <2> QED BY <2>3 DEF ReportedIn
<1>4. CASE n.artifacts # {}
  <2>1. PICK a : a \in n.artifacts
    BY <1>4
  <2> DEFINE in == {m \in NotesOf(input) : a \in m.artifacts}
  <2>2. n \in in
    BY <1>2, <2>1
  <2>3. PICK x : x = [artifact |-> a, notes |-> Span(in).notes, first |-> Span(in).first, last |-> Span(in).last,
                      attachedTo |-> {m.id : m \in {m \in in : a \in m.attachments}}]
    OBVIOUS
  <2>4. x \in Artifacts(NotesOf(input))
    BY <1>2, <2>1, <2>3 DEF Artifacts
  <2>5. d.id \in Span(in).notes
    <3> HIDE DEF in
    <3> QED BY <1>2, <2>2 DEF Span
  <2>6. x \in Derived(input).artifacts /\ d.id \in x.notes
    BY <2>3, <2>4, <2>5, DerivedIs
  <2> QED BY <2>6 DEF HeldIn
<1>5. CASE ParticipantKeys(n) # {}
  BY <1>2, <1>5
<1> QED BY <1>3, <1>4, <1>5 DEF Anchorless

\* No copy is passed over in silence.
LEMMA EveryCopyIsHeard ==
  ASSUME NEW input \in SUBSET Pool, IsFiniteSet(input), NEW c \in input
  PROVE  \/ c.id \in ReportedIn(Derived(input)) \cup HeldIn(Derived(input))
         \/ \E n \in NotesOf(input) : n.id = c.id /\ ParticipantKeys(n) # {}
<1>1. CASE c.id \in Divergent(input)
  BY <1>1, DivergentCopiesAreReported
<1>2. CASE c.id \notin Divergent(input)
  <2>1. PICK d \in OneCopyEach(input) : d.id = c.id
    BY <1>2, OneCopyIsLeft
  <2>2. CASE d \in Current(OneCopyEach(input))
    <3>1. CASE Usable(d)
      BY <2>1, <2>2, <3>1, ReadCopiesAreHeard
    <3>2. CASE ~Usable(d)
      BY <2>1, <2>2, <3>2, UnusableCopiesAreReported
    <3> QED BY <3>1, <3>2
  <2>3. CASE d \notin Current(OneCopyEach(input))
    <3>1. HasSourceKey(d)
      BY <2>1, <2>3 DEF Current
    <3>2. CASE GroupDiverges(Group(OneCopyEach(input), d))
      BY <2>1, <3>1, <3>2, DivergentGroupsAreReported
    <3>3. CASE ~GroupDiverges(Group(OneCopyEach(input), d))
      BY <2>1, <2>3, <3>1, <3>3, EqualCopiesAreReported
    <3> QED BY <3>2, <3>3
  <2> QED BY <2>2, <2>3
<1> QED BY <1>1, <1>2

\* A list is cut at the limit, and only there.
LEMMA EvidenceIsBounded ==
  ASSUME NEW ids \in SUBSET Nat, IsFiniteSet(ids)
  PROVE  /\ Bounded(ids) \in SUBSET ids
         /\ Cardinality(ids) > Cardinality(Bounded(ids)) => Cardinality(Bounded(ids)) = EvidenceLimit
<1> DEFINE Before(i) == {j \in ids : j < i}
<1>1. \A i : Before(i) \in SUBSET ids /\ IsFiniteSet(Before(i)) /\ Cardinality(Before(i)) \in Nat
  <2>1. \A i : Before(i) \in SUBSET ids
    OBVIOUS
  <2> HIDE DEF Before
  <2> QED BY <2>1, FS_Subset, FS_CardinalityType
<1>2. Bounded(ids) = IF EvidenceLimit = None THEN ids
                     ELSE {i \in ids : Cardinality(Before(i)) < EvidenceLimit}
  BY DEF Bounded
<1>3. PICK kept : kept = Bounded(ids)
  OBVIOUS
<1>4. kept \in SUBSET ids
  <2> HIDE DEF Before
  <2> QED BY <1>2, <1>3
<1>5. ASSUME Cardinality(ids) > Cardinality(kept) PROVE Cardinality(kept) = EvidenceLimit
  <2>1. kept # ids /\ IsFiniteSet(kept) /\ Cardinality(kept) \in Nat /\ Cardinality(ids) \in Nat
    <3>1. IsFiniteSet(kept)
      BY <1>4, FS_Subset
    <3>2. Cardinality(kept) \in Nat /\ Cardinality(ids) \in Nat
      BY <3>1, FS_CardinalityType
    <3> QED BY <1>5, <3>1, <3>2
  <2>2. EvidenceLimit # None /\ EvidenceLimit \in Nat
    BY <1>2, <1>3, <2>1, LimitAssumption
  <2>3. \A i \in ids : i \in kept <=> Cardinality(Before(i)) < EvidenceLimit
    <3> HIDE DEF Before
    <3> QED BY <1>2, <1>3, <2>2
  <2>4. PICK x \in ids \ kept : \A y \in ids \ kept : x <= y
    BY <1>4, <2>1, NumbersHaveLeast
  <2>5. Before(x) \subseteq kept /\ x \in Nat
    <3>1. ASSUME NEW j \in Before(x) PROVE j \in kept
      <4>1. j \in ids /\ j < x /\ j \in Nat /\ x \in Nat
        BY <2>4, <3>1
      <4> QED BY <2>4, <4>1
    <3> QED BY <2>4, <3>1
  <2>6. ASSUME NEW b \in kept, b >= x PROVE FALSE
    <3>1. Before(x) \subseteq Before(b)
      <4>1. b \in Nat /\ x \in Nat /\ ids \subseteq Nat
        BY <1>4, <2>5
      <4>2. ASSUME NEW j \in ids, j < x PROVE j < b
        BY <2>6, <4>1, <4>2
      <4> QED BY <4>2
    <3>2. Cardinality(Before(x)) <= Cardinality(Before(b))
      BY <1>1, <3>1, FS_Subset
    <3>3. b \in ids /\ Cardinality(Before(b)) < EvidenceLimit /\ ~(Cardinality(Before(x)) < EvidenceLimit)
      <4> HIDE DEF Before
      <4> QED BY <1>4, <2>3, <2>4
    <3>4. Cardinality(Before(x)) \in Nat /\ Cardinality(Before(b)) \in Nat
      BY <1>1
    <3> HIDE DEF Before
    <3> QED BY <2>2, <3>2, <3>3, <3>4
  <2>7. kept = Before(x)
    <3>1. ASSUME NEW b \in kept PROVE b \in Before(x)
      <4>1. b \in ids /\ b \in Nat /\ x \in Nat /\ ~(b >= x)
        BY <1>4, <2>5, <2>6
      <4> QED BY <4>1
    <3> QED BY <2>5, <3>1
  <2>8. Cardinality(kept) >= EvidenceLimit
    <3>1. ~(Cardinality(Before(x)) < EvidenceLimit)
      <4> HIDE DEF Before
      <4> QED BY <2>3, <2>4
    <3> HIDE DEF Before
    <3> QED BY <2>1, <2>2, <2>7, <3>1
  <2>9. CASE kept = {}
    <3>1. Cardinality(kept) = 0
      BY <2>9, FS_EmptySet
    <3> QED BY <2>2, <2>8, <3>1
  <2>10. CASE kept # {}
    <3> DEFINE R == {z \in kept \X kept : z[1] > z[2]}
    <3>1. \A a, b \in kept : <<a, b>> \in R <=> a > b
      OBVIOUS
    <3>2. /\ \A a \in kept : <<a, a>> \notin R
          /\ \A a, b, c \in kept : <<a, b>> \in R /\ <<b, c>> \in R => <<a, c>> \in R
          /\ \A a, b \in kept : a = b \/ <<a, b>> \in R \/ <<b, a>> \in R
      BY <1>4, <3>1
    <3> HIDE DEF R
    <3>3. PICK m \in kept : \A b \in kept : b = m \/ <<m, b>> \in R
      BY <2>1, <2>10, <3>2, OrderHasLeast
    <3>4. kept = Before(m) \cup {m} /\ m \notin Before(m)
      <4>1. \A b \in kept : b = m \/ b < m
        BY <1>4, <3>1, <3>3
      <4>2. m < x
        BY <2>7, <3>3
      <4>3. m \in Nat /\ x \in Nat /\ ids \subseteq Nat /\ m \in kept
        BY <1>4, <2>5
      <4>4. ASSUME NEW j \in ids, j < m PROVE j \in kept
        BY <2>7, <4>2, <4>3, <4>4
      <4>5. ~(m < m)
        BY <4>3
      <4>6. kept \subseteq Before(m) \cup {m}
        BY <1>4, <4>1
      <4>7. Before(m) \subseteq kept
        BY <4>4
      <4> QED BY <4>5, <4>6, <4>7
    <3>5. Cardinality(kept) = Cardinality(Before(m)) + 1
      <4>1. IsFiniteSet(Before(m))
        BY <1>1
      <4> HIDE DEF Before
      <4> QED BY <3>4, <4>1, FS_AddElement
    <3>6. Cardinality(Before(m)) < EvidenceLimit /\ Cardinality(Before(m)) \in Nat
      <4>1. m \in ids /\ m \in kept
        BY <1>4
      <4> HIDE DEF Before
      <4> QED BY <1>1, <2>3, <4>1
    <3> HIDE DEF Before
    <3> QED BY <2>1, <2>2, <2>8, <3>5, <3>6
  <2> QED BY <2>9, <2>10
<1> QED BY <1>3, <1>4, <1>5
-----------------------------------------------------------------------------
(* Entities and the records they leave *)

\* The entity of a component.
EntityFor(notes, C) == EntityOf(notes, C, EntityIds(Components(notes))[C])

IsEntityFor(e, notes, C) ==
  /\ e = EntityFor(notes, C) /\ e.id = EntityIds(Components(notes))[C]
  /\ e.identities = C /\ e.kind = KindOfSet(C)
  /\ e.evidence = Bounded({n.id : n \in {n \in notes : Touches(n, C)}})
  /\ e.count = Cardinality({n.id : n \in {n \in notes : Touches(n, C)}})

LEMMA EntitiesAre ==
  ASSUME NEW notes
  PROVE  /\ Entities(notes) = {EntityFor(notes, C) : C \in Components(notes)}
         /\ \A e \in Entities(notes) : \E C \in Components(notes) : IsEntityFor(e, notes, C)
         /\ \A C \in Components(notes) : \E e \in Entities(notes) : IsEntityFor(e, notes, C)
<1>1. Entities(notes) = {EntityFor(notes, C) : C \in Components(notes)}
  BY DEF Entities, EntityFor
<1>2. ASSUME NEW C PROVE IsEntityFor(EntityFor(notes, C), notes, C)
  BY DEF IsEntityFor, EntityFor, EntityOf, Span, KindOfSet
<1>3. ASSUME NEW e \in Entities(notes) PROVE \E C \in Components(notes) : IsEntityFor(e, notes, C)
  <2>1. PICK C \in Components(notes) : e = EntityFor(notes, C)
    BY <1>1
  <2> QED BY <1>2, <2>1
<1>4. ASSUME NEW C \in Components(notes) PROVE \E e \in Entities(notes) : IsEntityFor(e, notes, C)
  BY <1>1, <1>2
<1> QED BY <1>1, <1>3, <1>4

LEMMA EntitiesAreApart ==
  ASSUME NEW notes, AreNotes(notes), PriorsStand, NEW d \in Entities(notes), NEW e \in Entities(notes)
  PROVE  /\ d.id = e.id => d = e
         /\ d.identities \cap e.identities # {} => d = e
<1>1. PICK D \in Components(notes) : d = EntityFor(notes, D) /\ d.id = EntityIds(Components(notes))[D] /\ d.identities = D
  <2>1. PICK D \in Components(notes) : IsEntityFor(d, notes, D)
    BY EntitiesAre
  <2> QED BY <2>1 DEF IsEntityFor
<1>2. PICK E \in Components(notes) : e = EntityFor(notes, E) /\ e.id = EntityIds(Components(notes))[E] /\ e.identities = E
  <2>1. PICK E \in Components(notes) : IsEntityFor(e, notes, E)
    BY EntitiesAre
  <2> QED BY <2>1 DEF IsEntityFor
<1>3. D = E => d = e
  BY <1>1, <1>2
<1>4. d.id = e.id => D = E
  BY <1>1, <1>2, IdsAreApart
<1>5. d.identities \cap e.identities # {} => D = E
  BY <1>1, <1>2, ComponentsAreDisjoint
<1> QED BY <1>3, <1>4, <1>5

\* The records of a notebook just rebuilt are those of its entities.
LEMMA PriorsAreLeft ==
  ASSUME NEW g, NEW records, records = {PriorOf(r) : r \in ProjectedRecords(g)},
         NEW p \in records, p.record = "entity"
  PROVE  \E e \in g.entities : IsMaterialized(e.kind) /\ p = PriorEntity(EntityRecord(e))
<1>1. PICK r \in ProjectedRecords(g) : p = PriorOf(r)
  OBVIOUS
<1>2. r.record = "entity"
  BY <1>1 DEF PriorOf, PriorRelationship
<1>3. PICK e \in g.entities : IsMaterialized(e.kind) /\ r = EntityRecord(e)
  <2>1. r \in {EntityRecord(e) : e \in {e \in g.entities : IsMaterialized(e.kind)}}
    <3>1. SUFFICES ASSUME NEW s \in g.relationships,
                          r \in {RelationshipRecord(s, d, e) :
                                   d \in {d \in g.entities : d.id = s.from}, e \in {e \in g.entities : e.id = s.to}}
                   PROVE  FALSE
      BY <1>1 DEF ProjectedRecords
    <3>2. PICK d, e : r = RelationshipRecord(s, d, e)
      BY <3>1
    <3> QED BY <1>2, <3>2 DEF RelationshipRecord
  <2> QED BY <2>1
<1>4. p = PriorEntity(EntityRecord(e))
  BY <1>1, <1>2, <1>3 DEF PriorOf
<1> QED BY <1>3, <1>4

LEMMA PriorIs ==
  ASSUME NEW e
  PROVE  /\ PriorEntity(EntityRecord(e)).id = e.id /\ PriorEntity(EntityRecord(e)).kind = e.kind
         /\ PriorEntity(EntityRecord(e)).identities \subseteq e.identities
         /\ PriorEntity(EntityRecord(e)).record = "entity"
BY DEF PriorEntity, EntityRecord, Publishable

LEMMA EntitiesAreFinite ==
  ASSUME NEW notes, AreNotes(notes)
  PROVE  IsFiniteSet(Entities(notes))
<1>1. PICK f : f = [C \in Components(notes) |-> EntityFor(notes, C)]
  OBVIOUS
<1>2. DOMAIN f = Components(notes) /\ Entities(notes) \subseteq {f[C] : C \in Components(notes)}
  BY <1>1, EntitiesAre
<1> QED BY <1>2, ComponentsAreFinite, ImagesAreFinite

LEMMA RebuildLeavesPriors ==
  ASSUME NEW input \in SUBSET Pool, IsFiniteSet(input), PriorsStand,
         projections' = {PriorOf(r) : r \in ProjectedRecords(Derived(input))}
  PROVE  PriorsStand'
<1>1. PICK notes : notes = NotesOf(input)
  OBVIOUS
<1>2. AreNotes(notes) /\ Derived(input).entities = Entities(notes)
  BY <1>1, NotesAreRead, DerivedIs
<1>3. ASSUME NEW p \in PriorEntities' PROVE \E e \in Entities(notes) : p = PriorEntity(EntityRecord(e))
  <2>1. p \in projections' /\ p.record = "entity"
    BY DEF PriorEntities
  <2> QED BY <1>2, <2>1, PriorsAreLeft
<1>4. IsFiniteSet(PriorEntities')
  <2>1. PICK f : f = [e \in Entities(notes) |-> PriorEntity(EntityRecord(e))]
    OBVIOUS
  <2>2. DOMAIN f = Entities(notes) /\ PriorEntities' \subseteq {f[e] : e \in Entities(notes)}
    BY <1>3, <2>1
  <2> QED BY <1>2, <2>2, EntitiesAreFinite, ImagesAreFinite
<1>5. ASSUME NEW p \in PriorEntities', NEW q \in PriorEntities', p.id = q.id PROVE p = q
  <2>1. PICK d \in Entities(notes) : p = PriorEntity(EntityRecord(d))
    BY <1>3
  <2>2. PICK e \in Entities(notes) : q = PriorEntity(EntityRecord(e))
    BY <1>3
  <2>3. d.id = e.id
    BY <1>5, <2>1, <2>2, PriorIs
  <2> QED BY <1>2, <2>1, <2>2, <2>3, EntitiesAreApart
<1>6. ASSUME NEW p \in PriorEntities', NEW k \in p.identities PROVE KindOf(k) = p.kind
  <2>1. PICK e \in Entities(notes) : p = PriorEntity(EntityRecord(e))
    BY <1>3
  <2>2. k \in e.identities /\ p.kind = e.kind
    BY <2>1, PriorIs
  <2>3. PICK C \in Components(notes) : e.identities = C /\ e.kind = KindOf(LeastKey(C))
    <3>1. PICK C \in Components(notes) : IsEntityFor(e, notes, C)
      BY EntitiesAre
    <3> QED BY <3>1 DEF IsEntityFor, KindOfSet
  <2>4. LeastKey(C) \in C
    BY <1>2, ComponentsAre, LeastKeyIs
  <2> QED BY <1>2, <2>2, <2>3, <2>4, ComponentsAreOfAKind
<1> QED BY <1>4, <1>5, <1>6 DEF PriorsStand

\* What EntitiesFollowTheEvidence says, of a derivation.
LEMMA DerivationFollowsTheEvidence ==
  ASSUME NEW input \in SUBSET Pool, IsFiniteSet(input), PriorsStand, graph' = Derived(input)
  PROVE  EntitiesFollowTheEvidence'
<1>1. PICK notes : notes = NotesOf(input)
  OBVIOUS
<1>2. PICK entities : entities = Entities(notes)
  OBVIOUS
<1>3. AreNotes(notes) /\ graph'.notes = notes /\ graph'.entities = entities /\ graph'.from = input
  BY <1>1, <1>2, NotesAreRead, DerivedIs
<1>4. ASSUME NEW e \in entities PROVE \E C \in Components(notes) : IsEntityFor(e, notes, C) /\ e.identities = C
  BY <1>2, EntitiesAre DEF IsEntityFor
<1>5. \A C \in Components(notes) : \E e \in entities : e.identities = C
  BY <1>2, EntitiesAre DEF IsEntityFor
<1>6. UNION {e.identities : e \in entities} = Anchors(notes)
  BY <1>3, <1>4, <1>5, ComponentsAre
<1>7. ASSUME NEW d \in entities, NEW e \in entities, d # e PROVE d.id # e.id /\ d.identities \cap e.identities = {}
  BY <1>2, <1>3, <1>7, EntitiesAreApart
<1>8. ASSUME NEW n \in notes, n.coIdentity, NEW k, NEW l, Shares(n, k, l)
      PROVE  \E e \in entities : {k, l} \subseteq e.identities
  <2>1. PICK C \in Components(notes) : {k, l} \subseteq C
    BY <1>3, <1>8, ContactsAreKeptTogether
  <2> QED BY <1>5, <2>1
<1>9. ASSUME NEW e \in entities, NEW part \in SUBSET e.identities, part # {}, part # e.identities
      PROVE  \E n \in notes, k \in part, l \in e.identities \ part : n.coIdentity /\ Shares(n, k, l)
  BY <1>3, <1>4, <1>9, NothingElseIsJoined
<1>10. ASSUME NEW e \in entities, NEW naming, naming = {n.id : n \in {n \in notes : Touches(n, e.identities)}}
       PROVE  /\ e.count = Cardinality(naming) /\ e.evidence \subseteq naming
              /\ e.count > Cardinality(e.evidence) => Cardinality(e.evidence) = EvidenceLimit
  <2>1. PICK C \in Components(notes) : IsEntityFor(e, notes, C) /\ e.identities = C
    BY <1>4
  <2>2. e.count = Cardinality(naming) /\ e.evidence = Bounded(naming)
    BY <1>10, <2>1 DEF IsEntityFor
  <2>3. naming \in SUBSET Nat /\ IsFiniteSet(naming)
    <3>1. naming \in SUBSET Nat
      BY <1>3, <1>10 DEF AreNotes
    <3>2. PICK f : f = [n \in notes |-> n.id]
      OBVIOUS
    <3>3. DOMAIN f = notes /\ naming \subseteq {f[n] : n \in notes} /\ IsFiniteSet(notes)
      BY <1>3, <1>10, <3>2 DEF AreNotes
    <3> QED BY <3>1, <3>3, ImagesAreFinite
  <2> QED BY <2>2, <2>3, EvidenceIsBounded
<1>11. ASSUME NEW c \in input
       PROVE  \/ c.id \in ReportedIn(graph') \cup HeldIn(graph')
              \/ \E n \in notes : n.id = c.id /\ ParticipantKeys(n) # {}
  BY <1>1, <1>11, EveryCopyIsHeard
<1>12. /\ UNION {e.identities : e \in graph'.entities} = UNION {ParticipantKeys(n) : n \in graph'.notes}
       /\ \A d, e \in graph'.entities : d = e \/ (d.id # e.id /\ d.identities \cap e.identities = {})
  BY <1>3, <1>6, <1>7 DEF Anchors
<1>13. \A n \in {n \in graph'.notes : n.coIdentity}, k, l \in UNION {ParticipantKeys(n) : n \in graph'.notes} :
         Shares(n, k, l) => \E e \in graph'.entities : {k, l} \subseteq e.identities
  BY <1>3, <1>8
<1>14. \A e \in graph'.entities : \A part \in (SUBSET e.identities) \ {{}, e.identities} :
         \E n \in {n \in graph'.notes : n.coIdentity}, k \in part, l \in e.identities \ part : Shares(n, k, l)
  <2>1. SUFFICES ASSUME NEW e \in entities, NEW part \in (SUBSET e.identities) \ {{}, e.identities}
                 PROVE  \E n \in {n \in notes : n.coIdentity}, k \in part, l \in e.identities \ part : Shares(n, k, l)
    BY <1>3
  <2>2. PICK n \in notes, k \in part, l \in e.identities \ part : n.coIdentity /\ Shares(n, k, l)
    BY <1>9
  <2> QED BY <2>2
<1>15. \A e \in graph'.entities :
         LET naming == {n.id : n \in {n \in graph'.notes : Touches(n, e.identities)}} IN
         /\ e.count = Cardinality(naming)
         /\ e.evidence \subseteq naming
         /\ e.count > Cardinality(e.evidence) => Cardinality(e.evidence) = EvidenceLimit
  BY <1>3, <1>10
<1>16. \A c \in graph'.from :
         \/ c.id \in ReportedIn(graph') \cup HeldIn(graph')
         \/ \E n \in graph'.notes : n.id = c.id /\ ParticipantKeys(n) # {}
  BY <1>3, <1>11
<1> QED BY <1>12, <1>13, <1>14, <1>15, <1>16 DEF EntitiesFollowTheEvidence, FollowsTheEvidence, Shares, ReportedIn, HeldIn
-----------------------------------------------------------------------------
(* The inductive invariant *)

CopiesAreOfThePool == copies \in SUBSET Pool /\ IsFiniteSet(copies)

IInv ==
  /\ CopiesAreOfThePool
  /\ PriorsStand
  /\ EntitiesFollowTheEvidence

LEMMA InitIInv ==
  Init => IInv
<1>1. SUFFICES ASSUME Init PROVE IInv
  OBVIOUS
<1>2. CopiesAreOfThePool
  BY <1>1, FS_EmptySet DEF Init, CopiesAreOfThePool
<1>3. PriorsStand
  <2>1. PriorEntities = {}
    BY <1>1 DEF Init, PriorEntities
  <2> QED BY <2>1, FS_EmptySet DEF PriorsStand
<1>4. EntitiesFollowTheEvidence
  BY <1>1 DEF Init, EntitiesFollowTheEvidence
<1> QED BY <1>2, <1>3, <1>4 DEF IInv

\* A step that leaves the graph aside keeps what is said of it.
LEMMA NoGraphNothingToShow ==
  ASSUME graph' = None
  PROVE  EntitiesFollowTheEvidence'
BY DEF EntitiesFollowTheEvidence

LEMMA SamePriors ==
  ASSUME PriorsStand, projections' = projections
  PROVE  PriorsStand' /\ PriorEntities' = PriorEntities
<1>1. PriorEntities' = PriorEntities
  BY DEF PriorEntities
<1> QED BY <1>1 DEF PriorsStand

LEMMA ArriveKeepsIInv ==
  ASSUME IInv, NEW c \in Pool \ copies, Arrive(c)
  PROVE  IInv'
<1>1. CopiesAreOfThePool'
  BY FS_AddElement DEF IInv, CopiesAreOfThePool, Arrive
<1>2. PriorsStand' /\ EntitiesFollowTheEvidence'
  BY SamePriors, NoGraphNothingToShow DEF IInv, Arrive
<1> QED BY <1>1, <1>2 DEF IInv

LEMMA LeaveKeepsIInv ==
  ASSUME IInv, NEW c \in copies, Leave(c)
  PROVE  IInv'
<1>1. CopiesAreOfThePool'
  BY FS_RemoveElement DEF IInv, CopiesAreOfThePool, Leave
<1>2. PriorsStand' /\ EntitiesFollowTheEvidence'
  BY SamePriors, NoGraphNothingToShow DEF IInv, Leave
<1> QED BY <1>1, <1>2 DEF IInv

LEMMA RebuildKeepsIInv ==
  ASSUME IInv, Rebuild
  PROVE  IInv'
<1>1. CopiesAreOfThePool'
  BY DEF IInv, CopiesAreOfThePool, Rebuild
<1>2. /\ graph' = Derived(copies)
      /\ projections' = {PriorOf(r) : r \in ProjectedRecords(Derived(copies))}
  BY DEF Rebuild
<1>3. PriorsStand'
  BY <1>2, RebuildLeavesPriors DEF IInv, CopiesAreOfThePool
<1>4. EntitiesFollowTheEvidence'
  BY <1>2, DerivationFollowsTheEvidence DEF IInv, CopiesAreOfThePool
<1> QED BY <1>1, <1>3, <1>4 DEF IInv

LEMMA DeleteKeepsIInv ==
  ASSUME IInv, DeleteProjections
  PROVE  IInv'
<1>1. CopiesAreOfThePool'
  BY DEF IInv, CopiesAreOfThePool, DeleteProjections
<1>2. PriorsStand'
  <2>1. PriorEntities' = {}
    BY DEF DeleteProjections, PriorEntities
  <2> QED BY <2>1, FS_EmptySet DEF PriorsStand
<1>3. EntitiesFollowTheEvidence'
  BY NoGraphNothingToShow DEF DeleteProjections
<1> QED BY <1>1, <1>2, <1>3 DEF IInv

LEMMA StepKeepsIInv ==
  IInv /\ [Next]_vars => IInv'
<1>1. SUFFICES ASSUME IInv, [Next]_vars PROVE IInv'
  OBVIOUS
<1>2. CASE \E c \in Pool \ copies : Arrive(c)
  BY <1>1, <1>2, ArriveKeepsIInv
<1>3. CASE \E c \in copies : Leave(c)
  BY <1>1, <1>3, LeaveKeepsIInv
<1>4. CASE Rebuild
  BY <1>1, <1>4, RebuildKeepsIInv
<1>5. CASE DeleteProjections
  BY <1>1, <1>5, DeleteKeepsIInv
<1>6. CASE UNCHANGED vars
  <2>1. copies' = copies /\ projections' = projections /\ graph' = graph
    BY <1>6 DEF vars
  <2>2. CopiesAreOfThePool' /\ PriorsStand'
    BY <1>1, <2>1, SamePriors DEF IInv, CopiesAreOfThePool
  <2>3. EntitiesFollowTheEvidence'
    BY <1>1, <2>1 DEF IInv, EntitiesFollowTheEvidence
  <2> QED BY <2>2, <2>3 DEF IInv
<1> QED BY <1>1, <1>2, <1>3, <1>4, <1>5, <1>6 DEF Next

LEMMA Invariant == Spec => []IInv
BY InitIInv, StepKeepsIInv, PTL DEF Spec

\* The entities are the finest partition of the anchors of the current Notes
\* that keeps what a contact record holds together, each cites the Notes that
\* name it, and no copy is passed over (reconcile_input, resolve_identities,
\* build_entities).
THEOREM EntitiesFollowTheEvidenceAlways == Spec => []EntitiesFollowTheEvidence
<1>1. IInv => EntitiesFollowTheEvidence
  BY DEF IInv
<1> QED BY <1>1, Invariant, PTL

-----------------------------------------------------------------------------
(* IDs follow their subject *)

LEMMA ReusedIdIsOfItsSubject ==
  ASSUME NEW notes, AreNotes(notes), PriorsStand, NEW e \in Entities(notes), NEW p \in PriorEntities, p.id = e.id
  PROVE  /\ p.identities \cap e.identities # {}
         /\ \A d \in Entities(notes) : p.identities \cap d.identities # {} => d = e
         /\ \A q \in PriorEntities : q.identities \cap e.identities # {} => q = p
<1>1. PICK C \in Components(notes) : e.identities = C /\ e.id = EntityIds(Components(notes))[C]
  <2>1. PICK C \in Components(notes) : IsEntityFor(e, notes, C)
    BY EntitiesAre
  <2> QED BY <2>1 DEF IsEntityFor
<1>2. MayReuse(C, KindOfSet(C), Components(notes))
  BY <1>1, IdsOfComponents
<1>3. PICK r \in PriorEntities :
        /\ Claimants(C, KindOfSet(C)) = {r} /\ Matches(r, C)
        /\ \A D \in Components(notes) : Matches(r, D) => D = C
        /\ (CHOOSE q \in Claimants(C, KindOfSet(C)) : TRUE) = r
  BY <1>2, ReuseIsExact
<1>4. r.id = e.id
  BY <1>1, <1>2, <1>3, IdsOfComponents
<1>5. r = p
  BY <1>4 DEF PriorsStand
<1>6. p.identities \cap C # {}
  BY <1>3, <1>5 DEF Matches
<1>7. ASSUME NEW d \in Entities(notes), p.identities \cap d.identities # {} PROVE d = e
  <2>1. PICK D \in Components(notes) : IsEntityFor(d, notes, D)
    BY EntitiesAre
  <2>2. d.identities = D
    BY <2>1 DEF IsEntityFor
  <2>3. D = C
    BY <1>3, <1>5, <1>7, <2>2 DEF Matches
  <2>4. C # {}
    BY ComponentsAre
  <2> QED BY <1>1, <2>2, <2>3, <2>4, EntitiesAreApart
<1>8. ASSUME NEW q \in PriorEntities, q.identities \cap C # {} PROVE q = p
  <2>1. PICK k : k \in q.identities /\ k \in C
    BY <1>8
  <2>2. LeastKey(C) \in C
    BY ComponentsAre, LeastKeyIs
  <2>3. KindOf(k) = KindOfSet(C)
    BY <2>1, <2>2, ComponentsAreOfAKind DEF KindOfSet
  <2>4. q.kind = KindOfSet(C)
    BY <2>1, <2>3 DEF PriorsStand
  <2>5. q \in Claimants(C, KindOfSet(C))
    BY <1>8, <2>4 DEF Claimants, Matches
  <2> QED BY <1>3, <1>5, <2>5
<1> QED BY <1>1, <1>6, <1>7, <1>8

\* An entity that bears the ID of a record of the notebook is that record's
\* subject and its only one (prior_reuse).
THEOREM IdsFollowTheirSubjectAlways == Spec => IdsFollowTheirSubject
<1> DEFINE Step ==
      \A e \in (IF graph' \in {graph, None} THEN {} ELSE graph'.entities), p \in PriorEntities :
        p.id = e.id =>
            /\ p.identities \cap e.identities # {}
            /\ \A d \in graph'.entities : p.identities \cap d.identities # {} => d = e
            /\ \A q \in PriorEntities : q.identities \cap e.identities # {} => q = p
<1>1. IInv /\ [Next]_vars => [Step]_vars
  <2>1. SUFFICES ASSUME IInv, Next, NEW e \in graph'.entities, graph' \notin {graph, None}, NEW p \in PriorEntities,
                        p.id = e.id
                 PROVE  /\ p.identities \cap e.identities # {}
                        /\ \A d \in graph'.entities : p.identities \cap d.identities # {} => d = e
                        /\ \A q \in PriorEntities : q.identities \cap e.identities # {} => q = p
    OBVIOUS
  <2>2. graph' = Derived(copies)
    BY <2>1 DEF Next, Arrive, Leave, Rebuild, DeleteProjections
  <2>3. graph'.entities = Entities(NotesOf(copies))
    BY <2>2, DerivedIs
  <2>4. AreNotes(NotesOf(copies)) /\ PriorsStand
    BY <2>1, NotesAreRead DEF IInv, CopiesAreOfThePool
  <2> QED BY <2>1, <2>3, <2>4, ReusedIdIsOfItsSubject
<1>2. IdsFollowTheirSubject <=> [][Step]_vars
  BY PTL DEF IdsFollowTheirSubject
<1> QED BY <1>1, <1>2, Invariant, PTL DEF Spec
-----------------------------------------------------------------------------
(* A rebuild settles *)

\* Entities of their components, each under an ID of its own.
EntitiesUnder(notes, ids) == {EntityOf(notes, C, ids[C]) : C \in Components(notes)}
Apart(notes, ids) == \A C, D \in Components(notes) : ids[C] = ids[D] => C = D
EdgesUnder(notes, entities, ids) == {Relationship(notes, p, ids[p]) : p \in Pairs(notes, entities)}

LEMMA EntityUnder ==
  ASSUME NEW notes, NEW C, NEW id
  PROVE  /\ EntityOf(notes, C, id).id = id /\ EntityOf(notes, C, id).identities = C
         /\ EntityOf(notes, C, id).kind = KindOfSet(C) /\ EntityOf(notes, C, id).primary = LeastKey(C)
BY DEF EntityOf, KindOfSet

\* What is known of an entity, whatever its ID.
LEMMA RecognizableByKeys ==
  ASSUME NEW d, NEW e, d.kind = e.kind, d.identities = e.identities
  PROVE  Recognizable(d) <=> Recognizable(e)
BY DEF Recognizable, PriorEntity, EntityRecord, Publishable

\* A pair is of two entities, from the one with the lower primary anchor.
LEMMA PairIs ==
  ASSUME NEW notes, AreNotes(notes), NEW ids, Apart(notes, ids),
         NEW entities, entities = EntitiesUnder(notes, ids), NEW pair \in Pairs(notes, entities)
  PROVE  /\ FromSide(pair) \in entities /\ ToSide(pair) \in entities
         /\ pair = {FromSide(pair), ToSide(pair)}
<1>1. pair \in SUBSET entities /\ Cardinality(pair) = 2
  BY DEF Pairs, kSubset
<1>2. PICK a, b : pair = {a, b} /\ a # b
  <2>1. PICK a : a \in pair
    <3>1. pair # {}
      BY <1>1, FS_EmptySet
    <3> QED BY <3>1
  <2>2. IsFiniteSet(pair)
    <3>1. PICK f : f = [C \in Components(notes) |-> EntityOf(notes, C, ids[C])]
      OBVIOUS
    <3>2. DOMAIN f = Components(notes) /\ pair \subseteq {f[C] : C \in Components(notes)}
      BY <1>1, <3>1 DEF EntitiesUnder
    <3> QED BY <3>2, ComponentsAreFinite, ImagesAreFinite
  <2>3. IsFiniteSet(pair \ {a}) /\ Cardinality(pair \ {a}) = 1
    BY <1>1, <2>1, <2>2, FS_RemoveElement
  <2>4. PICK b : pair \ {a} = {b}
    BY <2>3, FS_Singleton
  <2>5. pair = {a, b} /\ a # b
    BY <2>1, <2>4
  <2> QED BY <2>5
<1>3. PICK A \in Components(notes) : a = EntityOf(notes, A, ids[A])
  BY <1>1, <1>2 DEF EntitiesUnder
<1>4. PICK B \in Components(notes) : b = EntityOf(notes, B, ids[B])
  BY <1>1, <1>2 DEF EntitiesUnder
<1>5. A # B
  BY <1>2, <1>3, <1>4
<1>6. /\ a.primary \in A /\ a.primary \in Keys
      /\ b.primary \in B /\ b.primary \in Keys
  BY <1>3, <1>4, EntityUnder, ComponentsAre, LeastKeyIs
<1>7. a.primary # b.primary
  BY <1>5, <1>6, ComponentsAreDisjoint
<1>8. KeyLess(a.primary, b.primary) \/ KeyLess(b.primary, a.primary)
  BY <1>6, <1>7, KeyOrder
<1>9. \E e \in pair : \A d \in pair : d = e \/ KeyLess(e.primary, d.primary)
  BY <1>2, <1>8
<1>10. FromSide(pair) \in pair
  BY <1>9 DEF FromSide
<1>11. \E e \in pair : e # FromSide(pair)
  BY <1>2
<1>12. ToSide(pair) \in pair /\ ToSide(pair) # FromSide(pair)
  BY <1>11 DEF ToSide
<1>13. pair = {FromSide(pair), ToSide(pair)}
  BY <1>2, <1>10, <1>12
<1> QED BY <1>1, <1>10, <1>12, <1>13

\* The edges from one entity to another: the one of their pair, if they met.
LEMMA EdgeOfPair ==
  ASSUME NEW notes, AreNotes(notes), NEW ids, Apart(notes, ids),
         NEW entities, entities = EntitiesUnder(notes, ids), NEW edges,
         NEW a \in entities, NEW b \in entities
  PROVE  {r \in EdgesUnder(notes, entities, edges) : r.from = a.id /\ r.to = b.id}
           = {Relationship(notes, p, edges[p]) :
                p \in {p \in Pairs(notes, entities) : FromSide(p) = a /\ ToSide(p) = b}}
<1>1. ASSUME NEW p \in Pairs(notes, entities)
      PROVE  /\ Relationship(notes, p, edges[p]).from = FromSide(p).id
             /\ Relationship(notes, p, edges[p]).to = ToSide(p).id
             /\ FromSide(p).id = a.id <=> FromSide(p) = a
             /\ ToSide(p).id = b.id <=> ToSide(p) = b
  <2>1. FromSide(p) \in entities /\ ToSide(p) \in entities
    BY PairIs
  <2>2. ASSUME NEW x \in entities, NEW y \in entities, x.id = y.id PROVE x = y
    <3>1. PICK X \in Components(notes) : x = EntityOf(notes, X, ids[X])
      BY DEF EntitiesUnder
    <3>2. PICK Y \in Components(notes) : y = EntityOf(notes, Y, ids[Y])
      BY DEF EntitiesUnder
    <3>3. ids[X] = ids[Y]
      BY <2>2, <3>1, <3>2, EntityUnder
    <3> QED BY <3>1, <3>2, <3>3 DEF Apart
  <2>3. /\ Relationship(notes, p, edges[p]).from = FromSide(p).id
        /\ Relationship(notes, p, edges[p]).to = ToSide(p).id
    BY DEF Relationship
  <2> QED BY <2>1, <2>2, <2>3
<1> QED BY <1>1 DEF EdgesUnder

\* A derivation of these copies, and the records it left.
IsDerived(g, input, records) ==
  /\ \E ids : Apart(NotesOf(input), ids) /\ g.entities = EntitiesUnder(NotesOf(input), ids)
  /\ \E ids : g.relationships = EdgesUnder(NotesOf(input), g.entities, ids)
  /\ records = {PriorOf(r) : r \in ProjectedRecords(g)}

\* The edge records are those of the relationships between entities that are there.
EdgeLeft(r) == [record |-> "relationship", id |-> r.id, from |-> r.from, to |-> r.to]

LEMMA EdgesAreLeft ==
  ASSUME NEW g, projections = {PriorOf(r) : r \in ProjectedRecords(g)}
  PROVE  /\ \A x \in PriorEdges : \E r \in g.relationships : x = EdgeLeft(r)
         /\ \A r \in g.relationships, d, e \in g.entities : r.from = d.id /\ r.to = e.id => EdgeLeft(r) \in PriorEdges
<1>1. ASSUME NEW x \in PriorEdges PROVE \E r \in g.relationships : x = EdgeLeft(r)
  <2>1. PICK y \in ProjectedRecords(g) : x = PriorOf(y)
    BY DEF PriorEdges
  <2>2. x.record = "relationship"
    BY DEF PriorEdges
  <2>3. y.record # "entity"
    BY <2>1, <2>2 DEF PriorOf, PriorEntity
  <2>4. PICK r \in g.relationships :
          y \in {RelationshipRecord(r, d, e) :
                   d \in {d \in g.entities : d.id = r.from}, e \in {e \in g.entities : e.id = r.to}}
    <3>1. y \notin {EntityRecord(e) : e \in {e \in g.entities : IsMaterialized(e.kind)}}
      BY <2>3 DEF EntityRecord
    <3> QED BY <2>1, <3>1 DEF ProjectedRecords
  <2>5. PICK d, e : y = RelationshipRecord(r, d, e)
    BY <2>4
  <2>6. x = EdgeLeft(r)
    BY <2>1, <2>3, <2>5 DEF PriorOf, PriorRelationship, RelationshipRecord, EdgeLeft
  <2> QED BY <2>6
<1>2. ASSUME NEW r \in g.relationships, NEW d \in g.entities, NEW e \in g.entities, r.from = d.id, r.to = e.id
      PROVE  EdgeLeft(r) \in PriorEdges
  <2>1. PICK y : y = RelationshipRecord(r, d, e)
    OBVIOUS
  <2>2. y \in ProjectedRecords(g)
    <3>1. y \in {RelationshipRecord(r, x, z) :
                   x \in {x \in g.entities : x.id = r.from}, z \in {z \in g.entities : z.id = r.to}}
      BY <1>2, <2>1
    <3> QED BY <3>1 DEF ProjectedRecords
  <2>3. PriorOf(y) = EdgeLeft(r)
    BY <2>1 DEF PriorOf, PriorRelationship, RelationshipRecord, EdgeLeft
  <2>4. EdgeLeft(r) \in projections /\ EdgeLeft(r).record = "relationship"
    BY <2>2, <2>3 DEF EdgeLeft
  <2> QED BY <2>4 DEF PriorEdges
<1> QED BY <1>1, <1>2

LEMMA RecordIsLeft ==
  ASSUME NEW g, projections = {PriorOf(r) : r \in ProjectedRecords(g)},
         NEW e \in g.entities, IsMaterialized(e.kind)
  PROVE  PriorEntity(EntityRecord(e)) \in PriorEntities
<1>1. PICK y : y = EntityRecord(e)
  OBVIOUS
<1>2. y \in ProjectedRecords(g) /\ y.record = "entity"
  <2>1. y \in {EntityRecord(d) : d \in {d \in g.entities : IsMaterialized(d.kind)}}
    BY <1>1
  <2>2. y \in ProjectedRecords(g)
    BY <2>1 DEF ProjectedRecords
  <2>3. y.record = "entity"
    BY <1>1 DEF EntityRecord
  <2> QED BY <2>2, <2>3
<1>3. PriorOf(y) = PriorEntity(y)
  BY <1>2 DEF PriorOf
<1>4. PriorEntity(y) \in projections /\ PriorEntity(y).record = "entity"
  BY <1>2, <1>3 DEF PriorEntity
<1> QED BY <1>1, <1>4 DEF PriorEntities

\* An entity that can be recognized is given its ID again.
LEMMA IdsSettle ==
  ASSUME NEW notes, AreNotes(notes), PriorsStand, NEW ids, Apart(notes, ids),
         NEW g, g.entities = EntitiesUnder(notes, ids), projections = {PriorOf(r) : r \in ProjectedRecords(g)},
         NEW C \in Components(notes), Recognizable(EntityOf(notes, C, ids[C]))
  PROVE  EntityIds(Components(notes))[C] = ids[C]
<1>1. PICK e : e = EntityOf(notes, C, ids[C])
  OBVIOUS
<1>2. e \in g.entities /\ e.identities = C /\ e.kind = KindOfSet(C) /\ e.id = ids[C]
  BY <1>1, EntityUnder DEF EntitiesUnder
<1>3. PICK p : p = PriorEntity(EntityRecord(e))
  OBVIOUS
<1>4. IsMaterialized(e.kind) /\ p.identities # {}
  BY <1>1, <1>3 DEF Recognizable
<1>5. /\ p \in PriorEntities /\ p.id = ids[C] /\ p.kind = KindOfSet(C)
      /\ p.identities \subseteq C /\ p.identities # {}
  BY <1>2, <1>3, <1>4, RecordIsLeft, PriorIs
<1>6. \A D \in Components(notes) : Matches(p, D) <=> D = C
  BY <1>5, ComponentsAreDisjoint DEF Matches
<1>7. ASSUME NEW q \in Claimants(C, KindOfSet(C)) PROVE q = p
  <2>1. q \in PriorEntities /\ q.identities \cap C # {} /\ q \in projections /\ q.record = "entity"
    BY DEF Claimants, Matches, PriorEntities
  <2>2. PICK d \in g.entities : q = PriorEntity(EntityRecord(d))
    BY <2>1, PriorsAreLeft
  <2>3. PICK D \in Components(notes) : d = EntityOf(notes, D, ids[D])
    BY <2>2 DEF EntitiesUnder
  <2>4. q.identities \subseteq D
    BY <2>2, <2>3, EntityUnder, PriorIs
  <2>5. D = C
    BY <2>1, <2>4, ComponentsAreDisjoint
  <2> QED BY <1>1, <1>3, <2>2, <2>3, <2>5
<1>8. Claimants(C, KindOfSet(C)) = {p}
  <2>1. p \in Claimants(C, KindOfSet(C))
    BY <1>5, <1>6 DEF Claimants
  <2> QED BY <1>7, <2>1
<1>9. PriorMatches(p, Components(notes)) = 1
  <2>1. {D \in Components(notes) : Matches(p, D)} = {C}
    BY <1>6
  <2> QED BY <2>1, FS_Singleton DEF PriorMatches
<1>10. MayReuse(C, KindOfSet(C), Components(notes))
  BY <1>5, <1>8, <1>9 DEF MayReuse
<1>11. (CHOOSE q \in Claimants(C, KindOfSet(C)) : TRUE) = p
  BY <1>8
<1> QED BY <1>5, <1>10, <1>11, IdsOfComponents

\* And so is an edge between two entities under the IDs they had.
LEMMA EdgeIdsSettle ==
  ASSUME NEW notes, AreNotes(notes), NEW ids, Apart(notes, ids),
         NEW g, g.entities = EntitiesUnder(notes, ids), projections = {PriorOf(r) : r \in ProjectedRecords(g)},
         NEW edges, g.relationships = EdgesUnder(notes, g.entities, edges),
         NEW pair \in Pairs(notes, g.entities), NEW pairs, pair \in pairs
  PROVE  EdgeIds(pairs)[pair] = edges[pair]
<1>1. PICK a, b : a = FromSide(pair) /\ b = ToSide(pair)
  OBVIOUS
<1>2. a \in g.entities /\ b \in g.entities /\ pair = {a, b}
  BY <1>1, PairIs
<1>3. \A p \in Pairs(notes, g.entities) : FromSide(p) = a /\ ToSide(p) = b => p = pair
  BY <1>2, PairIs
<1>4. PICK r : r = Relationship(notes, pair, edges[pair])
  OBVIOUS
<1>5. {s \in g.relationships : s.from = a.id /\ s.to = b.id} = {r}
  <2>1. {s \in g.relationships : s.from = a.id /\ s.to = b.id}
          = {Relationship(notes, p, edges[p]) :
               p \in {p \in Pairs(notes, g.entities) : FromSide(p) = a /\ ToSide(p) = b}}
    BY <1>2, EdgeOfPair
  <2>2. {p \in Pairs(notes, g.entities) : FromSide(p) = a /\ ToSide(p) = b} = {pair}
    BY <1>1, <1>3
  <2> QED BY <1>4, <2>1, <2>2
<1>6. r \in g.relationships /\ r.from = a.id /\ r.to = b.id /\ r.id = edges[pair]
  BY <1>4, <1>5 DEF Relationship
<1>7. EdgesBetween(pair) = {EdgeLeft(r)}
  <2>1. EdgeLeft(r) \in EdgesBetween(pair)
    <3>1. EdgeLeft(r) \in PriorEdges
      BY <1>2, <1>6, EdgesAreLeft
    <3> QED BY <1>1, <1>6, <3>1 DEF EdgesBetween, EdgeLeft
  <2>2. ASSUME NEW x \in EdgesBetween(pair) PROVE x = EdgeLeft(r)
    <3>1. x \in PriorEdges /\ x.from = a.id /\ x.to = b.id
      BY <1>1 DEF EdgesBetween
    <3>2. PICK s \in g.relationships : x = EdgeLeft(s)
      BY <3>1, EdgesAreLeft
    <3>3. s.from = a.id /\ s.to = b.id
      BY <3>1, <3>2 DEF EdgeLeft
    <3>4. s = r
      BY <1>5, <3>3
    <3> QED BY <3>2, <3>4
  <2> QED BY <2>1, <2>2
<1>8. Cardinality(EdgesBetween(pair)) = 1
  BY <1>7, FS_Singleton
<1>9. EdgeIds(pairs)[pair] = (CHOOSE x \in EdgesBetween(pair) : TRUE).id
  <2> DEFINE taken == {p.id : p \in PriorEdges}
             minting == {p \in pairs : Cardinality(EdgesBetween(p)) # 1}
             before(p, q) == \/ KeyLess(FromSide(p).primary, FromSide(q).primary)
                             \/ /\ FromSide(p) = FromSide(q)
                                /\ KeyLess(ToSide(p).primary, ToSide(q).primary)
             place(p) == Cardinality({q \in minting : q = p \/ before(q, p)})
  <2>1. EdgeIds(pairs) = [p \in pairs |-> IF p \in minting THEN Fresh(place(p), taken)
                                          ELSE (CHOOSE x \in EdgesBetween(p) : TRUE).id]
    BY DEF EdgeIds
  <2>2. pair \notin minting
    BY <1>8
  <2> HIDE DEF minting, before, place, taken
  <2>3. EdgeIds(pairs)[pair] = IF pair \in minting THEN Fresh(place(pair), taken)
                               ELSE (CHOOSE x \in EdgesBetween(pair) : TRUE).id
    BY <2>1
  <2> QED BY <2>2, <2>3
<1>10. (CHOOSE x \in EdgesBetween(pair) : TRUE) = EdgeLeft(r)
  BY <1>7
<1>11. EdgeLeft(r).id = r.id
  BY DEF EdgeLeft
<1> QED BY <1>6, <1>9, <1>10, <1>11

LEMMA DerivationsSettle ==
  ASSUME NEW input \in SUBSET Pool, IsFiniteSet(input), PriorsStand, NEW g, IsDerived(g, input, projections)
  PROVE  Settles(g, Derived(input))
<1>1. PICK notes : notes = NotesOf(input)
  OBVIOUS
<1>2. AreNotes(notes)
  BY <1>1, NotesAreRead
<1>3. PICK ids : Apart(notes, ids) /\ g.entities = EntitiesUnder(notes, ids)
  BY <1>1 DEF IsDerived
<1>4. PICK edges : g.relationships = EdgesUnder(notes, g.entities, edges)
  BY <1>1 DEF IsDerived
<1>5. PICK h : h = Derived(input)
  OBVIOUS
<1>6. PICK new : new = EntityIds(Components(notes))
  OBVIOUS
<1>7. h.entities = EntitiesUnder(notes, new) /\ Apart(notes, new)
  <2>1. Apart(notes, new)
    BY <1>2, <1>6, IdsAreApart DEF Apart
  <2>2. Entities(notes) = EntitiesUnder(notes, new)
    BY <1>6 DEF Entities, EntitiesUnder
  <2> QED BY <1>1, <1>5, <2>1, <2>2, DerivedIs
<1>8. PICK newEdges : newEdges = EdgeIds(Pairs(notes, h.entities))
  OBVIOUS
<1>9. h.relationships = EdgesUnder(notes, h.entities, newEdges)
  <2>1. h.relationships = Relationships(notes, Entities(notes)) /\ h.entities = Entities(notes)
    BY <1>1, <1>5, DerivedIs
  <2> QED BY <1>8, <2>1 DEF Relationships, EdgesUnder
<1>10. projections = {PriorOf(r) : r \in ProjectedRecords(g)}
  BY DEF IsDerived
<1>11. ASSUME NEW e \in g.entities, Recognizable(e) PROVE e \in h.entities
  <2>1. PICK C \in Components(notes) : e = EntityOf(notes, C, ids[C])
    BY <1>3 DEF EntitiesUnder
  <2>2. new[C] = ids[C]
    BY <1>2, <1>3, <1>6, <1>10, <1>11, <2>1, IdsSettle
  <2> QED BY <1>7, <2>1, <2>2 DEF EntitiesUnder
<1>12. ASSUME NEW e \in g.entities, Recognizable(e), NEW f \in g.entities, Recognizable(f)
       PROVE  {r \in g.relationships : r.from = e.id /\ r.to = f.id}
                = {r \in h.relationships : r.from = e.id /\ r.to = f.id}
  <2>1. e \in h.entities /\ f \in h.entities
    BY <1>11, <1>12
  <2> DEFINE Between(entities) == {p \in Pairs(notes, entities) : FromSide(p) = e /\ ToSide(p) = f}
  <2>2. {r \in g.relationships : r.from = e.id /\ r.to = f.id}
          = {Relationship(notes, p, edges[p]) : p \in Between(g.entities)}
    BY <1>2, <1>3, <1>4, EdgeOfPair
  <2>3. {r \in h.relationships : r.from = e.id /\ r.to = f.id}
          = {Relationship(notes, p, newEdges[p]) : p \in Between(h.entities)}
    BY <1>2, <1>7, <1>9, <2>1, EdgeOfPair
  <2>4. Between(g.entities) = Between(h.entities)
    <3>1. \A p \in Between(g.entities) : p = {e, f}
      BY <1>2, <1>3, PairIs
    <3>2. \A p \in Between(h.entities) : p = {e, f}
      BY <1>2, <1>7, PairIs
    <3>3. {e, f} \in Pairs(notes, g.entities) <=> {e, f} \in Pairs(notes, h.entities)
      BY <2>1 DEF Pairs, kSubset
    <3> QED BY <3>1, <3>2, <3>3
  <2>5. \A p \in Between(g.entities) : newEdges[p] = edges[p]
    <3>1. SUFFICES ASSUME NEW p \in Between(g.entities) PROVE newEdges[p] = edges[p]
      OBVIOUS
    <3>2. p \in Pairs(notes, g.entities) /\ p \in Pairs(notes, h.entities)
      BY <2>4
    <3> QED BY <1>2, <1>3, <1>4, <1>8, <1>10, <3>2, EdgeIdsSettle
  <2> QED BY <2>2, <2>3, <2>4, <2>5
<1>13. ASSUME NEW e \in g.entities, Recognizable(e)
       PROVE  /\ \E d \in h.entities : d.id = e.id /\ d.identities = e.identities
              /\ \A f \in g.entities : Recognizable(f) =>
                    {r \in g.relationships : r.from = e.id /\ r.to = f.id}
                      = {r \in h.relationships : r.from = e.id /\ r.to = f.id}
  BY <1>11, <1>12, <1>13
<1> QED BY <1>5, <1>13 DEF Settles

\* While there is a graph it is one of these copies, and its records are the notebook's.
GraphStands == graph # None => IsDerived(graph, copies, projections)

LEMMA RebuildIsDerived ==
  ASSUME IInv, Rebuild
  PROVE  IsDerived(graph', copies', projections')
<1>1. PICK notes : notes = NotesOf(copies)
  OBVIOUS
<1>2. AreNotes(notes) /\ PriorsStand
  BY <1>1, NotesAreRead DEF IInv, CopiesAreOfThePool
<1>3. /\ graph' = Derived(copies) /\ copies' = copies
      /\ projections' = {PriorOf(r) : r \in ProjectedRecords(graph')}
  BY DEF Rebuild
<1>4. \E ids : Apart(notes, ids) /\ Entities(notes) = EntitiesUnder(notes, ids)
  <2>1. PICK ids : ids = EntityIds(Components(notes))
    OBVIOUS
  <2>2. Apart(notes, ids)
    BY <1>2, <2>1, IdsAreApart DEF Apart
  <2>3. Entities(notes) = EntitiesUnder(notes, ids)
    BY <2>1 DEF Entities, EntitiesUnder
  <2> QED BY <2>2, <2>3
<1>5. \E ids : Relationships(notes, Entities(notes)) = EdgesUnder(notes, Entities(notes), ids)
  BY DEF Relationships, EdgesUnder
<1>6. graph'.entities = Entities(notes) /\ graph'.relationships = Relationships(notes, Entities(notes))
  BY <1>1, <1>3, DerivedIs
<1>7. \E ids : Apart(NotesOf(copies'), ids) /\ graph'.entities = EntitiesUnder(NotesOf(copies'), ids)
  BY <1>1, <1>3, <1>4, <1>6
<1>8. \E ids : graph'.relationships = EdgesUnder(NotesOf(copies'), graph'.entities, ids)
  BY <1>1, <1>3, <1>5, <1>6
<1> QED BY <1>3, <1>7, <1>8 DEF IsDerived

LEMMA GraphKeepsStanding ==
  IInv /\ GraphStands /\ [Next]_vars => GraphStands'
<1>1. SUFFICES ASSUME IInv, GraphStands, [Next]_vars PROVE GraphStands'
  OBVIOUS
<1>2. CASE graph' = None
  BY <1>2 DEF GraphStands
<1>3. CASE Rebuild
  BY <1>1, <1>3, RebuildIsDerived DEF GraphStands
<1>4. CASE UNCHANGED vars
  BY <1>1, <1>4 DEF GraphStands, vars
<1> QED BY <1>1, <1>2, <1>3, <1>4 DEF Next, Arrive, Leave, DeleteProjections

\* A rebuild over Notes that have not changed gives every entity that can be
\* recognized, and every edge between two of them, the ID it has (the reuse of
\* prior projections in build_entities and build_relationships).
THEOREM RebuildSettlesAlways == Spec => RebuildSettles
<1>1. Init => GraphStands
  BY DEF Init, GraphStands
<1>2. Spec => []GraphStands
  BY <1>1, Invariant, GraphKeepsStanding, PTL DEF Spec
<1> DEFINE Step == graph # None /\ graph' \notin {graph, None} => Settles(graph, graph')
<1>3. IInv /\ GraphStands /\ [Next]_vars => [Step]_vars
  <2>1. SUFFICES ASSUME IInv, GraphStands, Next, graph # None, graph' \notin {graph, None}
                 PROVE  Settles(graph, graph')
    OBVIOUS
  <2>2. graph' = Derived(copies)
    BY <2>1 DEF Next, Arrive, Leave, Rebuild, DeleteProjections
  <2>3. IsDerived(graph, copies, projections)
    BY <2>1 DEF GraphStands
  <2> QED BY <2>1, <2>2, <2>3, DerivationsSettle DEF IInv, CopiesAreOfThePool
<1>4. RebuildSettles <=> [][Step]_vars
  BY PTL DEF RebuildSettles
<1> QED BY <1>2, <1>3, <1>4, Invariant, PTL DEF Spec

=============================================================================
