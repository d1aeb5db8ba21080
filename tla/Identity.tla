------------------------------ MODULE Identity ------------------------------
(***************************************************************************)
(* Identity anchors: the declared namespaces, how a raw value is           *)
(* normalized in each, and what is refused.                                *)
(*                                                                         *)
(* A raw value is the value it stands for, the namespace prefix it carries *)
(* and the form it is spelt in; a form is what the rules tell apart.       *)
(* Values and scopes are numbered in their order.                          *)
(***************************************************************************)
EXTENDS Naturals, Sequences, FiniteSets

CONSTANTS
    Declared,       \* bound: the namespaces a connector declares besides v1, with their policies
    None            \* nothing there

\* "plain" is what the rules produce; "cased" has upper case, "padded" blanks
\* around it, "bracketed" angle brackets, "dotted" one final dot, "spaced" a
\* blank or a control character inside, "national" digits without a country,
\* "words" anything else.
Forms == <<"plain", "cased", "padded", "bracketed", "dotted", "spaced", "national",
           "words", "empty", "long">>
FormRank(raw) == CHOOSE i \in DOMAIN Forms : Forms[i] = raw.form

Refused(reason) == [ok |-> FALSE, reason |-> reason]
Is(value) == [ok |-> TRUE, value |-> value]

\* A value the rule leaves as it is spelt is another value than the plain one.
Unfolded == 100
AsSpelt(raw) == Is(IF raw.form \in {"plain", "padded"} THEN raw.value ELSE raw.value + Unfolded)

NormalizeEmail(raw) ==
    IF raw.form \in {"plain", "padded", "cased", "bracketed", "dotted"} THEN Is(raw.value)
    ELSE Refused("malformed-email")

NormalizePhone(raw) ==
    IF raw.form = "national" THEN Refused("insufficient-country-context")
    ELSE IF raw.form \in {"plain", "padded", "spaced", "dotted"} THEN Is(raw.value)
    ELSE Refused("malformed-phone")

NormalizeDomain(raw) ==
    IF raw.form \in {"plain", "padded", "cased", "dotted"} THEN Is(raw.value)
    ELSE Refused("malformed-domain")

NormalizeDigest(raw) ==
    IF raw.form \in {"plain", "padded"} THEN Is(raw.value) ELSE Refused("malformed-digest")

NormalizeOpaque(raw) ==
    IF raw.form = "spaced" THEN Refused("malformed-token") ELSE AsSpelt(raw)

Apply(rule, raw) ==
    IF raw.form = "empty" THEN Refused("empty-value")
    ELSE IF raw.form = "long" THEN Refused("value-too-long")
    ELSE CASE rule = "email" -> NormalizeEmail(raw)
           [] rule = "phone" -> NormalizePhone(raw)
           [] rule = "domain" -> NormalizeDomain(raw)
           [] rule = "digest" -> NormalizeDigest(raw)
           [] rule = "opaque" -> NormalizeOpaque(raw)

(***************************************************************************)
(* The registry: the v1 namespaces, and a connector's over them.           *)
(***************************************************************************)
Policy(class, rule, kind) == [class |-> class, rule |-> rule, kind |-> kind]
RequiresScope(class) == class \in {"authority-scoped", "namespace-scoped"}

V1 == [namespace \in {"artifact-sha256", "domain", "email", "phone"} |->
          CASE namespace = "artifact-sha256" -> Policy("source-global", "digest", "artifact")
            [] namespace = "domain" -> Policy("source-global", "domain", "organization")
            [] namespace = "email" -> Policy("normalized-channel", "email", "person")
            [] namespace = "phone" -> Policy("normalized-channel", "phone", "person")]

Registry == [namespace \in DOMAIN Declared \cup DOMAIN V1 |->
                IF namespace \in DOMAIN Declared THEN Declared[namespace] ELSE V1[namespace]]

KindOf(key) == Registry[key.namespace].kind

\* Two keys of one value in different scopes are different keys.
Key(namespace, scope, value) == [namespace |-> namespace, scope |-> scope, value |-> value]

\* Namespace, then scope (none first), then value.
Order == <<"artifact-sha256", "domain", "email", "graph-user", "phone">>

\* A connector declares namespaces that have a place in the order, under rules there are.
ASSUME DeclaredAssumption ==
    /\ DOMAIN Declared \subseteq {Order[i] : i \in DOMAIN Order}
    /\ \A n \in DOMAIN Declared : Declared[n].rule \in {"email", "phone", "domain", "digest", "opaque"}

Rank(namespace) == CHOOSE i \in 1..Len(Order) : Order[i] = namespace
ScopeRank(scope) == IF scope = None THEN 0 ELSE scope
KeyLess(a, b) ==
    \/ Rank(a.namespace) < Rank(b.namespace)
    \/ /\ a.namespace = b.namespace
       /\ \/ ScopeRank(a.scope) < ScopeRank(b.scope)
          \/ a.scope = b.scope /\ a.value < b.value

IsPublishable(key) == key.scope = None

\* An anchor of an `identities` list, in the scope its Note declares.
ParseAnchor(raw, scope) ==
    IF raw.prefix = None THEN Refused("missing-namespace")
    ELSE IF raw.prefix = "not a token" THEN Refused("malformed-namespace")
    ELSE IF raw.prefix \notin DOMAIN Registry THEN Refused("unknown-namespace")
    ELSE LET policy == Registry[raw.prefix]   value == Apply(policy.rule, raw) IN
         IF ~value.ok THEN value
         ELSE IF ~RequiresScope(policy.class) THEN Is(Key(raw.prefix, None, value.value))
         ELSE IF scope = None THEN Refused("scope-required")
         ELSE Is(Key(raw.prefix, scope, value.value))

LooksLikeNationalNumber(raw) == raw.form = "national"

\* A bare value of a role property: an address has an @ sign in it, a number
\* begins with a plus sign, and nothing else is guessed at.
NormalizeChannelValue(raw) ==
    LET tried(namespace) ==
            LET value == Apply(Registry[namespace].rule, raw) IN
            IF value.ok THEN Is(Key(namespace, None, value.value)) ELSE value IN
    IF raw.sign = "at" THEN tried("email")
    ELSE IF raw.sign = "plus" THEN tried("phone")
    ELSE IF LooksLikeNationalNumber(raw) THEN Refused("insufficient-country-context")
    ELSE Refused("weak-descriptive-value")

\* The comparison key of a display name; nothing visible has none.
NormalizedDisplayName(raw) == IF raw.form = "empty" THEN None ELSE raw.value
=============================================================================
