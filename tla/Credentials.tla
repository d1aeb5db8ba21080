---------------------------- MODULE Credentials ----------------------------
(***************************************************************************)
(* Which credential a Field uses and how core obtains an access token for  *)
(* it: the Field's configuration keys, its manifest's authentication       *)
(* declaration, the two credential providers, the token endpoint and the   *)
(* loopback redirect of an interactive authorization.                      *)
(*                                                                         *)
(* A refresh token is a record of the account that signed in and a serial  *)
(* number, and of the Field whose login stored it (history); the endpoint  *)
(* honours the tokens in `live`.  A configuration value is the class the   *)
(* code puts it in.                                                        *)
(***************************************************************************)
EXTENDS Naturals, FiniteSets

CONSTANTS
    Profiles,       \* the profile names that parse
    Accounts,       \* the accounts a person may sign in as
    None            \* nothing there

(***************************************************************************)
(* Configuration.  "unset": there is no such key.                          *)
(***************************************************************************)
SettingsOf(profiles) ==
    [profile : profiles, provider : {"unset", "keychain", "environment", "other"},
     authority : {"unset", "https", "http"}, path : {"unset", "slash", "bare"},
     secret_key : BOOLEAN]
Settings == SettingsOf(Profiles \cup {"unset", "invalid"})

Declares(s) == s.profile # "unset"

SettingsResolve(s) ==
    /\ s.profile \in Profiles
    /\ s.provider # "other"
    /\ s.authority # "http"
    /\ s.path # "bare"

\* An override that nothing would read is a mistake as well.
ValidSettings(s) ==
    IF Declares(s) THEN SettingsResolve(s)
    ELSE s.provider = "unset" /\ s.authority = "unset" /\ s.path = "unset"

\* Keys shaped like a credential are refused whenever the file is written.
Writable(s) == ~s.secret_key

Provider(s) == IF s.provider = "environment" THEN "environment" ELSE "keychain"

(***************************************************************************)
(* A manifest's authentication declaration.                                *)
(***************************************************************************)
AuthKinds == {"none", "oauth_authorization_code", "oauth_device_code", "other"}
AuthDeclarations ==
    [kind : AuthKinds, profile_required : BOOLEAN, channel_required : BOOLEAN,
     refresh_owner : {"core", "field"}, scopes : BOOLEAN]

RequirementOf(auth) ==
    IF auth.kind = "none" /\ ~auth.profile_required /\ ~auth.channel_required THEN "not_required"
    ELSE IF auth.kind = "oauth_authorization_code" /\ auth.refresh_owner = "core" /\ auth.scopes
         THEN "required" ELSE "unsupported"

(***************************************************************************)
(* Providers.  The environment variable is set out of band.                *)
(***************************************************************************)
Held(s, keychain, variable) ==
    IF Provider(s) = "environment" THEN variable ELSE keychain[s.profile]

\* retrieve, when the store answers
Retrieved(s, keychain, variable) ==
    IF Held(s, keychain, variable) = None THEN "absent" ELSE "stored"

CanStore(s) == Provider(s) = "keychain"

CredentialState(s, needed, keychain, variable) ==
    IF ~Declares(s) THEN IF needed THEN "not_configured" ELSE "not_required"
    ELSE IF ~SettingsResolve(s) THEN "not_configured"
    ELSE Retrieved(s, keychain, variable)

(***************************************************************************)
(* The token endpoint.  A 2xx body is parsed, anything else is classified  *)
(* by its `error` member; a body that is neither is a backend failure, and *)
(* no response at all leaves the store unavailable.                        *)
(***************************************************************************)
OauthError(error) ==
    CASE error = "invalid_grant_expired" -> "expired"
      [] error = "invalid_grant" -> "revoked"
      [] error = "access_denied" -> "denied"
      [] error = "other_error" -> "backend"

Parsed(reply) == IF reply = "tokens" THEN "ok" ELSE "backend"

Classify(reply) ==
    IF reply = "no_response" THEN "unavailable"
    ELSE IF reply \in {"tokens", "unparsed"} THEN Parsed(reply) ELSE OauthError(reply)

\* What the endpoint may answer to a grant it honours, and to one it does not.
RepliesTo(honoured) ==
    IF honoured THEN {"tokens", "unparsed", "access_denied", "other_error", "no_response"}
    ELSE {"invalid_grant_expired", "invalid_grant", "other_error", "no_response"}

(***************************************************************************)
(* The loopback redirect.  One connection is accepted, whoever makes it;   *)
(* its request line, its path, its state, an error and a missing code are  *)
(* looked at in this order.                                                *)
(***************************************************************************)
Connections ==
    [arrives : BOOLEAN, get : BOOLEAN, path : BOOLEAN, state : BOOLEAN,
     error : BOOLEAN, code : BOOLEAN]

Accepted(c) == c.arrives
Query(c) == c.get /\ c.path

Callback(c) ==
    CASE ~Accepted(c) -> "timeout"
      [] Accepted(c) /\ ~Query(c) -> "malformed"
      [] Accepted(c) /\ Query(c) /\ ~c.state -> "state_mismatch"
      [] Accepted(c) /\ Query(c) /\ c.state /\ c.error -> "denied"
      [] Accepted(c) /\ Query(c) /\ c.state /\ ~c.error ->
             IF c.code THEN "code" ELSE "missing_code"

\* The account an ID token names: its first claim that is a usable label, or
\* nobody when there is no ID token, or none can be read from it.
AccountOf(owner, usable_claim) == IF usable_claim THEN owner ELSE None
=============================================================================
