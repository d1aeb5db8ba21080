---------------------------- MODULE MCFieldAdmin ----------------------------
(***************************************************************************)
(* FieldAdmin on a small notebook: the settings, manifests and options     *)
(* that the runs choose from.                                              *)
(***************************************************************************)
EXTENDS FieldAdmin

Setting(profile, provider) ==
    [profile |-> profile, provider |-> provider, authority |-> "unset", path |-> "unset",
     secret_key |-> FALSE]

MCFieldIds == <<"mail">>

MCChoices ==
    {Setting("work", "unset"), Setting("work", "environment"), Setting("unset", "unset")}

OAuth == [kind |-> "oauth_authorization_code", profile_required |-> TRUE,
          channel_required |-> TRUE, refresh_owner |-> "core", scopes |-> TRUE]
NoAuth == [kind |-> "none", profile_required |-> FALSE, channel_required |-> FALSE,
           refresh_owner |-> "core", scopes |-> FALSE]

Manifest(auth, format, declared) ==
    [auth |-> auth, format |-> format, declared |-> declared, stem |-> TRUE, window |-> TRUE,
     modes |-> {"incremental"}]

MCManifests ==
    {Manifest(OAuth, 1, [subject |-> "text"]),
     Manifest(NoAuth, 1, [subject |-> "text", due |-> "date"]),
     Manifest(NoAuth, 2, [subject |-> "text"])}

MCOptions ==
    {[mode |-> "incremental", scope |-> FALSE, artifacts |-> TRUE, media_types |-> TRUE,
      window |-> 7, deadline |-> TRUE]}
=============================================================================
