--------------------------- MODULE MCIdentityGraph ---------------------------
(***************************************************************************)
(* The copies of the notebook for TLC: mails that name Ann and Bob by      *)
(* address or only by name, contact records that join their anchors and    *)
(* disagree, a chat with a scoped identity, and copies that diverge.       *)
(***************************************************************************)
EXTENDS IdentityGraph

Raw(prefix, value, form, sign) ==
    [prefix |-> prefix, value |-> value, form |-> form, sign |-> sign]
Email(value, form) == Raw("email", value, form, "at")
Phone(value, form) == Raw("phone", value, form, "plus")
Name(value) == Raw(None, value, "words", None)
User(value) == Raw("graph-user", value, "plain", None)

Plain ==
    [scope |-> 1, identity |-> None, at |-> 1, contact |-> FALSE, identities |-> {}, roles |-> {},
     title |-> None, artifacts |-> {}, attachments |-> {}, thread |-> None, conversation |-> None]

Mail == [Plain EXCEPT !.identity = 1, !.thread = Name(5), !.artifacts = {1}, !.attachments = {1, 0},
                      !.identities = {Email(1, "cased")},
                      !.roles = {<<"from", Email(1, "plain")>>, <<"to", Email(2, "bracketed")>>}]
Undated == [Mail EXCEPT !.at = None]
Ann == [Plain EXCEPT !.identity = 2, !.contact = TRUE, !.title = Name(7),
                     !.identities = {Email(1, "plain"), Phone(1, "spaced")}]
Bob == [Plain EXCEPT !.scope = None, !.contact = TRUE, !.title = Name(8), !.artifacts = {1},
                     !.conversation = Name(6), !.identities = {Email(2, "plain"), Phone(1, "plain"),
                                                               Raw("domain", 1, "dotted", None)}]
Chat == [Plain EXCEPT !.identity = 4, !.at = 2, !.identities = {User(4), Phone(2, "national")},
                      !.roles = {<<"participants", Email(1, "padded")>>, <<"participants", Name(7)>>}]

Copy(id, field, content) == [id |-> id, field |-> field, content |-> content]
Copies ==
    {Copy(1, "mail", Mail), Copy(2, "mail", Undated), Copy(2, "chat", Chat), Copy(3, "contacts", Ann),
     Copy(4, "other", Ann), Copy(5, "contacts", Bob)}

Channels == [f \in {"mail", "contacts"} |-> f]
Connector == [n \in {"graph-user"} |-> Policy("authority-scoped", "opaque", "person")]
=============================================================================
