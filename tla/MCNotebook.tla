----------------------------- MODULE MCNotebook -----------------------------
(* A small notebook: what note and collect are given, one input for each    *)
(* way the format can refuse or keep it.                                    *)
EXTENDS Notebook

Typed == [cmd |-> "note", field |-> "self", type |-> "text", occurred |-> "moment",
          body |-> <<"w">>, title |-> FALSE, retained |-> {}, audio |-> FALSE]
Event == [cmd |-> "collect", field |-> "local_docs", type |-> "document", occurred |-> "moment",
          body |-> <<"w">>, retained |-> {}, skipped |-> FALSE, lost |-> "none", props |-> <<>>]
Prop(k, shape, list, items) == [x \in {k} |-> [shape |-> shape, list |-> list, items |-> items]]

NoteInputs ==
  {[Typed EXCEPT !.body = <<"bom", "cr", "lf", "sp", "w", "cr">>],
   [Typed EXCEPT !.body = <<"sp", "lf">>],
   [Typed EXCEPT !.body = <<"bom", "bom", "w">>],
   [Typed EXCEPT !.occurred = "first day", !.title = TRUE],
   [Typed EXCEPT !.type = "voice", !.body = <<>>, !.retained = {"sound"}, !.title = TRUE, !.audio = TRUE],
   [Typed EXCEPT !.type = "voice", !.retained = {"sound"}]}
EventInputs ==
  {[Event EXCEPT !.body = <<"w", "lf", "sp">>, !.retained = {"sound"}, !.skipped = TRUE, !.lost = "whole"],
   [Event EXCEPT !.body = <<"lf", "w">>],
   [Event EXCEPT !.lost = "huge"],
   [Event EXCEPT !.props = Prop("title", "text", FALSE, <<"day">>)],
   [Event EXCEPT !.props = Prop("local_path", "text", FALSE, <<"null">>)],
   [Event EXCEPT !.props = Prop("local_size", "number", FALSE, <<"huge">>)],
   [Event EXCEPT !.props = Prop("local_tags", "text", TRUE, <<"word", "padded">>)],
   [Event EXCEPT !.props = Prop("skipped_attachments", "text", TRUE, <<"word">>), !.skipped = TRUE],
   [Event EXCEPT !.props = Prop("started_at", "text", FALSE, <<"trip">>)],
   [Event EXCEPT !.props = Prop("teams_chat", "text", FALSE, <<"word">>)]}
Sym == Permutations(Procs)
AllInputs == NoteInputs \cup EventInputs
=============================================================================
