---------------------------- MODULE MCRedaction ----------------------------
EXTENDS Redaction

(* presidio and the entropy layer reporting anything, on a text with and   *)
(* without a character of two bytes; and, orderly, these two with GLiNER.  *)
MCPipelines ==
  {[units |-> <<"bytes", "runes">>, orderly |-> FALSE, cont |-> c] : c \in {{}, {1}}}
  \cup {[units |-> <<"bytes", "runes", "runes">>, orderly |-> TRUE, cont |-> {}]}

(* One layer, presidio, whose patterns may overlap. *)
OneLayer == {[units |-> <<"bytes">>, orderly |-> FALSE, cont |-> {}]}

(* presidio and the entropy layer on a text that begins with "e acute". *)
Accented == {[units |-> <<"bytes", "runes">>, orderly |-> TRUE, cont |-> {1}]}
=============================================================================
