--------------------------- MODULE MCWorkflowRun ----------------------------
(* Instances of WorkflowRun for TLC.                                         *)
EXTENDS WorkflowRun

CONSTANTS s1, s2, c1, search, edit, k1, k2

(* s1 and s2 are one server call under two spellings of its tool's name.      *)
MCToolOf == [c \in Calls |-> IF c = c1 THEN edit ELSE search]
MCKeyOf == [c \in Calls |-> IF c = c1 THEN k2 ELSE k1]

MCChunks == {
  <<c1>>, <<"text", "<call>">>, <<"</call>", "text">>,
  <<"<call>", c1, "</call>", "<call>", s1>>,
  <<"{", c1>>, <<"}", "{", s1, "}">>, <<"[CALLS]", c1, "]">>, <<"<ca">>, <<"ll>">>}

MCWholes == {<< >>, <<"text", "{", c1, "}", "text">>}

(* s2 and c1 come without an identifier.                                      *)
MCAnswers == {<< >>, <<s1, s2>>, <<s2, c1>>}
=============================================================================
