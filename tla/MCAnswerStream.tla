--------------------------- MODULE MCAnswerStream ---------------------------
(* Instances of AnswerStream for TLC.                                        *)
EXTENDS AnswerStream

CONSTANTS edit, browser

(* A bound tool is called, one that is not, or both.                          *)
MCCallLists == {<< >>, <<edit>>, <<browser>>, <<edit, browser>>}
=============================================================================
