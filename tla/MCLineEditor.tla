---------------------------- MODULE MCLineEditor ----------------------------
(* LineEditor with two words that share a prefix and one that does not fit *)
(* the buffer.                                                             *)
EXTENDS LineEditor

CONSTANTS a, b

MCWords == {<<a, b>>, <<a, b, b, a>>, <<b, a>>}
=============================================================================
