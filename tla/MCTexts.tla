------------------------------- MODULE MCTexts ------------------------------
(***************************************************************************)
(* Texts for TLC: decimal and hexadecimal digits, a letter that is none,   *)
(* a dash, blanks and line feeds.                                          *)
(***************************************************************************)
EXTENDS Texts

MCAlphabet ==
  { [chars |-> {"1", "A", "x", "dash", "sp", "lf"}, length |-> 5],
    [chars |-> {"1", "x", "sp"}, length |-> 8],
    [chars |-> {"1", "2"}, length |-> 9] }
=============================================================================
