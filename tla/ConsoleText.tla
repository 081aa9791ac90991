----------------------------- MODULE ConsoleText ----------------------------
(***************************************************************************)
(* What socket_mdg_chat_output_fprintf, the same in mdg_unix_main.c and    *)
(* mdg_windows_main.c, makes of a text before it sends it: a carriage      *)
(* return in front of each line feed.  Both are written at the place of    *)
(* the line feed and the one behind it, so what stood there is passed over.*)
(***************************************************************************)
EXTENDS Naturals, Sequences, SequencesExt

ConvertNext(done, c) ==
  IF done.skip THEN [done EXCEPT !.skip = FALSE]
  ELSE IF c = "lf" THEN [out |-> done.out \o <<"cr", "lf">>, skip |-> TRUE]
  ELSE [done EXCEPT !.out = Append(@, c)]

ConvertedBare(text) == [i \in 1 .. Len(text) |-> IF text[i] = "lf" THEN "cr" ELSE text[i]]

Converted(text) ==
  LET done[k \in 0 .. Len(text)] ==
        IF k = 0 THEN [out |-> <<>>, skip |-> FALSE]
        ELSE ConvertNext(done[k - 1], text[k])
  IN  done[Len(text)].out
=============================================================================
