----------------------------- MODULE MCArchive ------------------------------
(* d/e/f, an empty d/e/x, and g beside the archive; g may be longer than   *)
(* an int.                                                                 *)
EXTENDS Archive

MCParent == [n \in {"d", "e", "f", "g", "x", "bin"} |->
               CASE n = "e" -> "d" [] n \in {"f", "x"} -> "e" [] OTHER -> "."]
MCArguments == {<<"d", "g">>, <<"g", "d">>, <<"e">>, <<"f", "g">>, <<"d", "f">>, <<".">>}
=============================================================================
