----------------------------- MODULE MCArchive -----------------------------
(* Instances of Archive for TLC. *)
EXTENDS Archive

Named(stem, marks, ext) == [stem |-> stem, number |-> 0, marks |-> marks, ext |-> ext]

Selectable ==
    {Named("a", <<>>, "x"), Named("A", <<>>, "x"), Named("a", <<1>>, "x"),
     Named("", <<>>, "")}

LowerCase(s) == IF s = "A" THEN "a" ELSE s
=============================================================================
