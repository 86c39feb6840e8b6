------------------------------- MODULE MCTree -------------------------------
(* Instances of Tree for TLC. *)
EXTENDS Tree

\* Three levels: folders a and a/b can be moved or copied onto b with what they
\* hold, and items can be moved up, down and across
SmallPaths == {<<"a">>, <<"b">>, <<"a", "c">>, <<"b", "c">>, <<"a", "b">>, <<"a", "b", "c">>}
=============================================================================
