------------------------------ MODULE MCCtrlPath ------------------------------
(* TLC instances of CtrlPath with two stages: one table of each kind is      *)
(* addressed, from the first row and from the last value of the index        *)
(* register.                                                                 *)
EXTENDS CtrlPath

AllHeaders == {<<<<1, "parse">>, IndexMod - 1>>, <<<<2, "mask">>, 0>>,
               <<<<3, "cam">>, IndexMod - 1>>, <<<<5, "act">>, 1>>,
               <<<<6, "parse">>, 0>>, <<Nobody, 0>>}

NoLookalikes == {<<Nobody, 0>>}

\* Packets for the deparser, with a payload beat that reads like a header for
\* the parser, which it passes on its way.
LastHeader == {<<<<6, "parse">>, 0>>}
FirstLookalike == {<<Nobody, 0>>, <<<<1, "parse">>, 0>>}
=============================================================================
