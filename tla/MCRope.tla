-------------------------------- MODULE MCRope --------------------------------
(* Rope with a first block of three bytes, so that pushes of up to five    *)
(* characters fit, just fit, miss by the terminator alone, and need one or *)
(* two doublings.                                                          *)
EXTENDS Rope

MCTexts == {<<>>, <<"a">>, <<"b", "a">>, <<"a", "a", "b", "b", "a">>}
===============================================================================
