---------------------------- MODULE MC_Dataport ----------------------------
(* Instances of Dataport: a page of four bytes, two letters and EofByte.   *)
EXTENDS Dataport

MCBytes    == {0, 1, 2, 255}
MCLengths  == {2, 4}
MCInputs   == {<<>>, <<1>>, <<2, 0, 1>>, <<255, 2>>, <<2, 2, 2, 2>>}
MCTexts    == {<<1>>, <<1, 2, 1>>, <<2, 2, 1, 1>>}
MCMessages == {<<>>, <<2, 1>>, <<1, 2, 2, 2>>}
=============================================================================
