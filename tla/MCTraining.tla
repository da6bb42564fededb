----------------------------- MODULE MCTraining -----------------------------
(***************************************************************************)
(* An instance of OcrTrain for TLC: one value of -b for each way to train, *)
(* and the files of runs with and without a digit that has no picture or   *)
(* one that cannot be read.                                                *)
(***************************************************************************)
EXTENDS OcrTrain

EveryWay == {-1, 0, 2}

SomeNumerals == {<<<<TRUE>>, <<TRUE, TRUE>>>>, <<<<TRUE, TRUE>>, << >>>>,
                 <<<<TRUE>>, <<FALSE, TRUE>>>>}
=============================================================================
