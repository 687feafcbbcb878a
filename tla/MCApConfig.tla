----------------------------- MODULE MCApConfig -----------------------------
(* A small instance of ApConfig: limits of 2 for the name, 2 to 3 for the  *)
(* password, every string up to that length and every one that is longer   *)
(* by one and begins with ink.                                             *)
EXTENDS ApConfig, SequencesExt

Short   == SeqOf({"x", Blank}, PassMax)
MCTexts == Short \cup {<<"x">> \o t : t \in Short}
MCSsid  == <<"d">>
MCPass  == <<"d", "d">>
=============================================================================
