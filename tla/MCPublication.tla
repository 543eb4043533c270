---------------------------- MODULE MCPublication ----------------------------
(* Publication for TLC: the settings that take different paths.            *)
EXTENDS Publication

Setting(convert, keepOriginal, subtitles, flagged) ==
  [convert |-> convert, keepOriginal |-> keepOriginal,
   subtitles |-> subtitles, flagged |-> flagged]

MCChoices == {Setting(FALSE, FALSE, TRUE, TRUE), Setting(TRUE, FALSE, TRUE, TRUE),
              Setting(TRUE, TRUE, FALSE, FALSE)}
=============================================================================
