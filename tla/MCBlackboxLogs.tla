--------------------------- MODULE MCBlackboxLogs ---------------------------
(* Small instances of BlackboxLogs for TLC: two folders, the second one empty. *)
EXTENDS BlackboxLogs

CONSTANTS d1, d2

MCDirs == {d1, d2}
MCNums == 1 .. 4
MCCaps == {0, 1, 2}
=============================================================================
