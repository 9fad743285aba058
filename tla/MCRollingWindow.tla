--------------------------- MODULE MCRollingWindow ---------------------------
(***************************************************************************)
(* Two CTB sizes, and pictures from a single short row to more rows than   *)
(* the SAO ring and the frames hold, with whole and with short last rows.  *)
(***************************************************************************)
EXTENDS RollingWindow

MCSizes == {16, 32}
MCHeights == {8, 16, 24, 48, 72, 88}
=============================================================================
