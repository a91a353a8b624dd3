---------------------------- MODULE MCStatistics ----------------------------
(***************************************************************************)
(* Tables of three columns and up to eight rows for TLC: long enough for   *)
(* the first outliers (eight values).  The first column has a value far    *)
(* out, the second a negative number, a gap and a value that is not        *)
(* finite, the third the other values that are none and a text.            *)
(***************************************************************************)
EXTENDS Statistics

MCRows == {<<0, 7, 5>>, <<1, -3, NaN>>, <<9, NULL, PosInf>>, <<4, NegInf, Text>>}
=============================================================================
