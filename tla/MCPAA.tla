-------------------------------- MODULE MCPAA --------------------------------
(***************************************************************************)
(* Model values for PAACounters: two values, one of them negative, and up  *)
(* to four values per interval (the even median of four included).        *)
(***************************************************************************)
EXTENDS PAACounters

MCValues == {-2, 4}
=============================================================================
