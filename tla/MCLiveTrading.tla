--------------------------- MODULE MCLiveTrading ---------------------------
(***************************************************************************)
(* Small instances of LiveTrading for TLC.                                 *)
(***************************************************************************)
EXTENDS LiveTrading

=============================================================================
