--------------------------- MODULE MCTokenRefresh ---------------------------
(***************************************************************************)
(* The small instance of TokenRefresh for TLC.                             *)
(***************************************************************************)
EXTENDS TokenRefresh
=============================================================================
