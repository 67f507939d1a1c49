----------------------------- MODULE MCStatusHub -----------------------------
(***************************************************************************)
(* StatusHub with two overlays and channels of two reports.                *)
(***************************************************************************)
EXTENDS StatusHub
=============================================================================
