---------------------------- MODULE MCBackOffice ----------------------------
(***************************************************************************)
(* Small instances of BackOffice.                                          *)
(***************************************************************************)
EXTENDS BackOffice
=============================================================================
