----------------------------- MODULE MCOglWidget -----------------------------
(* A small instance of OglWidget for TLC.                                  *)
EXTENDS OglWidget
=============================================================================
