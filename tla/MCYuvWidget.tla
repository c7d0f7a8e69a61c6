----------------------------- MODULE MCYuvWidget -----------------------------
(* A small instance of YuvWidget for TLC.                                  *)
EXTENDS YuvWidget
=============================================================================
