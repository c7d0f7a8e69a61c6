---------------------------- MODULE MCYuvGlWidget ----------------------------
(* A small instance of YuvGlWidget for TLC.                                *)
EXTENDS YuvGlWidget
=============================================================================
