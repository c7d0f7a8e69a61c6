------------------------------ MODULE MCCodecs ------------------------------
(* Small instances of Codecs for TLC.  Timestamps wrap after 21 units of    *)
(* time, the product with Rate never.                                       *)
EXTENDS Codecs
=============================================================================
