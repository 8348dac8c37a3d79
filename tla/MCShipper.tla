----------------------------- MODULE MCShipper -----------------------------
(* Shipper for TLC: two invokes, each an intent and an outcome; the ends of *)
(* the interesting cases are a line that is torn, an answer that is lost,   *)
(* and a fault between emptying and writing the offset file.                *)
EXTENDS Shipper
=============================================================================
