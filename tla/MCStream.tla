------------------------------ MODULE MCStream ------------------------------
(* Answers of up to six chunks and two calls: text and reasoning on either *)
(* side of a call, a call in three pieces, two calls at once, interleaved  *)
(* or one after the other.                                                 *)
EXTENDS Stream
=============================================================================
