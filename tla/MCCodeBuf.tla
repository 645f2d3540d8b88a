----------------------------- MODULE MCCodeBuf ------------------------------
(* CodeBuf with pages of two fields and up to three of them, placed at one *)
(* of two addresses near each other, with one native near and one too far. *)
EXTENDS CodeBuf
=============================================================================
