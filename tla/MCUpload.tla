------------------------------ MODULE MCUpload ------------------------------
(* Upload with two peers. *)
EXTENDS Upload
=============================================================================
