------------------------------ MODULE MCFilter ------------------------------
(* Filter with the values given in the .cfg files. *)
EXTENDS Filter

=============================================================================
