------------------------------ MODULE MCAsync ------------------------------
EXTENDS AsyncProgress
(* The model-checking instance of AsyncProgress; the .cfg files give the   *)
(* constants.                                                              *)
=============================================================================
