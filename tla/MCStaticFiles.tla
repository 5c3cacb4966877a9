------------------------------ MODULE MCStaticFiles ------------------------------
(* StaticFiles with three requests for a file of up to three bytes that       *)
(* changes under them, and a walk over a directory of five names by pages of  *)
(* two.                                                                       *)
EXTENDS StaticFiles
=============================================================================
