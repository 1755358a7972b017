--------------------------- MODULE MCRegistration ---------------------------
(* Registration on small instances: the values of its constants are all in *)
(* the configurations. No symmetry of the customers: the run checks        *)
(* liveness too.                                                           *)
EXTENDS Registration

=============================================================================
