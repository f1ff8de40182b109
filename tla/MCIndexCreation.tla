-------------------------- MODULE MCIndexCreation --------------------------
(* IndexCreation on small instances; the sizes are in the cfg files.       *)
EXTENDS IndexCreation
=============================================================================
