------------------------ MODULE MCIncrementalRestore ------------------------
(* The names of IncrementalRestore's instances.                               *)
EXTENDS IncrementalRestore
MCNames == <<"a", "b">>
=============================================================================
