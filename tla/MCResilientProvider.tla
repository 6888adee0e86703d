------------------------ MODULE MCResilientProvider ------------------------
(* Model-checking instance of ResilientProvider.                             *)
EXTENDS ResilientProvider
=============================================================================
