-------------------------------- MODULE MCCatalogue --------------------------------
(***************************************************************************)
(* A small instance of Catalogue: two refreshes, two tools.                *)
(***************************************************************************)
EXTENDS Catalogue

CONSTANTS t1, t2, f1, f2
=============================================================================
