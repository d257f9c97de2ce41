----------------------------- MODULE MCCatalog ------------------------------
(* Small instances of Catalog for TLC.                                       *)
EXTENDS Catalog
CONSTANT k1
=============================================================================
