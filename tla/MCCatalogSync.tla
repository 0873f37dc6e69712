---------------------------- MODULE MCCatalogSync ----------------------------
(* An instance of CatalogSync for TLC.                                     *)
EXTENDS CatalogSync
=============================================================================
