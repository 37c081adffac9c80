--------------------------- MODULE MC_Migrations ---------------------------
(* The release of src/: STORAGE_VERSION 7, migrations v1..v7.  Every      *)
(* earlier release can have built the genesis block.                      *)
EXTENDS Migrations
=============================================================================
