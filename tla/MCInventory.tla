----------------------------- MODULE MCInventory -----------------------------
(* Two stock numbers, three VINs, files and feeds of two rows; one demo car that *)
(* has the first stock number and the second VIN.                              *)
EXTENDS Inventory

CONSTANTS s1, s2, v1, v2, v3

MCDemo == <<[stock |-> s1, vin |-> v2, status |-> "available"]>>
=============================================================================
