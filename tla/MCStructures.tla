---------------------------- MODULE MCStructures ----------------------------
(***************************************************************************)
(* A small instance of Structures.                                         *)
(***************************************************************************)
EXTENDS Structures

(* Two key objects for each of three names.                                *)
MCKey == [name : 1..3, copy : 1..2]

(* Names 1 and 3 share a bucket.                                           *)
MCHash(name) == name + 4

(* Elements 10 and 11 have the same rank.                                  *)
MCRank(e) == e \div 10
=============================================================================
