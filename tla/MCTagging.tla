----------------------------- MODULE MCTagging ------------------------------
(***************************************************************************)
(* Small instances of Tagging for TLC.  Words with MaxKeywords = 1: a      *)
(* typed list is full with one word, an AI answer can add another.         *)
(***************************************************************************)
EXTENDS Tagging, TLC
=============================================================================
