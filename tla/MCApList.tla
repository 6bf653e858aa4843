------------------------------ MODULE MCApList ------------------------------
(* Three neighbours, a table of two entries and two overlapping 40 MHz      *)
(* channel settings: eviction, expiry, channel change and reset all happen. *)
EXTENDS ApList
=============================================================================
