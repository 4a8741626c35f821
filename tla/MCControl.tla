----------------------------- MODULE MCControl ------------------------------
(* Three units (top, middle, bottom) with buffers for one or two data.      *)
EXTENDS Control

MCCap == [i \in CB |-> IF i = 1 THEN 1 ELSE 2]
=============================================================================
