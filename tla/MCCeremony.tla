----------------------------- MODULE MCCeremony -----------------------------
(* A group of five elements; the x of 2 * G and 3 * G is beyond the order. *)
EXTENDS Ceremony

MCXCoord == <<3, 6, 6, 3>>

MCYOdd == <<FALSE, TRUE, FALSE, TRUE>>
=============================================================================
