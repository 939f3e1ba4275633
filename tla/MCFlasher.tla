----------------------------- MODULE MCFlasher -----------------------------
(* An instance of Flasher for TLC. *)
EXTENDS Flasher
=============================================================================
