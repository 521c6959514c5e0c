----------------------------- MODULE MCGuestTTL -----------------------------
(* Small instances of GuestTTL for TLC.                                    *)
EXTENDS GuestTTL, TLC

Symmetry == Permutations(Handler)
=============================================================================
