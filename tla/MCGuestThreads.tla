--------------------------- MODULE MCGuestThreads ---------------------------
(***************************************************************************)
(* Instances of GuestThreads for TLC.                                      *)
(***************************************************************************)
EXTENDS GuestThreads

OneValue == {1}
=============================================================================
