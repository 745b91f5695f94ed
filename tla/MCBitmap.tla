------------------------------ MODULE MCBitmap ------------------------------
(***************************************************************************)
(* Bitmap instantiated for TLC.                                            *)
(***************************************************************************)
EXTENDS Bitmap

=============================================================================
