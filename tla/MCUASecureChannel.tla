------------------------- MODULE MCUASecureChannel -------------------------
(* Small instances of UASecureChannel for TLC. *)
EXTENDS UASecureChannel
=============================================================================
