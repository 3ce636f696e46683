------------------------- MODULE MCCommandDelivery --------------------------
(***************************************************************************)
(* A command that writes one chunk, of one or two characters or not        *)
(* UTF-8, through a pipe that holds one, and may leave a background        *)
(* process that writes one more; a buffer and a preview of two characters, *)
(* so that both overflow.                                                  *)
(***************************************************************************)
EXTENDS CommandDelivery, TLC

(* Success and failure. *)
MCExitCodes == {0, 1}
=============================================================================
