--------------------------- MODULE MCDriveFilter ---------------------------
(* A partition of five sectors and blocks of two: encryption ends with a
   short block, and decryption, which starts at the end, cuts other blocks. *)
EXTENDS DriveFilter

FiveSectors == 1..5
NoHeaderFaults == {"read", "write", "undo"}
HeaderFaults == {"header"}
=============================================================================
