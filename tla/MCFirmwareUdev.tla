--------------------------- MODULE MCFirmwareUdev ---------------------------
(* A small instance of FirmwareUdev: one file that needs two pages, the     *)
(* second one not full, and one name without a file.                        *)
EXTENDS FirmwareUdev, TLC

CONSTANTS found, missing

MCNames    == {found, missing}
MCFound    == {found}
MCTimeouts == {60, -1}
MCFileSize == found :> 3
=============================================================================
