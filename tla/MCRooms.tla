------------------------------- MODULE MCRooms -------------------------------
(***************************************************************************)
(* Rooms for model checking: the .cfg files name all its constants.        *)
(***************************************************************************)
EXTENDS Rooms

=============================================================================
