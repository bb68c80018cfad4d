--------------------------- MODULE MCStatusFile ---------------------------
(***************************************************************************)
(* StatusFile for TLC: the values its constants inherit from LockedFile.   *)
(***************************************************************************)
EXTENDS StatusFile

MCLoads == {LoadStatus}
MCSkips == {AddWorker}

=============================================================================
