------------------------------- MODULE MCImport -------------------------------
(* Small instances of Import for TLC.  The runs differ in what the user    *)
(* does while a file is read, and in what the file holds.                  *)
EXTENDS Import
=============================================================================
