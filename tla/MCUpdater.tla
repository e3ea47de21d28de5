----------------------------- MODULE MCUpdater ------------------------------
(***************************************************************************)
(* The updater for TLC: versions that differ in each field and in the      *)
(* pre-release alone, and two spellings of a tag.                          *)
(***************************************************************************)
EXTENDS Updater

Version(major, minor, patch, pre) ==
  [major |-> major, minor |-> minor, patch |-> patch, pre |-> pre]

MCVersions == {Version(0, 9, 9, 0), Version(1, 0, 0, 1), Version(1, 0, 0, 2),
               Version(1, 0, 0, 0), Version(1, 0, 1, 0), Version(1, 1, 0, 0),
               Version(2, 0, 0, 1)}
=============================================================================
