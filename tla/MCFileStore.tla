---------------------------- MODULE MCFileStore ----------------------------
(***************************************************************************)
(* Instances of FileStore for TLC: the crash windows that are open.        *)
(***************************************************************************)
EXTENDS FileStore

Closed == {}

=============================================================================
