---------------------------- MODULE MCFileSystem ----------------------------
(* Three names in a small heap, in which about three files find room. *)
EXTENDS FileSystem
CONSTANTS A, B, C
=============================================================================
