---------------------------- MODULE MCFileSystem ----------------------------
(* A directory with one file in it: the smallest tree in which operations on *)
(* different paths, and so under different mutexes, meet on the disk.        *)
EXTENDS FileSystem, TLC

CONSTANTS f1, d1

MCUnder == (d1 :> {f1})
=============================================================================
