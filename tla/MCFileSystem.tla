---------------------------- MODULE MCFileSystem ----------------------------
(* Instances of FileSystem for TLC. *)
EXTENDS FileSystem

CONSTANTS f, g, writer, r1

\* With sectors of two bytes and files of three: a part of the first,
\* over the boundary, all of the file, with ends beyond the file.
MCReads == {<<1, 3>>, <<2, 1>>}
MCWrites == {<<0, 1>>, <<1, 2>>, <<0, 4>>}
=============================================================================
