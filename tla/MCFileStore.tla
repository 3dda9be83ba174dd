---------------------------- MODULE MCFileStore ----------------------------
(***************************************************************************)
(* Instances of FileStore for TLC.                                         *)
(***************************************************************************)
EXTENDS FileStore

CONSTANTS w1, w2, r1, r2

TwoWriters == {w1, w2}
TwoReaders == {r1, r2}
OneWriter == {w1}
OneReader == {r1}
===========================================================================
