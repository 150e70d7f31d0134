---------------------------- MODULE MCWriterMarker ----------------------------
(***************************************************************************)
(* WriterMarker on a small instance: the daemon with its lexical worker    *)
(* thread, and an indexing core in a process of its own.                   *)
(***************************************************************************)
EXTENDS WriterMarker

CONSTANTS main, worker, core, daemon, indexer

MCHome == [w \in Writers |-> IF w = core THEN indexer ELSE daemon]

=============================================================================
