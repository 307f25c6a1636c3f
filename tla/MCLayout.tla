------------------------------ MODULE MCLayout ------------------------------
(***************************************************************************)
(* Layout for TLC: a header of one byte, an index of up to one, and every  *)
(* arrangement of up to MaxEntries chunks in what follows.                 *)
(***************************************************************************)
EXTENDS Layout, SequencesExt

CONSTANTS FileSize, MaxEntries

\* Chunks of the archive itself, one of a nested archive, an unreadable one.
OwnChunks ==
    {c \in [offset : 1 .. FileSize, header : {2, 3}, payload : 0 .. 2, depth : {0},
            readable : {TRUE}] : End(c) <= FileSize}
OtherChunks ==
    [offset : {2, 4, FileSize + 1}, header : {2}, payload : {2}, depth : {1},
     readable : {TRUE}]
      \cup [offset : {0}, header : {0}, payload : {0}, depth : {0, 1},
            readable : {FALSE}]

Parsed ==
    [size : {FileSize}, chunk_start : {1, 2},
     entries : BoundedSeq(OwnChunks, MaxEntries)
                 \cup {<<c, d>> \o <<e>> : c, d \in OwnChunks, e \in OtherChunks},
     extension_offset : 1 .. FileSize, extension_size : {0, 1}]

NotParsed ==
    [size : 0 .. FileSize, chunk_start : {0}, entries : {<<>>},
     extension_offset : {0}, extension_size : {0}]

\* Without an extension its offset is not looked at: one value of it will do.
MCManifests ==
    {m \in Parsed \cup NotParsed :
       /\ Inspected(m)
       /\ m.extension_size = 0 /\ m.chunk_start # 0 =>
             m.extension_offset = m.chunk_start}
=============================================================================
