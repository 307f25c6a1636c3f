---------------------------- MODULE MCContainer -----------------------------
(***************************************************************************)
(* Container and CheckedReader for TLC. A varint's digit has four values,  *)
(* so that a payload or a name of four bytes needs a longer one, and one   *)
(* of three bytes can exceed Word. The foreign bytes are an index of one   *)
(* entry, or the beginning of one, behind a good header, an entry with     *)
(* every offset, headers cut short or changed, and, for CheckedReader,     *)
(* varints without any. Names are equal, the default name, or below        *)
(* another. 4 is "/", 5 is "." and 6 is "d": what is in the archive 0.1    *)
(* goes to 0.d, where a file may be, or other files.                       *)
(***************************************************************************)
EXTENDS CheckedReader

CONSTANTS MaxInputs, ForeignLength

MCCoded == [b \in Byte |-> IF b % 2 = 0 THEN b + 1 ELSE b - 1]
MCMagic == <<3, 2>>
MCUnnamed == <<2>>
MCDirExtension == <<5, 6>>

File(name, payload, size, kind, members) ==
    [readable |-> TRUE, name |-> name, size |-> size, payload |-> payload,
     compressed |-> Len(payload) < size, kind |-> kind, members |-> members]

Plain(name, payload, size) == File(name, payload, size, "plain", <<>>)

Unreadable == [Plain(<<1>>, <<>>, 0) EXCEPT !.readable = FALSE]

\* What is in 0.1 is extracted into a directory 0.d: some of these are in the
\* way of one another, or are written to one path.
Close ==
    {File(<<0, 5, 1>>, <<3, 2, 0>>, 3, "archive", <<<<2>>, <<1, 4, 1>>>>),
     Plain(<<0, 5, 6>>, <<>>, 0), Plain(<<0, 5, 6, 4, 2>>, <<2>>, 1),
     File(<<2>>, <<3, 2, 2>>, 3, "overrun", <<<<1>>>>)}

Apart ==
    {Plain(<<>>, <<>>, 0), Plain(<<1>>, <<3, 0>>, 6), Plain(<<1, 4, 2, 3>>, <<1>>, 1),
     Plain(<<0>>, <<1, 2, 3, 5>>, 4), Plain(<<0, 1, 2, 3, 5, 1>>, <<>>, 0), Unreadable,
     File(<<3>>, <<3, 2>>, 2, "damaged", <<<<1>>>>)}

MCInputLists ==
    BoundedSeq(Close \cup Apart, 2) \cup [1 .. 3 -> Close]
      \cup [1 .. MaxInputs -> {Plain(<<>>, <<>>, 0), Unreadable}]

\* One file, which can be extracted but for a damaged archive.
MCDamagedLists == {<<f>> : f \in Apart}

GoodHeader == WriteHeader(0)
MCForeign ==
    {GoodHeader \o bytes : bytes \in BoundedSeq({0, 1, 5}, ForeignLength)}
      \cup {GoodHeader \o <<1>> \o offset \o <<0, 0, 0, 1, 0>> :
               offset \in BoundedSeq(Byte, VarintLimit)}
      \cup {SubSeq(GoodHeader, 1, n) : n \in 0 .. 3}
      \cup {[GoodHeader EXCEPT ![n] = 7] : n \in 1 .. 4}
      \cup BoundedSeq({1, 4, 5, 6}, 4)

MCCounts == {0, 2, MaxSize}
=============================================================================
