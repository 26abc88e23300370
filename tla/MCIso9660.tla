----------------------------- MODULE MCIso9660 ------------------------------
(* A few disks for Iso9660. *)
EXTENDS Iso9660

NM(name) == <<"NM", <<name>>>>
PX == <<"PX", <<>>>>
RR == <<"RR", <<>>>>

Padded(cells) == [i \in 1 .. SectorSize |-> IF i <= Len(cells) THEN cells[i] ELSE Pad]
Bytes(file, from) == [i \in 1 .. SectorSize |-> Byte(<<file, from + i>>)]

Dir(name, lba, len) == Record(<<name>>, <<PX, NM(name)>>, TRUE, lba, len)
Dots(here, up) == <<Record(Dot, <<>>, TRUE, here, SectorSize), Record(DotDot, <<>>, TRUE, up, SectorSize)>>
RootEntry(lba, len) == Record(Dot, <<>>, TRUE, lba, len)
Sole(cell) == Padded(<<cell>>)

(* A Rock Ridge disk that can be booted: /bin/prog of two sectors, /f.     *)
Bootable ==
  << Bytes("system", 0),
     Sole(Descriptor("other", NoEntry)),
     Sole(Descriptor("primary", RootEntry(4, SectorSize))),
     Sole(Descriptor("terminator", NoEntry)),
     Padded(Dots(4, 4) \o << Dir("bin", 5, SectorSize),
                             Record(<<"F", ".", ";1">>, <<PX, NM("f")>>, FALSE, 8, 3) >>),
     Padded(Dots(5, 4) \o << Record(<<"PROG", ".", ";1">>, <<PX, NM("prog")>>, FALSE, 6, SectorSize + 2) >>),
     Bytes("prog", 0), Bytes("prog", SectorSize), Bytes("f", 0) >>

(* A disk with ISO names; an unknown signature hides the name of /bin/F.   *)
(* /bin fills its sector.                                                  *)
Plain ==
  << Bytes("system", 0),
     Sole(Descriptor("primary", RootEntry(3, SectorSize))),
     Sole(Descriptor("terminator", NoEntry)),
     Padded(Dots(3, 3) \o << Dir("bin", 4, SectorSize),
                             Record(<<"F", ".", ";1">>, <<>>, FALSE, 5, SectorSize) >>),
     Padded(Dots(4, 3) \o << Record(<<"F", ".", ";1">>, <<RR, NM("f")>>, FALSE, 5, 0),
                             Record(<<"G">>, <<>>, FALSE, 5, 1), Dir("d", 4, 0) >>),
     Bytes("f", 0) >>

(* /bin of two sectors. *)
Large ==
  << Bytes("system", 0),
     Sole(Descriptor("primary", RootEntry(3, SectorSize))),
     Sole(Descriptor("terminator", NoEntry)),
     Padded(Dots(3, 3) \o << Dir("bin", 4, 2 * SectorSize) >>),
     Padded(Dots(4, 3)),
     Sole(Record(<<"PROG", ";1">>, <<NM("prog")>>, FALSE, 6, SectorSize - 1)),
     Bytes("prog", 0) >>

NoPrimary == << Bytes("system", 0), Sole(Descriptor("other", NoEntry)), Sole(Descriptor("terminator", NoEntry)) >>
NotIso == << Bytes("system", 0), Bytes("system", SectorSize) >>

MCDisks == {Bootable, Plain, Large, NoPrimary, NotIso}
MCPaths == {<<>>, <<<<"bin">>>>, <<<<"f">>>>, <<<<"bin">>, <<"prog">>>>, <<<<"bin">>, <<"none">>>>,
            <<<<"f">>, <<"prog">>>>, <<<<"F", ".", ";1">>>>, <<<<"bin">>, <<"F", ".", ";1">>>>}
MCRanges == {<<0, 2>>, <<1, 4>>, <<4, 2>>, <<6, 3>>}

=============================================================================
