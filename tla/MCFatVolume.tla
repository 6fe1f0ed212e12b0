---------------------------- MODULE MCFatVolume -----------------------------
(* Contents of a card for FatVolume. *)
EXTENDS FatVolume

Eoc == 99                    \* the end of a chain
File(name, sclust, size) == [name |-> name, dir |-> FALSE, sclust |-> sclust, size |-> size]
Folder(name) == [name |-> name, dir |-> TRUE, sclust |-> 0, size |-> 0]
From2(s) == [c \in 2 .. Len(s) + 1 |-> s[c - 1]]
Blank == <<End, End>>

\* Clusters of one sector, numbers 2 to 7.  Contents with FATs of one size can be
\* exchanged for each other.
Small(fsize, next, entries) ==
    [csize |-> 1, nfat |-> 8, fsize |-> fsize, root |-> 2, mbr |-> FALSE, next |-> From2(next),
     entries |-> From2(entries)]
\* A directory and a file in pieces.
Pieces == Small(4, <<4, 5, Eoc, 6, Eoc, Eoc>>,
                <<<<Free, File("b", 7, 1)>>, Blank, <<File("a", 3, 5), End>>, Blank, Blank, Blank>>)
\* The same card after the host has exchanged the files.
Exchanged == Small(4, <<Eoc, Eoc, 0, 0, 3, 0>>,
                   <<<<File("a", 6, 3), Folder("d")>>, Blank, Blank, Blank, Blank, Blank>>)
\* A directory whose clusters are a ring, a file whose chain runs into a free one.
Ring == Small(9, <<4, Eoc, 2, 7, 0, 0>>,
              <<<<Free, File("b", 3, 2)>>, Blank, <<Free, File("a", 5, 6)>>, Blank, Blank, Blank>>)
\* A file longer than its chain, and a number outside the FAT as its first.
Short == Small(5, <<Eoc, Eoc, 0, 0, 0, 0>>,
               <<<<File("a", 3, 6), End>>, Blank, Blank, Blank, Blank, Blank>>)
Wild == Small(6, <<Eoc, 0, 0, 0, 0, 0>>,
              <<<<File("a", 9, 4), End>>, Blank, Blank, Blank, Blank, Blank>>)
\* A directory that breaks off, and a folder that has the name of the file.
Cut == Small(7, <<1, 0, 0, 0, 0, 0>>,
             <<<<Folder("d"), Free>>, Blank, Blank, Blank, Blank, Blank>>)
Taken == Small(8, <<Eoc, 0, 0, 0, 0, 0>>,
               <<<<Folder("a"), Free>>, Blank, Blank, Blank, Blank, Blank>>)
\* Clusters of four sectors behind a partition table.
Large == [csize |-> 4, nfat |-> 5, fsize |-> 3, root |-> 2, mbr |-> TRUE,
          next |-> From2(<<Eoc, 4, Eoc>>),
          entries |-> From2(<<Blank \o <<End, End, End, End, End, End>>,
                              Blank \o Blank \o Blank \o Blank, Blank \o Blank \o Blank \o Blank>>)]
LargeFiles == [Large EXCEPT !.entries[2] =
    <<Free, Free, Free, File("a", 3, 11), File("b", 2, 1), End, End, End>>]
\* A FAT too small for its clusters, a root directory that is no cluster.
NoRoom  == [Pieces EXCEPT !.fsize = 3]
NoRoot  == [Pieces EXCEPT !.root = 1]

MCLayout == <<Pieces, Exchanged, Ring, Short, Wild, Cut, Taken, Large, LargeFiles, NoRoom, NoRoot>>
=============================================================================
