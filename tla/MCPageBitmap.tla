---------------------------- MODULE MCPageBitmap ----------------------------
(* Small instances of PageBitmap for TLC.                                   *)
EXTENDS PageBitmap

\* Two regions around word and page borders (three 4-bit words of 2-unit pages
\* are 24 units), a map without usable memory, and one with a hole and an odd
\* end: 8 pages, 7 of them usable.
MCRegions(starts, lengths) ==
    [start : starts, length : lengths, usable : {TRUE}]
MCMaps ==
    {<<a, b>> : a \in MCRegions({0, 1, 3, 5}, {0, 3, 7, 8, 9}),
                b \in MCRegions({6, 7, 8, 14}, {2, 5, 11, 13})}
      \cup {<<[start |-> 0, length |-> 4, usable |-> FALSE]>>}
      \cup {<<[start |-> 0, length |-> 7, usable |-> TRUE],
               [start |-> 6, length |-> 3, usable |-> FALSE],
               [start |-> 8, length |-> 9, usable |-> TRUE]>>}

=============================================================================
