--------------------------- MODULE MCAddressSpace ---------------------------
(* Small instances of AddressSpace for TLC: two-word pages, two-entry      *)
(* tables, user pages 8 to 11, of which 10 is the guard and 11 the stack.  *)
EXTENDS AddressSpace, TLC

Symmetry == Permutations(Proc)

MCPages == {10, 16}

\* Memory for one process and a part of a second; for two, or one and its exec.
MCMap == {<<[start |-> 0, length |-> 2 * n, usable |-> TRUE]>> : n \in MCPages}

\* Words that are not the address of a tracked page, and the integer 1, whose
\* address bits are those of page 0.
Far == [page |-> 99, flags |-> {}]
Near == [page |-> 98, flags |-> {}]
MCSmall == {[page |-> 0, flags |-> {"P"}]}

MCWords == {Far}

Text(words) ==
    [load |-> TRUE, vaddr |-> 16, memsz |-> 2, filesz |-> Len(words), offset |-> 0,
     write |-> FALSE, exec |-> TRUE, words |-> words]

Data(vaddr, memsz) ==
    [load |-> TRUE, vaddr |-> vaddr, memsz |-> memsz, filesz |-> 0, offset |-> 0,
     write |-> TRUE, exec |-> FALSE, words |-> <<>>]

Program(entry, segments) == [size |-> 2, entry |-> entry, segments |-> segments]

\* Programs with text only, with text and data on pages of their own and with
\* data that shares the page of the text; and two whose data is refused after the
\* text was loaded, because it would reach the guard page, or wraps around.
MCFiles ==
    <<Far>> :> Program(17, <<Text(<<Far>>)>>)
      @@ <<Far, Far>> :> Program(16, <<Text(<<Far>>), Data(18, 2)>>)
      @@ <<Near>> :> Program(17, <<Text(<<Far>>), Data(17, 1)>>)
      @@ <<Near, Far>> :> Program(17, <<Text(<<Far>>), Data(19, 2)>>)
      @@ <<Near, Near>> :> Program(17, <<Text(<<Far>>), Data(18, AddressMod - 2)>>)
=============================================================================
