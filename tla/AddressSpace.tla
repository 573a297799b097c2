---------------------------- MODULE AddressSpace ----------------------------
(***************************************************************************)
(* User address spaces: four-level page tables, the ELF loader, exec,      *)
(* process teardown and the user-copy boundary, over the page allocator's  *)
(* contract (mm/virtual_memory.cpp, mm/user_copy.cpp, proc/user_elf.cpp,   *)
(* proc/user_program.cpp, syscall/process.cpp, proc/process.cpp).          *)
(*                                                                         *)
(* Physical memory is mem[page][word]; a word is what a page-table entry   *)
(* and user data have in common: the page number its address bits give and *)
(* its flag bits.  A table has Fan entries and a page PageSize = Fan       *)
(* words, so one unit of address is one word.  A step ends where the page  *)
(* allocator is called.  Only the thread of a process uses its address     *)
(* space, so a user copy is one step.                                      *)
(***************************************************************************)
EXTENDS PageFrames, SequencesExt

CONSTANTS
    CPU, Boot, Proc,
    KernelRoot,         \* g_kernel_root_cr3, a reserved page
    AddressMod,         \* 2^64: virtual addresses wrap here
    UserSpaceBase, UserStackTop, UserStackPages,
    Files,              \* the initrd: path |-> ELF image
    MaxPath,            \* sizeof(path) in sys_spawn and sys_exec
    Pointers,           \* user pointers passed to system calls and stores
    CopyLengths,        \* lengths of copy_to_user
    MaxLost,            \* no load starts once this many pages were lost
    MaxDirect,          \* bound on pages other callers take in a run
    DataWords,          \* words user programs and copies store
    Idle

Fan == PageSize
Page == 0..(MaxPages - 1)
Zero == [page |-> 0, flags |-> {}]
UserSlot == 1

ASSUME AddressSpaceAssumption ==
    /\ Boot \in CPU /\ Idle \notin Proc /\ KernelRoot \in BootReserved
    /\ UserStackTop < AddressMod /\ UserSpaceBase % PageSize = 0

VARIABLES
    mem,            \* the words of each page
    space,          \* Process::address_space.cr3, 0 for none
    pstate,         \* "none", "loading", "ready", "running", "dead"
    current,        \* cpu::current_thread, as its process
    cr3,            \* the page-table root in each CPU's CR3
    pc, reg,        \* where each CPU is in a load or a teardown
    lost,           \* history: pages allocate_and_map left in nobody's hands
    direct,         \* history: pages held by other callers ...
    taken           \* ... and how many they have taken so far

outside == <<direct, taken>>
asVars == <<mem, space, pstate, current, cr3, pc, reg, lost, outside>>
allVars == <<vars, asVars>>

NoReg == [op |-> "none", proc |-> Idle, root |-> 0, todo |-> <<>>, frees |-> <<>>]
Cleared == [i \in 0..(Fan - 1) |-> Zero]

ASInit ==
    /\ Init
    /\ mem = [p \in Page |-> Cleared]
    /\ space = [p \in Proc |-> 0]
    /\ pstate = [p \in Proc |-> "none"]
    /\ current = [c \in CPU |-> Idle]
    /\ cr3 = [c \in CPU |-> KernelRoot]
    /\ pc = [c \in CPU |-> "run"]
    /\ reg = [c \in CPU |-> NoReg]
    /\ lost = 0
    /\ direct = {} /\ taken = 0

-----------------------------------------------------------------------------
\* page_index: the entry of a level-n table that covers an address.
Index(va, level) == (va \div Fan^level) % Fan

\* The entry a walk over the memory mm reaches at a level of the tree, Zero
\* when a table above it is missing; translate returns the one at level 1.
Entry(mm, root, va, level) ==
    LET E[l \in 1..4] ==
            IF l = 4 THEN mm[root][Index(va, 4)]
            ELSE IF E[l + 1] = Zero THEN Zero
            ELSE mm[E[l + 1].page][Index(va, l)]
    IN  E[level]

Translate(root, va) == Entry(mem, root, va, 1)

\* is_user_address_range; the addresses of the model are all canonical.
IsUserRange(va, len) ==
    \/ len = 0
    \/ va # 0 /\ va + len - 1 < AddressMod /\ va >= UserSpaceBase /\ va + len - 1 < UserStackTop

\* has_required_user_flags
Allows(e, write) == "U" \in e.flags /\ (write => "W" \in e.flags)

\* copy_to_user, copy_from_user: how many words are copied before the first
\* page that is not mapped or does not allow the access.
Copied(root, va, len, write) ==
    LET Ok(n) == \A i \in 0..(n - 1) : Allows(Translate(root, va + i), write)
    IN  IF ~IsUserRange(va, len) THEN 0
        ELSE CHOOSE n \in 0..len : Ok(n) /\ (n = len \/ ~Ok(n + 1))

WordAt(root, va) == mem[Translate(root, va).page][va % PageSize]

\* copy_into_address_space, and the copying of copy_to_user: the memory after
\* words are stored from va on, wherever the tables say; flags are not looked at.
Written(mm, root, va, words) ==
    [p \in Page |-> [i \in 0..(PageSize - 1) |->
        LET here == {k \in 1..Len(words) : /\ Entry(mm, root, va + k - 1, 1).page = p
                                           /\ (va + k - 1) % PageSize = i}
        IN  IF here = {} THEN mm[p][i] ELSE words[CHOOSE k \in here : TRUE]]]

\* copy_user_string: the words up to the first zero one, or <<>> when it is
\* empty, cannot be read or does not end within MaxPath.
UserString(root, va) ==
    LET ends == {n \in 0..(MaxPath - 1) :
                    /\ \A i \in 0..n : Copied(root, va + i, 1, FALSE) = 1
                    /\ WordAt(root, va + n) = Zero
                    /\ \A i \in 0..(n - 1) : WordAt(root, va + i) # Zero}
    IN  IF va = 0 \/ ends = {} THEN <<>>
        ELSE [i \in 1..(CHOOSE n \in ends : TRUE) |-> WordAt(root, va + i - 1)]

-----------------------------------------------------------------------------
StackGuardBase == UserStackTop - (UserStackPages + 1) * PageSize
StackBase == UserStackTop - UserStackPages * PageSize

AlignDownTo(a) == (a \div PageSize) * PageSize
AlignUpTo(a) == AlignDownTo((a + PageSize - 1) % AddressMod)

\* checked_add: the sum of two addresses does not wrap around.
SumFits(a, b) == a <= AddressMod - 1 - b

\* The end of a segment, as the 64-bit sum it is.
RawEnd(s) == (s.vaddr + s.memsz) % AddressMod

\* Mutation: segments may reach into the guard page.
PlanValidNoGuard(image, s) ==
    /\ s.filesz <= s.memsz /\ SumFits(s.offset, s.filesz) /\ s.offset + s.filesz <= image.size
    /\ SumFits(s.vaddr, s.memsz) /\ SumFits(RawEnd(s), PageSize - 1)
    /\ AlignDownTo(s.vaddr) >= UserSpaceBase
    /\ AlignUpTo(RawEnd(s)) <= UserStackTop
    /\ Index(AlignDownTo(s.vaddr), 4) = UserSlot
    /\ AlignUpTo(RawEnd(s)) > AlignDownTo(s.vaddr)

\* plan_load_segment for a segment with memsz > 0.
PlanValid(image, s) ==
    /\ s.filesz <= s.memsz /\ SumFits(s.offset, s.filesz) /\ s.offset + s.filesz <= image.size
    /\ SumFits(s.vaddr, s.memsz) /\ SumFits(RawEnd(s), PageSize - 1)
    /\ AlignDownTo(s.vaddr) >= UserSpaceBase
    /\ AlignUpTo(RawEnd(s)) <= StackGuardBase
    /\ Index(AlignDownTo(s.vaddr), 4) = UserSlot
    /\ AlignUpTo(RawEnd(s)) > AlignDownTo(s.vaddr)

Loadable(s) == s.load /\ s.memsz > 0

\* validate_user_elf_image: entry_point_in_loadable_segment looks at the
\* segments up to the one that holds the entry point, the loader at all.
ImageValid(image) ==
    \E i \in 1..Len(image.segments) :
        LET s == image.segments[i] IN
        /\ Loadable(s) /\ image.entry >= s.vaddr /\ image.entry < RawEnd(s)
        /\ \A j \in 1..i : Loadable(image.segments[j]) => PlanValid(image, image.segments[j])

SegmentFlags(s) ==
    {"P", "U"} \cup (IF s.write THEN {"W"} ELSE {}) \cup (IF s.exec THEN {} ELSE {"NX"})

\* n pages from va on; words are copied to vaddr once all of them are mapped.
Pages(va, n, flags, vaddr, words) ==
    [i \in 1..n |-> [va |-> va + (i - 1) * PageSize, flags |-> flags, vaddr |-> vaddr,
                     words |-> IF i = n THEN words ELSE <<>>]]

\* A segment whose plan is refused is one entry that fails.
SegmentPages(image, s) ==
    IF ~Loadable(s) THEN <<>>
    ELSE IF ~PlanValid(image, s) THEN Pages(0, 1, {}, 0, <<>>)
    ELSE LET first == AlignDownTo(s.vaddr)
         IN  Pages(first, (AlignUpTo(RawEnd(s)) - first) \div PageSize,
                   SegmentFlags(s), s.vaddr, SubSeq(s.words, 1, s.filesz))

StackPages == Pages(StackBase, UserStackPages, {"P", "W", "U", "NX"}, StackBase, <<>>)

LoadPlan(image) ==
    FlattenSeq([i \in 1..Len(image.segments) |-> SegmentPages(image, image.segments[i])])
        \o StackPages

-----------------------------------------------------------------------------
Goto(c, where) == pc' = [pc EXCEPT ![c] = where]

\* The pages destroy_user_slot passes to free(), in order, and then the root.
\* destroy_table is entered with level 4 for the entry of the level-4 table,
\* so its level 1 is the user's page, not the table that maps it.
Destroyed(mm, root) ==
    LET Sub[l \in 1..4, p \in Page] ==
            LET entries == SelectSeq([i \in 1..Fan |-> mm[p][i - 1]], LAMBDA e : e # Zero)
            IN  FlattenSeq([i \in 1..Len(entries) |->
                    IF l > 1 THEN Sub[l - 1, entries[i].page] ELSE <<entries[i].page>>]) \o <<p>>
        top == mm[root][UserSlot]
    IN  IF top = Zero THEN <<>> ELSE Sub[4, top.page]

\* PageFrameContainer::free for each page of a sequence that is busy, whoever
\* uses it.
FreeFrames(pages) ==
    LET freed == {p \in Range(pages) : p < pageCount} \ free IN
    /\ free' = free \cup freed
    /\ held' = held \ freed
    /\ freeCount' = freeCount + Cardinality(freed)
    /\ UNCHANGED <<bootMap, initialized, pageCount, pinned>>

\* destroy_user_address_space, reap_process: destroy_user_slot ...
Teardown(c, root) ==
    /\ reg' = [reg EXCEPT ![c] = [NoReg EXCEPT !.root = root,
                                               !.frees = Destroyed(mem', root)]]
    /\ Goto(c, "slot")

DestroySlot(c) ==
    /\ pc[c] = "slot"
    /\ FreeFrames(reg[c].frees)
    /\ mem' = [p \in Page |-> IF Contains(reg[c].frees, p) \/ p = reg[c].root
                              THEN Cleared ELSE mem[p]]
    /\ reg' = [reg EXCEPT ![c].frees = <<>>]
    /\ Goto(c, "freeroot")
    /\ UNCHANGED <<space, pstate, current, cr3, lost, outside>>

\* Mutation: the root is not freed.
DestroyRootKept(c) ==
    /\ pc[c] = "freeroot"
    /\ reg' = [reg EXCEPT ![c] = NoReg]
    /\ Goto(c, "run")
    /\ UNCHANGED <<vars, mem, space, pstate, current, cr3, lost, outside>>

\* ... the shoot-down, and the root; then the CPU goes on with its thread.
DestroyRoot(c) ==
    /\ pc[c] = "freeroot"
    /\ FreeFrames(<<reg[c].root>>)
    /\ reg' = [reg EXCEPT ![c] = NoReg]
    /\ Goto(c, "run")
    /\ UNCHANGED <<mem, space, pstate, current, cr3, lost, outside>>

\* load_user_program_image after the image passed its checks; Spawn also takes
\* a process record, which is published at the end.
StartLoad(c, op, p, image) ==
    /\ ImageValid(image) /\ lost < MaxLost
    /\ reg' = [reg EXCEPT ![c] = [NoReg EXCEPT !.op = op, !.proc = p, !.todo = LoadPlan(image)]]
    /\ Goto(c, "root")

\* kernel_main loads the first process.
LoadInit(c) ==
    /\ c = Boot /\ initialized /\ pc[c] = "run" /\ \A p \in Proc : pstate[p] = "none"
    /\ \E path \in DOMAIN Files, p \in Proc :
          /\ StartLoad(c, "spawn", p, Files[path])
          /\ pstate' = [pstate EXCEPT ![p] = "loading"]
    /\ UNCHANGED <<vars, mem, space, current, cr3, lost, outside>>

\* sys_spawn: the path is read from the caller's memory.
Spawn(c, va) ==
    /\ pc[c] = "run" /\ current[c] # Idle
    /\ LET path == UserString(space[current[c]], va) IN
       /\ path \in DOMAIN Files
       /\ \E p \in Proc :
             /\ pstate[p] = "none"
             /\ StartLoad(c, "spawn", p, Files[path])
             /\ pstate' = [pstate EXCEPT ![p] = "loading"]
    /\ UNCHANGED <<vars, mem, space, current, cr3, lost, outside>>

\* sys_exec up to the load.
Exec(c, va) ==
    /\ pc[c] = "run" /\ current[c] # Idle
    /\ LET path == UserString(space[current[c]], va) IN
       /\ path \in DOMAIN Files
       /\ StartLoad(c, "exec", current[c], Files[path])
    /\ UNCHANGED <<vars, mem, space, pstate, current, cr3, lost, outside>>

\* A load that fails: the caller of sys_spawn or sys_exec gets -1.
Failed == [p \in Proc |->
    IF pstate[p] = "loading" /\ \E c \in CPU : reg[c].op = "spawn" /\ reg[c].proc = p
                                             /\ reg'[c].op # "spawn"
    THEN "none" ELSE pstate[p]]

\* Mutation: the caller's whole root is copied, its user slot included.
LoadRootCopies(c) ==
    /\ pc[c] = "root"
    /\ IF free = {}
       THEN /\ Goto(c, "run")
            /\ reg' = [reg EXCEPT ![c] = NoReg]
            /\ UNCHANGED <<vars, mem>>
       ELSE /\ Allocate
            /\ \E r \in held' \ held :
                  /\ mem' = [mem EXCEPT ![r] = mem[cr3[c]]]
                  /\ reg' = [reg EXCEPT ![c].root = r]
            /\ Goto(c, "page")
    /\ pstate' = Failed
    /\ UNCHANGED <<space, current, cr3, lost, outside>>

\* clone_kernel_mappings: ensure_root, then the kernel's slots.
LoadRoot(c) ==
    /\ pc[c] = "root"
    /\ IF free = {}
       THEN /\ Goto(c, "run")
            /\ reg' = [reg EXCEPT ![c] = NoReg]
            /\ UNCHANGED <<vars, mem>>
       ELSE /\ Allocate
            /\ \E r \in held' \ held :
                  /\ mem' = [mem EXCEPT ![r] = [Cleared EXCEPT ![0] = mem[KernelRoot][0]]]
                  /\ reg' = [reg EXCEPT ![c].root = r]
            /\ Goto(c, "page")
    /\ pstate' = Failed
    /\ UNCHANGED <<space, current, cr3, lost, outside>>

\* The number of tables that are missing on the way to va, and the memory
\* after ensure_table_entry has put a new table p in the first empty entry.
Missing(mm, root, va) == Cardinality({l \in 2..4 : Entry(mm, root, va, l) = Zero})

AddTable(mm, root, va, p) ==
    LET level == 1 + Missing(mm, root, va)
        table == IF level = 4 THEN root ELSE Entry(mm, root, va, level + 1).page
    IN  [mm EXCEPT ![p] = Cleared,
                   ![table][Index(va, level)] = [page |-> p, flags |-> {"P", "W", "U"}]]

\* n calls of allocate: the lowest free pages, fewer when memory runs out.
Lowest(n) ==
    LET Rank(p) == Cardinality({q \in free : q < p})
        low == {p \in free : Rank(p) < n}
    IN  [i \in 1..Cardinality(low) |-> CHOOSE p \in low : Rank(p) = i - 1]

AllocateEach(pages) ==
    /\ free' = free \ Range(pages)
    /\ held' = held \cup Range(pages)
    /\ freeCount' = freeCount - Len(pages)
    /\ UNCHANGED <<bootMap, initialized, pageCount, pinned>>

\* allocate_and_map for the next page: the page, map_physical with the tables
\* walk_to_leaf misses, the leaf entry, and after the last page of a segment
\* the copy of its file contents.  Without a page for a table the new page is
\* neither mapped nor freed; a page the entry mapped before is forgotten.
LoadPage(c) ==
    LET r == reg[c]
        next == Head(r.todo)
        need == Missing(mem, r.root, next.va)
        got == Lowest(1 + need)
        linked == FoldLeft(LAMBDA mm, p : AddTable(mm, r.root, next.va, p), mem, Tail(got))
        mapped == [linked EXCEPT
                     ![Entry(linked, r.root, next.va, 2).page][Index(next.va, 1)] =
                         [page |-> got[1], flags |-> next.flags],
                     ![got[1]] = Cleared]
    IN
    /\ pc[c] = "page" /\ r.todo # <<>>
    /\ IF got = <<>> \/ next.flags = {}
       THEN UNCHANGED <<vars, mem, lost>> /\ Teardown(c, r.root)
       ELSE /\ AllocateEach(got)
            /\ IF Len(got) <= need
               THEN /\ mem' = linked
                    /\ lost' = lost + 1
                    /\ Teardown(c, r.root)
               ELSE /\ mem' = Written(mapped, r.root, next.vaddr, next.words)
                    /\ lost' = IF Translate(r.root, next.va) = Zero THEN lost ELSE lost + 1
                    /\ reg' = [reg EXCEPT ![c].todo = Tail(@)]
                    /\ UNCHANGED pc
    /\ pstate' = Failed
    /\ UNCHANGED <<space, current, cr3, outside>>

\* load_user_program: the process gets its address space and may run.
SpawnDone(c) ==
    LET r == reg[c] IN
    /\ pc[c] = "page" /\ r.todo = <<>> /\ r.op = "spawn"
    /\ space' = [space EXCEPT ![r.proc] = r.root]
    /\ pstate' = [pstate EXCEPT ![r.proc] = "ready"]
    /\ reg' = [reg EXCEPT ![c] = NoReg]
    /\ Goto(c, "run")
    /\ UNCHANGED <<vars, mem, current, cr3, lost, outside>>

\* ... unless there is no record for the process (the address space goes) or
\* none, or no stack, for its thread (reap_process: the process goes with it).
SpawnFails(c) ==
    LET r == reg[c] IN
    /\ pc[c] = "page" /\ r.todo = <<>> /\ r.op = "spawn"
    /\ UNCHANGED mem /\ Teardown(c, r.root)
    /\ pstate' = Failed
    /\ UNCHANGED <<vars, space, current, cr3, lost, outside>>

\* Mutation: the old address space goes before CR3 leaves it.
ExecDoneEarly(c) ==
    LET r == reg[c] IN
    /\ pc[c] = "page" /\ r.todo = <<>> /\ r.op = "exec"
    /\ space' = [space EXCEPT ![r.proc] = r.root]
    /\ UNCHANGED <<vars, mem, pstate, current, cr3, lost, outside>>
    /\ Teardown(c, space[r.proc])

\* sys_exec: switch to the new address space, then tear the old one down.
ExecDone(c) ==
    LET r == reg[c] IN
    /\ pc[c] = "page" /\ r.todo = <<>> /\ r.op = "exec"
    /\ space' = [space EXCEPT ![r.proc] = r.root]
    /\ cr3' = [cr3 EXCEPT ![c] = r.root]
    /\ UNCHANGED <<vars, mem, pstate, current, lost, outside>>
    /\ Teardown(c, space[r.proc])

-----------------------------------------------------------------------------
\* schedule_next: another process, or the idle thread when the current one has
\* to wait, replaces the current thread; a process that waits is ready again at
\* once.  restore_thread publishes the next thread first ...
Dispatch(c) ==
    /\ pc[c] = "run"
    /\ \E p \in {q \in Proc : pstate[q] = "ready"} \cup ({Idle} \ {current[c]}) :
          /\ pstate' = [q \in Proc |-> CASE q = p -> "running"
                                         [] q = current[c] -> "ready"
                                         [] OTHER -> pstate[q]]
          /\ current' = [current EXCEPT ![c] = p]
    /\ Goto(c, "switch")
    /\ UNCHANGED <<vars, mem, space, cr3, reg, lost, outside>>

\* mark_current_thread_dying, and the switch away from the thread.
Exit(c) ==
    /\ pc[c] = "run" /\ current[c] # Idle
    /\ pstate' = [pstate EXCEPT ![current[c]] = "dead"]
    /\ current' = [current EXCEPT ![c] = Idle]
    /\ Goto(c, "switch")
    /\ UNCHANGED <<vars, mem, space, cr3, reg, lost, outside>>

\* ... and loads its CR3 afterwards.
SwitchCr3(c) ==
    /\ pc[c] = "switch"
    /\ cr3' = [cr3 EXCEPT ![c] = IF current[c] = Idle THEN KernelRoot ELSE space[current[c]]]
    /\ Goto(c, "run")
    /\ UNCHANGED <<vars, mem, space, pstate, current, reg, lost, outside>>

\* reap_process: on the boot CPU's reaper, or in waitpid on the caller's CPU.
Reap(c) ==
    /\ pc[c] = "run" /\ (c = Boot \/ current[c] # Idle)
    /\ \E p \in Proc :
          /\ pstate[p] = "dead" /\ \A d \in CPU : current[d] # p
          /\ pstate' = [pstate EXCEPT ![p] = "none"]
          /\ space' = [space EXCEPT ![p] = 0]
          /\ UNCHANGED mem /\ Teardown(c, space[p])
    /\ UNCHANGED <<vars, current, cr3, lost, outside>>


\* copy_to_user: the pages before the one that fails are written.
CopyToUser(c, va, len, w) ==
    /\ pc[c] = "run" /\ current[c] # Idle
    /\ LET root == space[current[c]]
           n == Copied(root, va, len, TRUE)
       IN  /\ n > 0
           /\ mem' = Written(mem, root, va, [i \in 1..n |-> w])
    /\ UNCHANGED <<vars, space, pstate, current, cr3, pc, reg, lost, outside>>

\* A store of the user program, through the MMU.
UserStore(c, va, w) ==
    /\ pc[c] = "run" /\ current[c] # Idle
    /\ LET e == Translate(cr3[c], va) IN
       /\ Allows(e, TRUE)
       /\ mem' = [mem EXCEPT ![e.page][va % PageSize] = w]
    /\ UNCHANGED <<vars, space, pstate, current, cr3, pc, reg, lost, outside>>

\* The rest of the kernel takes a page, or gives one back.
DirectAllocate ==
    /\ taken < MaxDirect /\ taken' = taken + 1
    /\ Allocate
    /\ direct' = direct \cup (held' \ held)
    /\ UNCHANGED <<mem, space, pstate, current, cr3, pc, reg, lost>>

DirectFree(p) ==
    /\ p \in direct
    /\ Free(p * PageSize)
    /\ direct' = direct \ {p} /\ UNCHANGED taken
    /\ UNCHANGED <<mem, space, pstate, current, cr3, pc, reg, lost>>

Call(c) ==
    \/ LoadInit(c) \/ Dispatch(c) \/ Exit(c) \/ SwitchCr3(c) \/ Reap(c)
    \/ \E va \in Pointers :
          \/ Spawn(c, va) \/ Exec(c, va)
          \/ \E w \in DataWords :
                \/ UserStore(c, va, w)
                \/ \E len \in CopyLengths : CopyToUser(c, va, len, w)
    \/ LoadRoot(c) \/ LoadPage(c) \/ SpawnDone(c) \/ SpawnFails(c) \/ ExecDone(c)
    \/ DestroySlot(c) \/ DestroyRoot(c)

ASNext ==
    \/ Initialize /\ UNCHANGED asVars
    \/ DirectAllocate \/ \E p \in Page : DirectFree(p)
    \/ \E c \in CPU : Call(c)

ASSpec == ASInit /\ [][ASNext]_allVars

-----------------------------------------------------------------------------
\* The pages a user address space consists of: its tables and its leaves.
Children(S) == {mem[p][i].page : p \in S, i \in 0..(Fan - 1)} \ {0}
SpacePages(root) ==
    LET t3 == {mem[root][UserSlot].page} \ {0}
        t2 == Children(t3)
        t1 == Children(t2)
    IN  {root} \cup t3 \cup t2 \cup t1 \cup Children(t1)

LiveSpaces == {space[p] : p \in Proc} \ {0}
Loading == {reg[c].root : c \in {d \in CPU : pc[d] = "page"}}
Freeing == UNION {Range(reg[c].frees) \cup {reg[c].root} : c \in CPU}

\* The state has its types, and exactly the processes that are published have
\* an address space.
ASTypeOK ==
    /\ space \in [Proc -> Page] /\ cr3 \in [CPU -> Page]
    /\ pstate \in [Proc -> {"none", "loading", "ready", "running", "dead"}]
    /\ \A p \in Proc : space[p] # 0 <=> pstate[p] \in {"ready", "running", "dead"}
    /\ current \in [CPU -> Proc \cup {Idle}]
    /\ pc \in [CPU -> {"run", "root", "page", "slot", "freeroot", "switch"}]
    /\ \A p \in Page, i \in 0..(Fan - 1) : mem[p][i].flags \subseteq {"P", "W", "U", "NX"}
    /\ lost \in Nat /\ direct \subseteq Page /\ taken \in 0..MaxDirect

\* Address spaces share nothing: no table or leaf page belongs to two of them,
\* or to the rest of the kernel, while they are built, used and torn down on
\* several CPUs.
SpacesApart ==
    LET roots == LiveSpaces \cup Loading IN
    \A r \in roots :
        /\ SpacePages(r) \subseteq held \ direct
        /\ \A s \in roots \ {r} : SpacePages(r) \cap SpacePages(s) = {}

\* Loads, execs and teardowns keep every page in someone's hands, whichever
\* step of a load fails, except the pages allocate_and_map itself forgets: the
\* new one each time a table cannot be allocated, and the old one each time
\* map_physical overwrites a leaf because two segments share a page.
FramesAccounted ==
    LET owned == UNION {SpacePages(r) : r \in LiveSpaces \cup Loading}
                     \cup Freeing \cup direct
    IN  Cardinality(held \ owned) <= lost

\* From the first page of a load on, an address space maps user pages only
\* from UserSpaceBase to the stack and never the guard page below it, also for
\* segments whose end wraps around; no page is both writable and executable
\* when no segment of an image is; a live address space has its stack.
LayoutSound ==
    LET segments == UNION {Range(Files[path].segments) : path \in DOMAIN Files}
        Sound(e) == \/ "W" \notin e.flags \/ "NX" \in e.flags
                    \/ \E s \in segments : s.write /\ s.exec
    IN
    /\ \A r \in LiveSpaces \cup Loading :
          /\ Translate(r, StackGuardBase) = Zero
          /\ \A va \in {n * PageSize : n \in 0..(Fan^4 - 1)} :
                Translate(r, va) # Zero =>
                    /\ va >= UserSpaceBase /\ va < UserStackTop
                    /\ Sound(Translate(r, va))
    /\ \A r \in LiveSpaces, i \in 0..(UserStackPages - 1) :
          {"U", "W", "NX"} \subseteq Translate(r, StackBase + i * PageSize).flags

\* A CPU that runs a user thread runs it on that process's own, intact root:
\* exec and reaping never take the address space from under it.  (Between
\* publishing the next thread and loading its CR3, restore_thread still has the
\* last thread's root, which another CPU may be destroying.)
RunsOnOwnSpace ==
    \A c \in CPU :
        pc[c] # "switch" /\ current[c] # Idle =>
            /\ cr3[c] = space[current[c]]
            /\ \A d \in CPU : pc[d] \in {"slot", "freeroot"} => reg[d].root # cr3[c]


\* What destroy_user_slot frees belongs to the address space it destroys.
TeardownFreesOwn ==
    \A c \in CPU, p \in Page :
        Contains(reg[c].frees, p) =>
            /\ p \notin direct \cup pinned
            /\ \A r \in LiveSpaces : p \notin SpacePages(r)
=============================================================================
