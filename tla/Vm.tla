--------------------------------- MODULE Vm ----------------------------------
(***************************************************************************)
(* Private memory: the page fault handler with copy on write (do_pgfault   *)
(* in mm/vmm.c), the page tables (glue-ucore/pmm.c), fork, unmapping and   *)
(* exit, and swapping (mm/swap.c) with kswapd.                             *)
(*                                                                         *)
(* The builds with one CPU (i386, or32, um), where alloc_page sleeps until *)
(* kswapd has freed something; on x86_64 alloc_pages gives up instead and  *)
(* nothing is ever swapped out.  The kernel is not preempted and the disk  *)
(* is polled, so a kernel call is atomic up to the points where it sleeps: *)
(* in lock_mm and in alloc_page.  One page of a VM_WRITE, not VM_SHARE     *)
(* area for each address space; pages do not depend on their neighbours.   *)
(***************************************************************************)
EXTENDS Integers, FiniteSets

CONSTANTS
    Proc, Mm,
    Frame,      \* struct Page
    Slot,       \* offsets in the swap area
    MaxData,    \* bound: contents are 0 .. MaxData
    NoMm, NoFrame, NoSlot, Untouched

ASSUME VmAssumption ==
    /\ IsFiniteSet(Proc) /\ IsFiniteSet(Mm) /\ IsFiniteSet(Frame) /\ IsFiniteSet(Slot)
    /\ MaxData \in Nat \ {0}
    /\ NoMm \notin Mm /\ NoFrame \notin Frame /\ NoSlot \notin Slot
    /\ Untouched \notin 0 .. MaxData

UNUSED == -1    \* SWAP_UNUSED

VARIABLES
    mem,        \* page tables, frames and swap area, in one record:
                \*   pte[m]     the page table entry of the page
                \*   page[f]    ref, index (NoSlot: not PageSwap), PageDirty,
                \*              the swap list the page is in, its content
                \*   free       the frames of the page allocator
                \*   mem_map[s] references to a swap entry, or UNUSED
                \*   disk[s]    the swap area
    mm,         \* the address space of each process; NoMm: no such process
    pc,         \* "user"; "retry": at the end of a page fault's trap, which may
                \* call schedule before the access is tried again; in do_pgfault:
                \* "lock" before lock_mm, then in alloc_page for "first"
                \* (pgdir_alloc_page), "cow" (newpage) or "swapin" (swap_in_page)
    write,      \* the fault is a write (error_code & 2)
    newpage,    \* the page do_pgfault holds for a copy
    asleep,     \* in try_free_pages, in the queue kswapd_done
    locked,     \* mm_sem is held: a page fault is in progress
    kswapd,     \* "asleep" in do_sleep or "running"
    panicked    \* an assertion has failed: the machine has stopped

procVars == <<mm, pc, write, newpage, asleep, locked>>
vars == <<mem, procVars, kswapd, panicked>>

(***************************************************************************)
(* Page table entries and pages.                                           *)
(***************************************************************************)
Invalid          == [kind |-> "invalid"]
Present(f, w, d) == [kind |-> "present", page |-> f, W |-> w, D |-> d]
SwapEntry(e)     == [kind |-> "swap", entry |-> e]

FreshPage == [ref |-> 0, index |-> NoSlot, dirty |-> FALSE, list |-> "none", data |-> 0]

Init ==
    /\ mem = [pte |-> [m \in Mm |-> Invalid], page |-> [f \in Frame |-> FreshPage],
              free |-> Frame, mem_map |-> [e \in Slot |-> UNUSED],
              disk |-> [e \in Slot |-> 0]]
    /\ \E p \in Proc, m \in Mm : mm = [q \in Proc |-> IF q = p THEN m ELSE NoMm]
    /\ pc = [p \in Proc |-> "user"]
    /\ write = [p \in Proc |-> FALSE]
    /\ newpage = [p \in Proc |-> NoFrame]
    /\ asleep = [p \in Proc |-> FALSE]
    /\ locked = [m \in Mm |-> FALSE]
    /\ kswapd = "asleep" /\ panicked = FALSE

PageSwap(s, f) == s.page[f].index # NoSlot

\* free_pages clears the flags and the reference count, but does not take the
\* page off a swap list.  What the page holds is no longer kept track of.
free_page(s, f) ==
    [s EXCEPT !.free = @ \cup {f}, !.page[f].ref = 0, !.page[f].dirty = FALSE,
              !.page[f].data = 0]

\* The same for a swap entry that becomes unused
Released(s, e) == [s EXCEPT !.mem_map[e] = UNUSED, !.disk[e] = 0]

swap_hash_find(s, e) == {f \in Frame : s.page[f].index = e}

\* swap_page_add for an entry that exists, and swap_active_list_add after it
swap_page_add(s, f, e) ==
    [s EXCEPT !.page[f].index = e, !.page[f].list = "active"]

swap_page_del(s, f) == [s EXCEPT !.page[f].index = NoSlot]
swap_list_del(s, f) == [s EXCEPT !.page[f].list = "none"]
swap_free_page(s, f) == free_page(swap_page_del(s, f), f)

\* try_alloc_swap_entry takes an unused entry; if there is none, one that no
\* page table refers to, from the page that has it.  Which one its cursor
\* meets first is left open.
Unused(s)   == {e \in Slot : s.mem_map[e] = UNUSED}
Unneeded(s) == {e \in Slot : s.mem_map[e] = 0}
SwapEntries(s) == IF Unused(s) # {} THEN Unused(s) ELSE Unneeded(s)

try_alloc_swap_entry(s, e) ==
    IF s.mem_map[e] = UNUSED THEN s
    ELSE LET f == CHOOSE f \in swap_hash_find(s, e) : TRUE
             off == swap_list_del(s, f)
             del == IF s.page[f].ref = 0 THEN swap_free_page(off, f)
                                         ELSE swap_page_del(off, f)
         IN  Released(del, e)

\* swap_page_add(page, 0): a new entry, which the disk does not hold yet
swap_page_add_new(s, f, e) ==
    LET got == try_alloc_swap_entry(s, e)
    IN  swap_page_add([got EXCEPT !.mem_map[e] = 0, !.page[f].dirty = TRUE], f, e)

swap_duplicate(s, e) == [s EXCEPT !.mem_map[e] = @ + 1]

\* Mutant: the entry is given up although the page in memory is still used.
swap_remove_entry_always(s, e) ==
    LET less == [s EXCEPT !.mem_map[e] = @ - 1]
    IN  IF less.mem_map[e] > 0 THEN less ELSE Released(s, e)

swap_remove_entry(s, e) ==
    LET less == [s EXCEPT !.mem_map[e] = @ - 1]
        gone == Released(s, e)
    IN  IF less.mem_map[e] > 0 THEN less
        ELSE IF swap_hash_find(s, e) = {} THEN gone
        ELSE LET f == CHOOSE f \in swap_hash_find(s, e) : TRUE
             IN  IF s.page[f].ref # 0 THEN less
                 ELSE swap_free_page(swap_list_del(gone, f), f)

swap_page_count(s, f) == IF PageSwap(s, f) THEN s.mem_map[s.page[f].index] ELSE 0

page_remove_pte(s, m) ==
    LET t == s.pte[m]
        unmapped == [s EXCEPT !.pte[m] = Invalid]
    IN  CASE t.kind = "invalid" -> s
          [] t.kind = "swap"    -> swap_remove_entry(unmapped, t.entry)
          [] t.kind = "present" ->
                LET f == t.page
                    dec == [unmapped EXCEPT !.page[f].ref = @ - 1]
                IN  IF PageSwap(s, f)
                    THEN [dec EXCEPT !.page[f].dirty = @ \/ t.D]
                    ELSE IF dec.page[f].ref = 0 THEN free_page(dec, f) ELSE dec

\* The entry is written anew, with perm and nothing else, even when it maps
\* this page already.
page_insert(s, m, f, w) ==
    LET t == s.pte[m]
        same == t.kind = "present" /\ t.page = f
        removed == IF same THEN s
                   ELSE page_remove_pte([s EXCEPT !.page[f].ref = @ + 1], m)
    IN  [removed EXCEPT !.pte[m] = Present(f, w, FALSE)]

\* copy_range: both share the page and lose the right to write; the parent
\* keeps the dirty bit.
copy_range(s, from, to) ==
    LET t == s.pte[from]
    IN  CASE t.kind = "invalid" -> s
          [] t.kind = "swap"    -> [swap_duplicate(s, t.entry) EXCEPT !.pte[to] = t]
          [] t.kind = "present" ->
                page_insert([s EXCEPT !.pte[from].W = FALSE], to, t.page, FALSE)

(***************************************************************************)
(* User code.                                                              *)
(***************************************************************************)
\* Process p can run: the machine has not stopped and kswapd, which gives up
\* the CPU only when it goes to sleep, does not have it.
CanRun(p) == ~panicked /\ kswapd = "asleep" /\ mm[p] # NoMm /\ ~asleep[p]

Allows(t, w) == t.kind = "present" /\ (w => t.W)

\* The processor sets the dirty bit.  A write changes part of the page.
Accessed(s, m, w) ==
    LET f == s.pte[m].page
    IN  [s EXCEPT !.pte[m].D = @ \/ w,
                  !.page[f].data = IF w THEN (@ + 1) % (MaxData + 1) ELSE @]

\* p is about to execute an access: any, or the one that has faulted.
Executes(p, w) ==
    CanRun(p) /\ (pc[p] = "user" \/ (pc[p] = "retry" /\ w = write[p]))

Access(p, w) ==
    /\ Executes(p, w)
    /\ Allows(mem.pte[mm[p]], w)
    /\ mem' = Accessed(mem, mm[p], w)
    /\ pc' = [pc EXCEPT ![p] = "user"]
    /\ write' = [write EXCEPT ![p] = FALSE]
    /\ UNCHANGED <<mm, newpage, asleep, locked, kswapd, panicked>>

(***************************************************************************)
(* do_pgfault.                                                             *)
(***************************************************************************)
\* With the lock: a new page for a page that has none, or newpage for a copy
PageFor(t) == IF t.kind = "invalid" THEN "first" ELSE "cow"

\* The access faults: do_pgfault up to its first alloc_page, or to lock_mm
\* while another thread has the lock.
Fault(p, w) ==
    LET t == mem.pte[mm[p]]
    IN  /\ Executes(p, w) /\ ~Allows(t, w)
        /\ write' = [write EXCEPT ![p] = w]
        /\ pc' = [pc EXCEPT ![p] = IF locked[mm[p]] THEN "lock" ELSE PageFor(t)]
        /\ locked' = [locked EXCEPT ![mm[p]] = TRUE]
        /\ UNCHANGED <<mem, mm, newpage, asleep, kswapd, panicked>>

\* The lock is free.  do_pgfault asserts that there is something to do, but
\* another thread may have dealt with the same page in the meantime.
do_pgfault(p) ==
    LET t == mem.pte[mm[p]]
    IN  /\ CanRun(p) /\ pc[p] = "lock" /\ ~locked[mm[p]]
        /\ panicked' = (t.kind = "present" /\ ~(write[p] /\ ~t.W))
        /\ locked' = [locked EXCEPT ![mm[p]] = TRUE]
        /\ pc' = [pc EXCEPT ![p] = PageFor(t)]
        /\ UNCHANGED <<mem, mm, write, newpage, asleep, kswapd>>

InAlloc(p) == pc[p] \in {"first", "cow", "swapin"}

\* alloc_page finds nothing: try_free_pages.
try_free_pages(p) ==
    /\ CanRun(p) /\ InAlloc(p) /\ mem.free = {}
    /\ asleep' = [asleep EXCEPT ![p] = TRUE]
    /\ UNCHANGED <<mem, mm, pc, write, newpage, locked, kswapd, panicked>>

\* The fault has been dealt with in state s: unlock_mm, and the access is tried
\* again when the process next has the CPU.
FaultDone(p, s) ==
    /\ mem' = s
    /\ locked' = [locked EXCEPT ![mm[p]] = FALSE]
    /\ pc' = [pc EXCEPT ![p] = "retry"]
    /\ newpage' = [newpage EXCEPT ![p] = NoFrame]
    /\ UNCHANGED <<mm, write, asleep, kswapd, panicked>>

Taken(s, f) == [s EXCEPT !.free = @ \ {f}]

\* alloc_page does not clear the page: any content may be found in it.
pgdir_alloc_page(p, f) ==
    /\ CanRun(p) /\ pc[p] = "first" /\ f \in mem.free
    /\ \E d \in 0 .. MaxData :
        FaultDone(p, page_insert([Taken(mem, f) EXCEPT !.page[f].data = d], mm[p], f, TRUE))

\* Mutant: references from swap entries are not counted.
SharedInMemory(s, f) == s.page[f].ref > 1

Shared(s, f) == s.page[f].ref + swap_page_count(s, f) > 1

\* The end of do_pgfault, with page f found for the entry and n for a copy: a
\* read of a swapped page maps it without the right to write.
MapPage(s, p, f, n) ==
    LET m == mm[p]
    IN  IF s.pte[m].kind = "swap" /\ ~write[p]
        THEN free_page(page_insert(s, m, f, FALSE), n)
        ELSE IF Shared(s, f)
        THEN page_insert([s EXCEPT !.page[n].data = s.page[f].data], m, n, TRUE)
        ELSE free_page(page_insert(s, m, f, TRUE), n)

\* newpage is there.  The entry may have changed while alloc_page slept.
CowPage(p, n) ==
    LET s == Taken(mem, n)
        t == mem.pte[mm[p]]
        found == IF t.kind = "present" THEN {t.page} ELSE swap_hash_find(s, t.entry)
    IN  /\ CanRun(p) /\ pc[p] = "cow" /\ n \in mem.free
        /\ \/ \E f \in found : FaultDone(p, MapPage(s, p, f, n))
           \/ /\ found = {}
              /\ mem' = s
              /\ pc' = [pc EXCEPT ![p] = "swapin"]
              /\ newpage' = [newpage EXCEPT ![p] = n]
              /\ UNCHANGED <<mm, write, asleep, locked, kswapd, panicked>>

\* Mutant: the entry is read without looking for it again.
swap_in_page_twice(p, f) ==
    LET s == Taken(mem, f)
        e == mem.pte[mm[p]].entry
        read == swap_page_add([s EXCEPT !.page[f].data = s.disk[e]], f, e)
    IN  /\ CanRun(p) /\ pc[p] = "swapin" /\ f \in mem.free
        /\ FaultDone(p, MapPage(read, p, f, newpage[p]))

\* swap_in_page has a page to read into.  Somebody else may have read the entry
\* while it slept.
swap_in_page(p, f) ==
    LET s == Taken(mem, f)
        e == mem.pte[mm[p]].entry
        found == swap_hash_find(s, e)
        read == swap_page_add([s EXCEPT !.page[f].data = s.disk[e]], f, e)
    IN  /\ CanRun(p) /\ pc[p] = "swapin" /\ f \in mem.free
        /\ IF found # {}
           THEN \E g \in found : FaultDone(p, MapPage(free_page(s, f), p, g, newpage[p]))
           ELSE FaultDone(p, MapPage(read, p, f, newpage[p]))

\* Process p ends; with the last process of an address space exit_mmap.
Ended(s, p) ==
    IF \E q \in Proc \ {p} : mm[q] = mm[p] THEN s ELSE page_remove_pte(s, mm[p])

\* swapfs_read fails: both pages are given back and the process is killed.
swap_in_fails(p) ==
    /\ CanRun(p) /\ pc[p] = "swapin" /\ mem.free # {}
    /\ swap_hash_find(mem, mem.pte[mm[p]].entry) = {}
    /\ mem' = Ended(free_page(mem, newpage[p]), p)
    /\ locked' = [locked EXCEPT ![mm[p]] = FALSE]
    /\ newpage' = [newpage EXCEPT ![p] = NoFrame]
    /\ pc' = [pc EXCEPT ![p] = "user"]
    /\ write' = [write EXCEPT ![p] = FALSE]
    /\ mm' = [mm EXCEPT ![p] = NoMm]
    /\ UNCHANGED <<asleep, kswapd, panicked>>

(***************************************************************************)
(* System calls.                                                           *)
(***************************************************************************)
\* Also what may_killed does at the end of a fault to a process that was killed
\* during it.
do_exit(p) ==
    /\ CanRun(p) /\ pc[p] \in {"user", "retry"}
    /\ mem' = Ended(mem, p)
    /\ mm' = [mm EXCEPT ![p] = NoMm]
    /\ pc' = [pc EXCEPT ![p] = "user"]
    /\ write' = [write EXCEPT ![p] = FALSE]
    /\ UNCHANGED <<newpage, asleep, locked, kswapd, panicked>>

\* copy_mm with and without CLONE_VM
do_clone(p, q) ==
    /\ CanRun(p) /\ pc[p] = "user" /\ mm[q] = NoMm
    /\ mm' = [mm EXCEPT ![q] = mm[p]]
    /\ UNCHANGED <<mem, pc, write, newpage, asleep, locked, kswapd, panicked>>

do_fork(p, q, n) ==
    /\ CanRun(p) /\ pc[p] = "user" /\ mm[q] = NoMm
    /\ ~locked[mm[p]] /\ \A r \in Proc : mm[r] # n
    /\ mem' = copy_range(mem, mm[p], n)
    /\ mm' = [mm EXCEPT ![q] = n]
    /\ UNCHANGED <<pc, write, newpage, asleep, locked, kswapd, panicked>>

\* The page is unmapped and mapped again: do_brk downwards and upwards.
mm_unmap(p) ==
    /\ CanRun(p) /\ pc[p] = "user" /\ ~locked[mm[p]]
    /\ mem' = page_remove_pte(mem, mm[p])
    /\ UNCHANGED <<procVars, kswapd, panicked>>

(***************************************************************************)
(* kswapd.                                                                 *)
(***************************************************************************)
\* The entry of m and the page it maps change to a swap entry.
SwappedOut(s, m) ==
    LET t == s.pte[m]
        e == s.page[t.page].index
    IN  [swap_duplicate(s, e) EXCEPT !.page[t.page].ref = @ - 1, !.pte[m] = SwapEntry(e)]

\* kswapd runs, woken by try_free_pages or by its timer, and swap_out_vma visits
\* the entry of m.  Which entries a round visits depends on pressure, rounds and
\* swap_address, and is left open.  So is the accessed bit,
\* which is only cleared by the first visit: the same round may visit twice.
swap_out_vma(m) ==
    LET t == mem.pte[m]
        f == t.page
    IN  /\ ~panicked /\ kswapd' = "running"
        /\ t.kind = "present"
        /\ \/ /\ ~PageSwap(mem, f)
              /\ \E e \in SwapEntries(mem) :
                    mem' = SwappedOut(swap_page_add_new(mem, f, e), m)
           \/ /\ PageSwap(mem, f)
              /\ mem' = SwappedOut([mem EXCEPT !.page[f].dirty = @ \/ t.D], m)
        /\ UNCHANGED <<procVars, panicked>>

Inactive(s) == {f \in Frame : s.page[f].list = "inactive"}

\* page_launder: the inactive pages without a reference are given back, dirty
\* ones after they have been written to the swap area, unless that fails, and
\* with them the entries nobody needs; the others become active again.
\* fails: the pages that cannot be written.
page_launder(s, fails) ==
    LET idle    == {f \in Inactive(s) : s.page[f].ref = 0}
        dirty   == {f \in idle : s.page[f].dirty /\ s.mem_map[s.page[f].index] # 0}
        dropped == idle \ (dirty \cap fails)
        InDropped(e) == swap_hash_find(s, e) \cap dropped # {}
    IN  [s EXCEPT
          !.free = @ \cup dropped,
          !.page = [f \in Frame |->
              IF f \in dropped THEN FreshPage
              ELSE IF f \in Inactive(s) \ idle THEN [s.page[f] EXCEPT !.list = "active"]
              ELSE s.page[f]],
          !.mem_map = [e \in Slot |->
              IF s.mem_map[e] = 0 /\ InDropped(e) THEN UNUSED ELSE s.mem_map[e]],
          !.disk = [e \in Slot |->
              IF ~InDropped(e) THEN s.disk[e]
              ELSE LET f == CHOOSE f \in swap_hash_find(s, e) : TRUE
                   IN  IF s.mem_map[e] = 0 THEN 0
                       ELSE IF f \in dirty THEN s.page[f].data ELSE s.disk[e]]]

refill_inactive_scan(s) ==
    [s EXCEPT !.page = [f \in Frame |->
        IF s.page[f].list = "active" /\ s.page[f].ref = 0
        THEN [s.page[f] EXCEPT !.list = "inactive"] ELSE s.page[f]]]

\* The rest of a round of kswapd_main.  kswapd goes on until it has freed
\* enough, then wakes everybody and sleeps.  How much is enough is left open:
\* alloc_page for page tables, stacks and the slab allocator adds to pressure.
kswapd_main ==
    \E fails \in SUBSET Inactive(mem), enough \in BOOLEAN :
        /\ ~panicked
        /\ mem' = refill_inactive_scan(page_launder(mem, fails))
        /\ kswapd' = IF enough THEN "asleep" ELSE "running"
        /\ asleep' = [p \in Proc |-> asleep[p] /\ ~enough]
        /\ UNCHANGED <<mm, pc, write, newpage, locked, panicked>>

Next ==
    \/ \E p \in Proc :
        \/ \E w \in BOOLEAN : Access(p, w) \/ Fault(p, w)
        \/ do_pgfault(p) \/ try_free_pages(p)
        \/ \E f \in Frame : pgdir_alloc_page(p, f) \/ CowPage(p, f) \/ swap_in_page(p, f)
        \/ swap_in_fails(p) \/ do_exit(p) \/ mm_unmap(p)
        \/ \E q \in Proc : do_clone(p, q) \/ \E n \in Mm : do_fork(p, q, n)
    \/ \E m \in Mm : swap_out_vma(m)
    \/ kswapd_main

Spec == Init /\ [][Next]_vars

(***************************************************************************)
(* Properties.                                                             *)
(***************************************************************************)
Mapping(f) == {m \in Mm : mem.pte[m].kind = "present" /\ mem.pte[m].page = f}
Holding(e) == {m \in Mm : mem.pte[m] = SwapEntry(e)}

\* page->ref counts the page table entries that map a page and mem_map those
\* that hold its swap entry, across faults, forks, exits and kswapd (the
\* comment on mem_map): neither is freed while somebody refers to it.
RefsCounted ==
    /\ \A f \in Frame : mem.page[f].ref = Cardinality(Mapping(f))
    /\ \A e \in Slot :
        IF mem.mem_map[e] = UNUSED THEN Holding(e) = {} /\ swap_hash_find(mem, e) = {}
        ELSE mem.mem_map[e] = Cardinality(Holding(e))
    /\ \A f \in mem.free : Mapping(f) = {} /\ ~PageSwap(mem, f) /\ mem.page[f].list = "none"
    /\ \A p \in Proc : newpage[p] # NoFrame =>
        newpage[p] \notin mem.free /\ Mapping(newpage[p]) = {}

\* Nothing leaks: a frame that is not free is mapped, has a swap entry or is
\* held by a fault in progress, and an entry that is not unused is in a page
\* table or belongs to a page in memory, of which there is only one.
NothingLost ==
    /\ \A f \in Frame \ mem.free :
        Mapping(f) # {} \/ PageSwap(mem, f) \/ \E p \in Proc : newpage[p] = f
    /\ \A f \in Frame : PageSwap(mem, f) <=> mem.page[f].list # "none"
    /\ \A e \in Slot :
        /\ Cardinality(swap_hash_find(mem, e)) <= 1
        /\ mem.mem_map[e] = 0 => swap_hash_find(mem, e) # {}

Content(m) ==
    LET t == mem.pte[m]
    IN  CASE t.kind = "invalid" -> Untouched
          [] t.kind = "present" -> mem.page[t.page].data
          [] t.kind = "swap" ->
                IF swap_hash_find(mem, t.entry) = {} THEN mem.disk[t.entry]
                ELSE mem.page[CHOOSE f \in swap_hash_find(mem, t.entry) : TRUE].data

M == INSTANCE Memory WITH val <- [m \in Mm |-> Content(m)]

\* Each address space reads what its own processes last wrote, whether the page
\* is its own, shared until the next write, in the swap area or on the way
\* there or back.  This does not hold: a write can be lost (README, section 3).
ImplementsMemory == M!Spec

\* Page f is not what its swap entry holds on disk, and neither its flag nor
\* an entry that maps it says so: page_launder takes it for clean.
Unsaved(f) ==
    /\ PageSwap(mem, f) /\ ~mem.page[f].dirty
    /\ \A m \in Mapping(f) : ~mem.pte[m].D
    /\ mem.disk[mem.page[f].index] # mem.page[f].data

\* m holds the swap entry of an unsaved page and reads the old copy now.
SetBack(m) ==
    \E f \in Frame :
        /\ Unsaved(f) /\ mem.pte[m] = SwapEntry(mem.page[f].index)
        /\ Content(m)' = mem.disk[mem.page[f].index]

\* A write fault has given m the right to write to f back, and page_insert has
\* dropped the dirty bit.
DirtyBitDropped(m, f) ==
    mem.pte[m] = Present(f, FALSE, TRUE) /\ mem'.pte[m] = Present(f, TRUE, FALSE)

\* What does hold, whatever is scheduled between a fault and its access.  Memory
\* is private, but for one thing: a page that is swapped out and unsaved may be
\* set back to its copy on disk.  And a page becomes unsaved in one way only,
\* when do_pgfault maps a dirty page that is not shared any more once again.
PrivateButForDroppedBits ==
    /\ M!Init
    /\ [][ /\ M!Next \/ \A m \in Mm : Content(m)' = Content(m) \/ SetBack(m)
           /\ \A f \in Frame :
                Unsaved(f)' => Unsaved(f) \/ \E m \in Mm : DirtyBitDropped(m, f) ]_vars
==============================================================================
